--------------------------- MODULE TlsDriverProofs ---------------------------
(***************************************************************************)
(* What the operators of TlsBio, TlsEngine and TlsDriver return, for every *)
(* value of the constants: the facts the theorems about the channel rest   *)
(* on.                                                                     *)
(***************************************************************************)
EXTENDS TlsDriver, TLAPS

\* What a call of the SSL library answers.
Answers == [ssl: Ssl, wire: Wire, rc: Codes, n: Int, errno: Errno, eof: BOOLEAN]

BioResult == [ret: Int, retry: BOOLEAN, inEof: BOOLEAN, errno: Errno]

\* The BIO's read method keeps its type, and gets a record only if there is one.
LEMMA BioInputType ==
    ASSUME NEW wire \in Wire
    PROVE  /\ BioInput(ReadRaw(wire)) \in BioResult
           /\ BioInput(ReadRaw(wire)).ret > 0 => wire.in # <<>>
  BY DEF BioInput, ReadRaw, BioResult, Wire, Ends, Errno, BIOShouldRetry

\* The BIO's write method keeps its type, and writes a record only if the send
\* buffer has room.
LEMMA BioOutputType ==
    ASSUME NEW wire \in Wire
    PROVE  /\ BioOutput(WriteRaw(wire)) \in BioResult
           /\ BioOutput(WriteRaw(wire)).ret > 0 => wire.room - 1 \in Nat
  BY DEF BioOutput, WriteRaw, BioResult, Wire, Ends, Errno, BIOShouldRetry

-----------------------------------------------------------------------------
\* The constants that occur in answers have their types.
LEMMA CodeFacts ==
    /\ "NONE" \in Codes /\ "SSL" \in Codes /\ "WANT_READ" \in Codes
    /\ "WANT_WRITE" \in Codes /\ "WANT_CLIENT_HELLO_CB" \in Codes
    /\ "SYSCALL" \in Codes /\ "ZERO_RETURN" \in Codes
    /\ "none" \in Errno /\ "EAGAIN" \in Errno /\ "ECONNRESET" \in Errno
    /\ "ECONNABORTED" \in Errno
    /\ -1 \in Int /\ 0 \in Int /\ 1 \in Int
    /\ TRUE \in BOOLEAN /\ FALSE \in BOOLEAN
  BY DEF Codes, Errno

\* The handshake part of an SSL object may change while its data does not.
SameData(s, t) == t.pend = s.pend /\ t.tx = s.tx /\ t.shuts = s.shuts

\* The changes the calls make to an SSL object keep its type.
LEMMA SslFailed ==
    ASSUME NEW ssl \in Ssl
    PROVE  LET new == [ssl EXCEPT !.failed = TRUE]
           IN  new \in Ssl /\ SameData(ssl, new) /\ new.hs = ssl.hs
  BY DEF Ssl, SameData

\* close_notify was received (BIO_CTRL_EOF and SSL_RECEIVED_SHUTDOWN in OpenSSL).
LEMMA SslGot ==
    ASSUME NEW ssl \in Ssl
    PROVE  LET new == [ssl EXCEPT !.got = TRUE]
           IN  new \in Ssl /\ SameData(ssl, new) /\ new.hs = ssl.hs
  BY DEF Ssl, SameData

\* A flight of the handshake of Tls_WaitForConnect was completed.
LEMMA SslAdvanced ==
    ASSUME NEW ssl \in Ssl, ssl.hs # 2
    PROVE  LET new == [ssl EXCEPT !.hs = @ + 1]
           IN  new \in Ssl /\ SameData(ssl, new) /\ new.hs = ssl.hs + 1
  BY DEF Ssl, SameData

\* A record of TlsOutputProc is kept for the retry, or no longer.
LEMMA SslPart ==
    ASSUME NEW ssl \in Ssl, NEW b \in BOOLEAN
    PROVE  LET new == [ssl EXCEPT !.part = b]
           IN  new \in Ssl /\ SameData(ssl, new) /\ new.hs = ssl.hs
  BY DEF Ssl, SameData

\* BIO_write of TlsOutputProc wrote a unit.
LEMMA SslCount ==
    ASSUME NEW ssl \in Ssl
    PROVE  LET new == [ssl EXCEPT !.tx = @ + 1]
           IN  /\ new \in Ssl /\ new.hs = ssl.hs /\ new.pend = ssl.pend
               /\ new.shuts = ssl.shuts /\ new.tx = ssl.tx + 1
  BY DEF Ssl

\* SSL_shutdown was called, by TlsCloseProc or by Tls_Clean.
LEMMA SslShut ==
    ASSUME NEW ssl \in Ssl
    PROVE  LET new == [ssl EXCEPT !.shuts = @ + 1]
           IN  new \in Ssl /\ new.hs = ssl.hs /\ new.pend = ssl.pend /\ new.tx = ssl.tx
  BY DEF Ssl

\* SSL_shutdown sent its close_notify.
LEMMA SslNotified ==
    ASSUME NEW ssl \in Ssl
    PROVE  LET new == [ssl EXCEPT !.sent = TRUE]
           IN  new \in Ssl /\ new.hs = ssl.hs /\ new.pend = ssl.pend /\ new.tx = ssl.tx
  BY DEF Ssl

\* The fields of an SSL object have their types.
LEMMA SslSame ==
    ASSUME NEW ssl \in Ssl
    PROVE  SameData(ssl, ssl) /\ ssl.hs \in 0..2 /\ ssl.pend \in Nat /\ ssl.tx \in Nat
  BY DEF Ssl, SameData

\* The changes the calls make to the channel below keep its type.
LEMMA WireChanges ==
    ASSUME NEW wire \in Wire
    PROVE  /\ wire.in # <<>> => /\ [wire EXCEPT !.in = Tail(@)] \in Wire
                                /\ Head(wire.in) \in Record
           /\ wire.room - 1 \in Nat => [wire EXCEPT !.room = @ - 1] \in Wire
  BY DEF Wire

\* The answer to a call the BIO could not serve; it is never success.
LEMMA BlockedType ==
    ASSUME NEW ssl \in Ssl, NEW wire \in Wire, NEW bio \in BioResult,
           NEW want \in {"WANT_READ", "WANT_WRITE"}
    PROVE  /\ Blocked(ssl, wire, bio, want) \in Answers
           /\ Blocked(ssl, wire, bio, want).rc # "NONE"
           /\ Blocked(ssl, wire, bio, want).wire = wire
           /\ SameData(ssl, Blocked(ssl, wire, bio, want).ssl)
           /\ Blocked(ssl, wire, bio, want).ssl.hs = ssl.hs
<1>0. bio.ret \in Int /\ bio.errno \in Errno /\ want \in Codes /\ want # "NONE"
  BY CodeFacts DEF BioResult
<1>1. CASE bio.retry
  BY <1>0, <1>1, CodeFacts, SslSame DEF Blocked, Answer, Answers
<1>2. CASE ~bio.retry /\ ssl.got
  BY <1>0, <1>2, CodeFacts, SslSame DEF Blocked, Answer, Answers
<1>3. CASE ~bio.retry /\ ~ssl.got /\ bio.inEof /\ OpenSSL3
  BY <1>0, <1>3, CodeFacts, SslFailed DEF Blocked, Answer, Answers
<1>4. CASE ~bio.retry /\ ~ssl.got /\ ~(bio.inEof /\ OpenSSL3)
  BY <1>0, <1>4, CodeFacts, SslSame DEF Blocked, Answer, Answers
<1>5. QED
  BY <1>1, <1>2, <1>3, <1>4

-----------------------------------------------------------------------------
\* What one flight of the handshake does: it keeps the types and the data, and
\* when it succeeds the handshake is one step further.
FlightDone(ssl, r) ==
    /\ r \in Answers
    /\ SameData(ssl, r.ssl)
    /\ r.rc = "NONE" => r.ssl.hs = ssl.hs + 1

\* A flight that is sent, through BioOutput.
LEMMA SendFlightDone ==
    ASSUME NEW ssl \in Ssl, NEW wire \in Wire, ssl.hs # 2
    PROVE  FlightDone(ssl, SendFlight(ssl, wire))
<1> DEFINE bio == BioOutput(WriteRaw(wire))
<1>1. bio \in BioResult /\ (bio.ret > 0 => wire.room - 1 \in Nat)
  BY BioOutputType
<1>2. CASE bio.ret > 0
  BY <1>1, <1>2, CodeFacts, SslAdvanced, WireChanges
     DEF SendFlight, Done, Answer, Answers, FlightDone
<1>3. CASE ~(bio.ret > 0)
  <2>1. SendFlight(ssl, wire) = Blocked(ssl, wire, bio, "WANT_WRITE")
    BY <1>3 DEF SendFlight
  <2>2. QED
    BY <1>1, <2>1, BlockedType DEF FlightDone
<1>4. QED
  BY <1>2, <1>3

\* A flight that is received, through BioInput.
LEMMA ReceiveFlightDone ==
    ASSUME NEW ssl \in Ssl, NEW wire \in Wire, NEW again \in BOOLEAN, ssl.hs # 2
    PROVE  FlightDone(ssl, ReceiveFlight(ssl, wire, again))
<1> DEFINE bio  == BioInput(ReadRaw(wire))
           rest == [wire EXCEPT !.in = Tail(@)]
<1>1. bio \in BioResult /\ (bio.ret > 0 => wire.in # <<>>)
  BY BioInputType
<1>2. CASE ssl.got
  BY <1>2, CodeFacts, SslSame DEF ReceiveFlight, Answer, Answers, FlightDone
<1>3. CASE ~ssl.got /\ bio.ret <= 0
  <2> DEFINE b == Blocked(ssl, wire, bio, "WANT_READ")
  <2>1. ReceiveFlight(ssl, wire, again) = [b EXCEPT !.n = -1]
    BY <1>3 DEF ReceiveFlight
  <2>2. b \in Answers /\ b.rc # "NONE" /\ SameData(ssl, b.ssl)
    BY <1>1, BlockedType
  <2>3. QED
    BY <2>1, <2>2, CodeFacts DEF FlightDone, Answers
<1>4. CASE ~ssl.got /\ ~(bio.ret <= 0)
  <2>0. bio.ret \in Int
    BY <1>1 DEF BioResult
  <2>a. wire.in # <<>>
    BY <1>1, <1>4, <2>0
  <2>1. wire.in # <<>> /\ rest \in Wire
    BY <2>a, WireChanges
  <2>2. CASE Head(wire.in) = "hs" /\ Server /\ again
    BY <1>4, <2>1, <2>2, CodeFacts, SslSame
       DEF ReceiveFlight, Answer, Answers, FlightDone
  <2>3. CASE Head(wire.in) = "hs" /\ ~(Server /\ again)
    BY <1>4, <2>1, <2>3, CodeFacts, SslAdvanced
       DEF ReceiveFlight, Done, Answer, Answers, FlightDone
  <2>4. CASE Head(wire.in) = "close_notify"
    BY <1>4, <2>1, <2>4, CodeFacts, SslGot
       DEF ReceiveFlight, Answer, Answers, FlightDone
  <2>5. CASE Head(wire.in) \notin {"hs", "close_notify"}
    BY <1>4, <2>1, <2>5, CodeFacts, SslFailed
       DEF ReceiveFlight, LibraryError, Answer, Answers, FlightDone
  <2>6. QED
    BY <2>2, <2>3, <2>4, <2>5
<1>5. QED
  BY <1>1, <1>2, <1>3, <1>4

\* One flight, of the side whose turn it is.
LEMMA FlightType ==
    ASSUME NEW ssl \in Ssl, NEW wire \in Wire, NEW again \in BOOLEAN
    PROVE  LET r == Flight(ssl, wire, again)
           IN  /\ r \in Answers
               /\ SameData(ssl, r.ssl)
               /\ r.rc = "NONE" => r.ssl.hs = 2 \/ r.ssl.hs = ssl.hs + 1
<1>1. CASE ssl.failed
  BY <1>1, CodeFacts, SslFailed DEF Flight, LibraryError, Answer, Answers
<1>2. CASE ~ssl.failed /\ ssl.hs = 2
  BY <1>2, CodeFacts, SslSame DEF Flight, Done, Answer, Answers
<1>3. CASE ~ssl.failed /\ ssl.hs # 2 /\ (ssl.hs = 0) = Server
  BY <1>3, ReceiveFlightDone DEF Flight, FlightDone
<1>4. CASE ~ssl.failed /\ ssl.hs # 2 /\ (ssl.hs = 0) # Server
  BY <1>4, SendFlightDone DEF Flight, FlightDone
<1>5. QED
  BY <1>1, <1>2, <1>3, <1>4

\* A handshake keeps the types and the data; it succeeds only when it is complete.
LEMMA DoHandshakeType ==
    ASSUME NEW ssl \in Ssl, NEW wire \in Wire, NEW again \in BOOLEAN
    PROVE  LET r == DoHandshake(ssl, wire, again)
           IN  /\ r \in Answers
               /\ SameData(ssl, r.ssl)
               /\ r.rc = "NONE" => r.ssl.hs = 2
<1> DEFINE first == Flight(ssl, wire, again)
           second == Flight(first.ssl, first.wire, again)
<1>1. first \in Answers /\ SameData(ssl, first.ssl)
      /\ (first.rc = "NONE" => first.ssl.hs = 2 \/ first.ssl.hs = ssl.hs + 1)
  BY FlightType
<1>2. first.ssl \in Ssl /\ first.wire \in Wire
  BY <1>1 DEF Answers
<1>3. second \in Answers /\ SameData(first.ssl, second.ssl)
      /\ (second.rc = "NONE" => second.ssl.hs = 2 \/ second.ssl.hs = first.ssl.hs + 1)
  BY <1>2, FlightType
<1>4. second.ssl \in Ssl
  BY <1>3 DEF Answers
<1>5. ssl.hs \in 0..2 /\ first.ssl.hs \in 0..2 /\ second.ssl.hs \in 0..2
  BY <1>2, <1>4, SslSame
<1>6. CASE first.rc = "NONE"
  BY <1>1, <1>3, <1>5, <1>6 DEF DoHandshake, Continue, SameData
<1>7. CASE first.rc # "NONE"
  BY <1>1, <1>7 DEF DoHandshake, Continue
<1>8. QED
  BY <1>6, <1>7

-----------------------------------------------------------------------------
\* SSL_read keeps the types, does not touch the handshake or the output, and
\* moves something exactly when it succeeds.
LEMMA SslReadType ==
    ASSUME NEW ssl \in Ssl, NEW wire \in Wire, NEW size \in Nat \ {0}
    PROVE  LET r == SslRead(ssl, wire, size)
           IN  /\ r \in Answers
               /\ r.ssl.hs = ssl.hs /\ r.ssl.tx = ssl.tx /\ r.ssl.shuts = ssl.shuts
               /\ r.rc = "NONE" => r.n > 0
<1> DEFINE bio  == BioInput(ReadRaw(wire))
           rest == [wire EXCEPT !.in = Tail(@)]
           Result(r) == /\ r \in Answers
                        /\ r.ssl.hs = ssl.hs /\ r.ssl.tx = ssl.tx /\ r.ssl.shuts = ssl.shuts
                        /\ r.rc = "NONE" => r.n > 0
<1> SUFFICES Result(SslRead(ssl, wire, size))
  OBVIOUS
<1>1. bio \in BioResult /\ (bio.ret > 0 => wire.in # <<>>)
  BY BioInputType
<1>2. CASE ssl.pend > 0
  <2>1. /\ Taken(ssl.pend, size) \in Int /\ Taken(ssl.pend, size) > 0
        /\ ssl.pend - Taken(ssl.pend, size) \in Nat
    BY <1>2, SslSame DEF Taken
  <2>2. LET new == [ssl EXCEPT !.pend = @ - Taken(ssl.pend, size)]
        IN  new \in Ssl /\ new.hs = ssl.hs /\ new.tx = ssl.tx /\ new.shuts = ssl.shuts
    BY <2>1 DEF Ssl
  <2>3. QED
    BY <1>2, <2>1, <2>2, CodeFacts DEF SslRead, Done, Answer, Answers
<1>3. CASE ~(ssl.pend > 0) /\ ssl.got
  BY <1>3, CodeFacts DEF SslRead, Answer, Answers
<1>4. CASE ~(ssl.pend > 0) /\ ~ssl.got /\ ssl.failed
  BY <1>4, CodeFacts, SslFailed DEF SslRead, LibraryError, Answer, Answers, SameData
<1>5. CASE ~(ssl.pend > 0) /\ ~ssl.got /\ ~ssl.failed /\ bio.ret <= 0
  <2>1. SslRead(ssl, wire, size) = Blocked(ssl, wire, bio, "WANT_READ")
    BY <1>5 DEF SslRead
  <2>2. QED
    BY <1>1, <2>1, BlockedType DEF SameData
<1>6. CASE ~(ssl.pend > 0) /\ ~ssl.got /\ ~ssl.failed /\ ~(bio.ret <= 0)
  <2>1. bio.ret \in Int
    BY <1>1 DEF BioResult
  <2>2. wire.in # <<>>
    BY <1>1, <1>6, <2>1
  <2>3. rest \in Wire
    BY <2>2, WireChanges
  <2>4. CASE Head(wire.in) = "data"
    <3>1. /\ Taken(RecordUnits, size) \in Int /\ Taken(RecordUnits, size) > 0
          /\ RecordUnits - Taken(RecordUnits, size) \in Nat
      BY EngineAssumption DEF Taken
    <3>2. LET new == [ssl EXCEPT !.pend = RecordUnits - Taken(RecordUnits, size)]
          IN  new \in Ssl /\ new.hs = ssl.hs /\ new.tx = ssl.tx /\ new.shuts = ssl.shuts
      BY <3>1 DEF Ssl
    <3>3. QED
      BY <1>6, <2>3, <2>4, <3>1, <3>2, CodeFacts DEF SslRead, Done, Answer, Answers
  <2>5. CASE Head(wire.in) = "close_notify"
    BY <1>6, <2>3, <2>5, CodeFacts, SslGot DEF SslRead, Answer, Answers, SameData
  <2>6. CASE Head(wire.in) \notin {"data", "close_notify"}
    BY <1>6, <2>3, <2>6, CodeFacts, SslFailed
       DEF SslRead, LibraryError, Answer, Answers, SameData
  <2>7. QED
    BY <2>4, <2>5, <2>6
<1>7. QED
  BY <1>2, <1>3, <1>4, <1>5, <1>6

\* SSL_write keeps the types and does not touch the handshake or the input; the
\* unit is on the wire exactly when it succeeds.
LEMMA SslWriteType ==
    ASSUME NEW ssl \in Ssl, NEW wire \in Wire
    PROVE  LET r == SslWrite(ssl, wire)
           IN  /\ r \in Answers
               /\ r.ssl.hs = ssl.hs /\ r.ssl.pend = ssl.pend /\ r.ssl.shuts = ssl.shuts
               /\ r.rc = "NONE" => r.n = 1 /\ r.ssl.tx = ssl.tx + 1
               /\ r.rc # "NONE" => r.n = -1 /\ r.ssl.tx = ssl.tx
<1> DEFINE bio == BioOutput(WriteRaw(wire))
           Result(r) ==
               /\ r \in Answers
               /\ r.ssl.hs = ssl.hs /\ r.ssl.pend = ssl.pend /\ r.ssl.shuts = ssl.shuts
               /\ r.rc = "NONE" => r.n = 1 /\ r.ssl.tx = ssl.tx + 1
               /\ r.rc # "NONE" => r.n = -1 /\ r.ssl.tx = ssl.tx
<1> SUFFICES Result(SslWrite(ssl, wire))
  OBVIOUS
<1>1. bio \in BioResult /\ (bio.ret > 0 => wire.room - 1 \in Nat)
  BY BioOutputType
<1>2. CASE ssl.failed \/ ssl.sent
  <2> DEFINE r == LibraryError(ssl, wire)
  <2>1. SslWrite(ssl, wire) = r
    BY <1>2 DEF SslWrite
  <2>2. r \in Answers
    BY CodeFacts, SslFailed DEF LibraryError, Answer, Answers
  <2>3. SameData(ssl, r.ssl) /\ r.ssl.hs = ssl.hs /\ r.rc = "SSL" /\ r.n = -1
    BY SslFailed DEF LibraryError, Answer
  <2> HIDE DEF r
  <2>4. QED
    BY <2>1, <2>2, <2>3 DEF SameData
<1>3. CASE ~(ssl.failed \/ ssl.sent) /\ bio.ret > 0
  <2> DEFINE whole == [ssl EXCEPT !.part = FALSE]
             new   == [whole EXCEPT !.tx = @ + 1]
  <2>a. /\ whole \in Ssl /\ whole.hs = ssl.hs /\ whole.pend = ssl.pend
        /\ whole.shuts = ssl.shuts /\ whole.tx = ssl.tx
    BY SslPart, CodeFacts DEF SameData
  <2>b. [ssl EXCEPT !.part = FALSE, !.tx = @ + 1] = new
    BY DEF Ssl
  <2>1. /\ new \in Ssl /\ new.hs = ssl.hs /\ new.pend = ssl.pend
        /\ new.shuts = ssl.shuts /\ new.tx = ssl.tx + 1
    BY <2>a, SslCount
  <2> HIDE DEF new
  <2>2. [wire EXCEPT !.room = @ - 1] \in Wire
    BY <1>1, <1>3, WireChanges
  <2>3. QED
    BY <1>3, <2>b, <2>1, <2>2, CodeFacts DEF SslWrite, Done, Answer, Answers
<1>4. CASE ~(ssl.failed \/ ssl.sent) /\ ~(bio.ret > 0)
  <2> DEFINE kept == [ssl EXCEPT !.part = TRUE]
             b    == Blocked(kept, wire, bio, "WANT_WRITE")
  <2>1. /\ kept \in Ssl /\ kept.hs = ssl.hs /\ kept.pend = ssl.pend
        /\ kept.shuts = ssl.shuts /\ kept.tx = ssl.tx
    BY SslPart, CodeFacts DEF SameData
  <2>2. /\ b \in Answers /\ b.rc # "NONE" /\ SameData(kept, b.ssl)
        /\ b.ssl.hs = kept.hs
    BY <1>1, <2>1, BlockedType
  <2>3. SslWrite(ssl, wire) = [b EXCEPT !.n = -1]
    BY <1>4 DEF SslWrite
  <2> HIDE DEF b, kept
  <2>4. QED
    BY <2>1, <2>2, <2>3, CodeFacts DEF Answers, SameData
<1>5. QED
  BY <1>2, <1>3, <1>4

\* SSL_shutdown touches neither the handshake nor the data.
LEMMA SslShutdownType ==
    ASSUME NEW ssl \in Ssl
    PROVE  /\ SslShutdown(ssl) \in Ssl
           /\ SslShutdown(ssl).hs = ssl.hs
           /\ SslShutdown(ssl).pend = ssl.pend
           /\ SslShutdown(ssl).tx = ssl.tx
<1> DEFINE counted == [ssl EXCEPT !.shuts = @ + 1]
<1>1. /\ counted \in Ssl /\ counted.hs = ssl.hs /\ counted.pend = ssl.pend
      /\ counted.tx = ssl.tx
  BY SslShut
<1>2. SslShutdown(ssl) \in {counted, [counted EXCEPT !.sent = TRUE]}
  BY DEF SslShutdown, Ssl
<1> HIDE DEF counted
<1>3. QED
  BY <1>1, <1>2, SslNotified

-----------------------------------------------------------------------------
\* The driver's structures.  `Holds' is what decides how long the State lives,
\* `Keeps' says that the session's flags only go forward.
Holds(d, e) == e.timer = d.timer /\ e.refs = d.refs /\ e.life = d.life /\ e.watch = d.watch

Keeps(d, e) ==
    /\ Is(d, "FATAL_ERROR") => Is(e, "FATAL_ERROR")
    /\ Is(d, "EOF") => Is(e, "EOF")
    /\ Is(e, "INIT") => Is(d, "INIT")

\* TLS_TCL_INIT is only cleared together with the end of the handshake.
Secured(d, s) == ~Is(d, "INIT") => s.hs = 2

\* Raising flags and noting what OpenSSL wants keep the type.
LEMMA RaiseType ==
    ASSUME NEW drv \in Drv, NEW flags \in SUBSET (Flag \ {"INIT"})
    PROVE  LET new == Raise(drv, flags)
           IN  /\ new \in Drv /\ Holds(drv, new) /\ Keeps(drv, new)
               /\ Is(new, "INIT") = Is(drv, "INIT")
  BY DEF Raise, Drv, Holds, Keeps, Is

\* The statePtr->want assignments of tlsIO.c leave the flags and the references.
LEMMA WantType ==
    ASSUME NEW drv \in Drv, NEW rc
    PROVE  LET new == Want(drv, rc)
           IN  new \in Drv /\ Holds(drv, new) /\ new.flags = drv.flags
  BY DEF Want, Drv, Holds, Direction

\* Tls_WaitForConnect clears TLS_TCL_INIT once the handshake is complete.
LEMMA EstablishedType ==
    ASSUME NEW drv \in Drv
    PROVE  LET new == [drv EXCEPT !.flags = @ \ {"INIT"}]
           IN  new \in Drv /\ Holds(drv, new) /\ Keeps(drv, new) /\ ~Is(new, "INIT")
  BY DEF Drv, Holds, Keeps, Is

\* The sets of flags the error paths of tlsIO.c raise.
LEMMA FlagFacts ==
    /\ {"FATAL_ERROR", "EOF"} \in SUBSET (Flag \ {"INIT"})
    /\ {"EOF"} \in SUBSET (Flag \ {"INIT"})
    /\ {"CLOSED"} \in SUBSET (Flag \ {"INIT"})
  BY DEF Flag

\* What Tls_WaitForConnect leaves.
Waited(drv, ssl, h) ==
    /\ h.drv \in Drv /\ h.ssl \in Ssl /\ h.wire \in Wire /\ h.rc \in Codes
    /\ h.err \in Errno /\ h.ret \in {-1, 0, 1}
    /\ Holds(drv, h.drv) /\ Keeps(drv, h.drv)
    /\ SameData(ssl, h.ssl)
    /\ Is(drv, "FATAL_ERROR") => h.ssl = ssl
    /\ Secured(drv, ssl) => Secured(h.drv, h.ssl)
    /\ h.ret = 1 => ~Is(h.drv, "INIT")

\* Tls_WaitForConnect keeps the types and the references; after a fatal error it
\* leaves the SSL object alone, and it answers 1 only if TLS_TCL_INIT is cleared.
LEMMA WaitForConnectType ==
    ASSUME NEW drv \in Drv, NEW ssl \in Ssl, NEW wire \in Wire,
           NEW permanent \in BOOLEAN, NEW again \in BOOLEAN
    PROVE  Waited(drv, ssl, Tls_WaitForConnect(drv, ssl, wire, permanent, again))
<1> DEFINE w == Tls_WaitForConnect(drv, ssl, wire, permanent, again)
           h == DoHandshake(ssl, wire, again)
           failed == Raise(drv, {"FATAL_ERROR", "EOF"})
           ended  == Raise(drv, {"EOF"})
           done   == [drv EXCEPT !.flags = @ \ {"INIT"}]
<1>1. /\ h \in Answers /\ SameData(ssl, h.ssl)
      /\ h.rc = "NONE" => h.ssl.hs = 2
  BY DoHandshakeType
<1>2. h.ssl \in Ssl /\ h.wire \in Wire /\ h.rc \in Codes /\ h.errno \in Errno
  BY <1>1 DEF Answers
<1>3. Aborted(h.errno) \in Errno
  BY <1>2, CodeFacts DEF Aborted
<1>4. Holds(drv, drv) /\ Keeps(drv, drv) /\ SameData(ssl, ssl)
  BY SslSame DEF Holds, Keeps
<1>5. /\ failed \in Drv /\ Holds(drv, failed) /\ Keeps(drv, failed)
      /\ Is(failed, "INIT") = Is(drv, "INIT")
      /\ ended \in Drv /\ Holds(drv, ended) /\ Keeps(drv, ended)
      /\ Is(ended, "INIT") = Is(drv, "INIT")
  BY RaiseType, FlagFacts
<1>6. done \in Drv /\ Holds(drv, done) /\ Keeps(drv, done) /\ ~Is(done, "INIT")
  BY EstablishedType
<1>7. /\ Want(drv, h.rc) \in Drv /\ Holds(drv, Want(drv, h.rc))
      /\ Keeps(drv, Want(drv, h.rc))
      /\ Is(Want(drv, h.rc), "INIT") = Is(drv, "INIT")
  BY WantType DEF Keeps, Is
<1> HIDE DEF h, failed, ended, done
<1>a. CASE ~Is(drv, "INIT")
  BY <1>4, <1>a, CodeFacts DEF Tls_WaitForConnect, Waited
<1>b. CASE Is(drv, "INIT") /\ Is(drv, "FATAL_ERROR")
  BY <1>4, <1>b, CodeFacts DEF Tls_WaitForConnect, Waited
<1>c. CASE Is(drv, "INIT") /\ ~Is(drv, "FATAL_ERROR")
  <2> DEFINE late(ret, err, d) ==
        [ret |-> ret, err |-> err, drv |-> d, ssl |-> h.ssl, wire |-> h.wire, rc |-> h.rc]
  <2>1. CASE h.rc = "NONE"
    <3>1. w = late(1, "none", done)
      BY <1>c, <2>1 DEF Tls_WaitForConnect, HandshakeAnswer, h, done
    <3>2. QED
      BY <1>1, <1>2, <1>6, <1>c, <2>1, <3>1, CodeFacts DEF Waited, Secured
  <2>2. CASE h.rc = "SSL"
    <3>1. w = late(-1, "ECONNABORTED", failed)
      BY <1>c, <2>2 DEF Tls_WaitForConnect, HandshakeAnswer, h, failed
    <3>2. QED
      BY <1>1, <1>2, <1>5, <1>c, <3>1, CodeFacts DEF Waited, Secured
  <2>3. CASE h.rc = "SYSCALL" /\ h.n = 0
    <3>1. w = late(-1, "ECONNRESET", ended)
      BY <1>c, <2>3 DEF Tls_WaitForConnect, HandshakeAnswer, h, ended
    <3>2. QED
      BY <1>1, <1>2, <1>5, <1>c, <3>1, CodeFacts DEF Waited, Secured
  <2>4. CASE h.rc = "SYSCALL" /\ h.n # 0
    <3>1. w = late(-1, Aborted(h.errno), failed)
      BY <1>c, <2>4 DEF Tls_WaitForConnect, HandshakeAnswer, h, failed
    <3>2. QED
      BY <1>1, <1>2, <1>3, <1>5, <1>c, <3>1, CodeFacts DEF Waited, Secured
  <2>5. CASE h.rc = "ZERO_RETURN"
    <3>1. w = late(-1, "ECONNRESET", ended)
      BY <1>c, <2>5 DEF Tls_WaitForConnect, HandshakeAnswer, h, ended
    <3>2. QED
      BY <1>1, <1>2, <1>5, <1>c, <3>1, CodeFacts DEF Waited, Secured
  <2>6. CASE h.rc \notin {"NONE", "SSL", "SYSCALL", "ZERO_RETURN"}
    <3>1. w = late(0, "EAGAIN", Want(drv, h.rc))
      BY <1>c, <2>6 DEF Tls_WaitForConnect, HandshakeAnswer, h
    <3>2. QED
      BY <1>1, <1>2, <1>7, <1>c, <3>1, CodeFacts DEF Waited, Secured
  <2>7. QED
    BY <2>1, <2>2, <2>3, <2>4, <2>5, <2>6
<1>d. QED
  BY <1>a, <1>b, <1>c

-----------------------------------------------------------------------------
\* What the input and output procedures leave.
Moved(drv, ssl, r) ==
    /\ r.drv \in Drv /\ r.ssl \in Ssl /\ r.wire \in Wire /\ r.rc \in Codes
    /\ r.err \in Errno /\ r.n \in Int
    /\ Holds(drv, r.drv) /\ Keeps(drv, r.drv)
    /\ Is(drv, "FATAL_ERROR") => r.ssl = ssl
    /\ Secured(drv, ssl) => Secured(r.drv, r.ssl)

\* What the input procedure makes of an answer keeps the types.
LEMMA InputAnswerType ==
    ASSUME NEW drv \in Drv, NEW a \in Answers, a.rc = "NONE" => a.n > 0
    PROVE  LET r == InputAnswer(drv, a)
           IN  /\ r.drv \in Drv /\ Holds(drv, r.drv) /\ Keeps(drv, r.drv)
               /\ Is(r.drv, "INIT") = Is(drv, "INIT")
               /\ r.ssl = a.ssl /\ r.wire = a.wire /\ r.rc = a.rc
               /\ r.err \in Errno /\ r.n \in Int
<1> DEFINE failed == Raise(drv, {"FATAL_ERROR", "EOF"})
           ended  == Raise(drv, {"EOF"})
           io(n, err, d) == IoResult(n, err, d, a.ssl, a.wire, a.rc)
<1>1. a.errno \in Errno /\ a.n \in Int /\ a.rc \in Codes
  BY DEF Answers
<1>2. Holds(drv, drv) /\ Keeps(drv, drv)
  BY DEF Holds, Keeps
<1>3. /\ failed \in Drv /\ Holds(drv, failed) /\ Keeps(drv, failed)
      /\ Is(failed, "INIT") = Is(drv, "INIT")
      /\ ended \in Drv /\ Holds(drv, ended) /\ Keeps(drv, ended)
      /\ Is(ended, "INIT") = Is(drv, "INIT")
  BY RaiseType, FlagFacts
<1>4. /\ Want(drv, a.rc) \in Drv /\ Holds(drv, Want(drv, a.rc)) /\ Keeps(drv, Want(drv, a.rc))
      /\ Is(Want(drv, a.rc), "INIT") = Is(drv, "INIT")
  BY WantType DEF Keeps, Is
<1>5. \/ InputAnswer(drv, a) = io(a.n, "none", drv)
      \/ InputAnswer(drv, a) = io(0, "none", ended)
      \/ InputAnswer(drv, a) = io(-1, "ECONNABORTED", failed)
      \/ InputAnswer(drv, a) = io(-1, "EAGAIN", Want(drv, a.rc))
      \/ InputAnswer(drv, a) = io(-1, a.errno, failed)
      \/ InputAnswer(drv, a) = io(0, "none", drv)
  BY DEF InputAnswer
<1> HIDE DEF failed, ended
<1>6. QED
  BY <1>1, <1>2, <1>3, <1>4, <1>5, CodeFacts DEF IoResult, failed, ended

\* TlsInputProc: it keeps the types; it hands over data only from an established
\* session, and reads nothing once TLS_TCL_EOF is set; it does not write.
LEMMA InputProcType ==
    ASSUME NEW drv \in Drv, NEW ssl \in Ssl, NEW wire \in Wire,
           NEW size \in Nat \ {0}, NEW again \in BOOLEAN
    PROVE  LET r == TlsInputProc(drv, ssl, wire, size, again)
           IN  /\ Moved(drv, ssl, r)
               /\ r.n > 0 => ~Is(r.drv, "INIT")
               /\ Is(drv, "EOF") => r.ssl = ssl
               /\ r.ssl.tx = ssl.tx
<1> DEFINE p == TlsInputProc(drv, ssl, wire, size, again)
           h == Tls_WaitForConnect(drv, ssl, wire, FALSE, again)
           a == SslRead(h.ssl, h.wire, size)
           i == InputAnswer(h.drv, a)
           Result(r) == /\ Moved(drv, ssl, r)
                        /\ r.n > 0 => ~Is(r.drv, "INIT")
                        /\ Is(drv, "EOF") => r.ssl = ssl
                        /\ r.ssl.tx = ssl.tx
<1> SUFFICES Result(p)
  OBVIOUS
<1>1. Waited(drv, ssl, h)
  BY WaitForConnectType
<1>2. CASE Is(drv, "FATAL_ERROR") \/ Is(drv, "EOF")
  <2>1. p = IoResult(0, "none", drv, ssl, wire, "NONE")
    BY <1>2 DEF TlsInputProc
  <2>2. QED
    BY <2>1, CodeFacts DEF IoResult, Moved, Holds, Keeps
<1>3. CASE ~(Is(drv, "FATAL_ERROR") \/ Is(drv, "EOF")) /\ h.ret = 1
  <2>1. p = i
    BY <1>3 DEF TlsInputProc
  <2>2. /\ a \in Answers /\ (a.rc = "NONE" => a.n > 0)
        /\ a.ssl.hs = h.ssl.hs /\ a.ssl.tx = h.ssl.tx
    BY <1>1, SslReadType DEF Waited
  <2>3. h.drv \in Drv /\ Holds(drv, h.drv) /\ Keeps(drv, h.drv) /\ ~Is(h.drv, "INIT")
        /\ (Secured(drv, ssl) => Secured(h.drv, h.ssl)) /\ h.ssl.tx = ssl.tx
    BY <1>1, <1>3 DEF Waited, SameData
  <2> HIDE DEF h, a
  <2>4. /\ i.drv \in Drv /\ Holds(h.drv, i.drv) /\ Keeps(h.drv, i.drv)
        /\ Is(i.drv, "INIT") = Is(h.drv, "INIT")
        /\ i.ssl = a.ssl /\ i.wire = a.wire /\ i.rc = a.rc
        /\ i.err \in Errno /\ i.n \in Int
    BY <2>2, <2>3, InputAnswerType
  <2>5. a.ssl \in Ssl /\ a.wire \in Wire /\ a.rc \in Codes
    BY <2>2 DEF Answers
  <2> HIDE DEF i
  <2>6. Holds(drv, i.drv) /\ Keeps(drv, i.drv)
    BY <2>3, <2>4 DEF Holds, Keeps
  <2>7. QED
    BY <1>3, <2>1, <2>2, <2>3, <2>4, <2>5, <2>6 DEF Moved, Secured
<1>4. CASE ~(Is(drv, "FATAL_ERROR") \/ Is(drv, "EOF")) /\ h.ret = -1 /\ h.err = "ECONNRESET"
  <2> DEFINE ended == Raise(h.drv, {"EOF"})
  <2>0. h.ret # 1
    <3>1. -1 # 1
      OBVIOUS
    <3>2. QED
      BY <1>4, <3>1
  <2>1. p = IoResult(0, "none", ended, h.ssl, h.wire, h.rc)
    BY <1>4, <2>0, Zenon DEF TlsInputProc
  <2>2. /\ ended \in Drv /\ Holds(h.drv, ended) /\ Keeps(h.drv, ended)
        /\ Is(ended, "INIT") = Is(h.drv, "INIT")
    BY <1>1, RaiseType, FlagFacts DEF Waited
  <2> HIDE DEF h, ended
  <2>3. Holds(drv, ended) /\ Keeps(drv, ended)
    BY <1>1, <2>2 DEF Waited, Holds, Keeps
  <2>4. QED
    BY <1>1, <1>4, <2>1, <2>2, <2>3, CodeFacts DEF IoResult, Moved, Waited, SameData, Secured
<1>5. CASE /\ ~(Is(drv, "FATAL_ERROR") \/ Is(drv, "EOF"))
           /\ h.ret # 1 /\ ~(h.ret = -1 /\ h.err = "ECONNRESET")
  <2>1. p = IoResult(-1, h.err, h.drv, h.ssl, h.wire, h.rc)
    BY <1>5 DEF TlsInputProc
  <2> HIDE DEF h
  <2>2. QED
    BY <1>1, <1>5, <2>1, CodeFacts DEF IoResult, Moved, Waited, SameData
<1>6. QED
  BY <1>2, <1>3, <1>4, <1>5

\* What the output procedure makes of an answer keeps the types, and it reports
\* a unit as written exactly when SSL_write succeeded.
LEMMA OutputAnswerType ==
    ASSUME NEW drv \in Drv, NEW a \in Answers,
           a.rc = "NONE" => a.n = 1, a.rc # "NONE" => a.n = -1
    PROVE  LET r == OutputAnswer(drv, a)
           IN  /\ r.drv \in Drv /\ Holds(drv, r.drv) /\ Keeps(drv, r.drv)
               /\ Is(r.drv, "INIT") = Is(drv, "INIT")
               /\ r.ssl = a.ssl /\ r.wire = a.wire /\ r.rc = a.rc
               /\ r.err \in Errno /\ r.n \in {-1, 0, 1}
               /\ r.n = 1 <=> a.rc = "NONE"
<1> DEFINE failed == Raise(drv, {"FATAL_ERROR", "EOF"})
           ended  == Raise(drv, {"EOF"})
           io(n, err, d) == IoResult(n, err, d, a.ssl, a.wire, a.rc)
<1>1. a.errno \in Errno /\ a.n \in Int /\ a.rc \in Codes
  BY DEF Answers
<1>2. Holds(drv, drv) /\ Keeps(drv, drv)
  BY DEF Holds, Keeps
<1>3. /\ failed \in Drv /\ Holds(drv, failed) /\ Keeps(drv, failed)
      /\ Is(failed, "INIT") = Is(drv, "INIT")
      /\ ended \in Drv /\ Holds(drv, ended) /\ Keeps(drv, ended)
      /\ Is(ended, "INIT") = Is(drv, "INIT")
  BY RaiseType, FlagFacts
<1>4. /\ Want(drv, a.rc) \in Drv /\ Holds(drv, Want(drv, a.rc)) /\ Keeps(drv, Want(drv, a.rc))
      /\ Is(Want(drv, a.rc), "INIT") = Is(drv, "INIT")
  BY WantType DEF Keeps, Is
<1>5. \/ OutputAnswer(drv, a) = io(a.n, "none", drv) /\ a.rc = "NONE"
      \/ /\ a.rc # "NONE"
         /\ \/ OutputAnswer(drv, a) = io(0, "none", ended)
            \/ OutputAnswer(drv, a) = io(-1, "ECONNABORTED", failed)
            \/ OutputAnswer(drv, a) = io(-1, "EAGAIN", Want(drv, a.rc))
            \/ OutputAnswer(drv, a) = io(-1, a.errno, failed)
            \/ OutputAnswer(drv, a) = io(0, "none", drv)
  BY DEF OutputAnswer
<1> HIDE DEF failed, ended
<1>6. QED
  BY <1>1, <1>2, <1>3, <1>4, <1>5, CodeFacts DEF IoResult, failed, ended

\* TlsOutputProc: it keeps the types; it puts a unit on the wire only over an
\* established session, and reports it as written exactly then; it does not read.
LEMMA OutputProcType ==
    ASSUME NEW drv \in Drv, NEW ssl \in Ssl, NEW wire \in Wire, NEW again \in BOOLEAN
    PROVE  LET r == TlsOutputProc(drv, ssl, wire, again)
           IN  /\ Moved(drv, ssl, r)
               /\ r.n \in {-1, 0, 1}
               /\ r.n = 1 => r.ssl.tx = ssl.tx + 1 /\ ~Is(r.drv, "INIT")
               /\ r.n # 1 => r.ssl.tx = ssl.tx
               /\ r.ssl.pend = ssl.pend
<1> DEFINE p == TlsOutputProc(drv, ssl, wire, again)
           h == Tls_WaitForConnect(drv, ssl, wire, TRUE, again)
           a == SslWrite(h.ssl, h.wire)
           o == OutputAnswer(h.drv, a)
           Result(r) == /\ Moved(drv, ssl, r)
                        /\ r.n \in {-1, 0, 1}
                        /\ r.n = 1 => r.ssl.tx = ssl.tx + 1 /\ ~Is(r.drv, "INIT")
                        /\ r.n # 1 => r.ssl.tx = ssl.tx
                        /\ r.ssl.pend = ssl.pend
<1> SUFFICES Result(p)
  OBVIOUS
<1>0. -1 # 1 /\ 0 # 1
  OBVIOUS
<1>1. Waited(drv, ssl, h)
  BY WaitForConnectType
<1>2. CASE Is(drv, "FATAL_ERROR")
  <2>1. p = IoResult(-1, "ECONNABORTED", drv, ssl, wire, "NONE")
    BY <1>2 DEF TlsOutputProc
  <2>2. QED
    BY <1>0, <2>1, CodeFacts DEF IoResult, Moved, Holds, Keeps
<1>3. CASE ~Is(drv, "FATAL_ERROR") /\ h.ret = 1
  <2>1. p = o
    BY <1>3 DEF TlsOutputProc
  <2>2. h.ssl \in Ssl /\ h.wire \in Wire
    BY <1>1 DEF Waited
  <2>3. /\ a \in Answers
        /\ a.ssl.hs = h.ssl.hs /\ a.ssl.pend = h.ssl.pend
        /\ a.rc = "NONE" => a.n = 1 /\ a.ssl.tx = h.ssl.tx + 1
        /\ a.rc # "NONE" => a.n = -1 /\ a.ssl.tx = h.ssl.tx
    BY <2>2, SslWriteType
  <2>4. h.drv \in Drv /\ Holds(drv, h.drv) /\ Keeps(drv, h.drv) /\ ~Is(h.drv, "INIT")
        /\ (Secured(drv, ssl) => Secured(h.drv, h.ssl))
        /\ h.ssl.tx = ssl.tx /\ h.ssl.pend = ssl.pend
    BY <1>1, <1>3 DEF Waited, SameData
  <2> HIDE DEF h, a
  <2>5. /\ o.drv \in Drv /\ Holds(h.drv, o.drv) /\ Keeps(h.drv, o.drv)
        /\ Is(o.drv, "INIT") = Is(h.drv, "INIT")
        /\ o.ssl = a.ssl /\ o.wire = a.wire /\ o.rc = a.rc
        /\ o.err \in Errno /\ o.n \in {-1, 0, 1}
        /\ o.n = 1 <=> a.rc = "NONE"
    BY <2>3, <2>4, OutputAnswerType
  <2>6. a.ssl \in Ssl /\ a.wire \in Wire /\ a.rc \in Codes
    BY <2>3 DEF Answers
  <2> HIDE DEF o
  <2>7. Holds(drv, o.drv) /\ Keeps(drv, o.drv)
    BY <2>4, <2>5 DEF Holds, Keeps
  <2>8. QED
    BY <1>3, <2>1, <2>3, <2>4, <2>5, <2>6, <2>7 DEF Moved, Secured
<1>4. CASE ~Is(drv, "FATAL_ERROR") /\ h.ret = -1 /\ h.err = "ECONNRESET"
  <2> DEFINE ended == Raise(h.drv, {"EOF"})
  <2>1. p = IoResult(0, "none", ended, h.ssl, h.wire, h.rc)
    BY <1>0, <1>4 DEF TlsOutputProc
  <2>2. /\ ended \in Drv /\ Holds(h.drv, ended) /\ Keeps(h.drv, ended)
        /\ Is(ended, "INIT") = Is(h.drv, "INIT")
    BY <1>1, RaiseType, FlagFacts DEF Waited
  <2> HIDE DEF h, ended
  <2>3. Holds(drv, ended) /\ Keeps(drv, ended)
    BY <1>1, <2>2 DEF Waited, Holds, Keeps
  <2>4. QED
    BY <1>0, <1>1, <1>4, <2>1, <2>2, <2>3, CodeFacts
       DEF IoResult, Moved, Waited, SameData, Secured
<1>5. CASE /\ ~Is(drv, "FATAL_ERROR")
           /\ h.ret # 1 /\ ~(h.ret = -1 /\ h.err = "ECONNRESET")
  <2>1. p = IoResult(-1, h.err, h.drv, h.ssl, h.wire, h.rc)
    BY <1>5 DEF TlsOutputProc
  <2> HIDE DEF h
  <2>2. QED
    BY <1>0, <1>1, <1>5, <2>1, CodeFacts DEF IoResult, Moved, Waited, SameData
<1>6. QED
  BY <1>2, <1>3, <1>4, <1>5

-----------------------------------------------------------------------------
\* The references of a State whose timer handlers are running k times.
Held(d, k) == d.refs = (IF d.timer THEN 1 ELSE 0) + k

\* Two structures of one session with the same flags.
SameFlags(d, e) == e.flags = d.flags

\* Tcl_Preserve takes a reference on the State and changes nothing else.
LEMMA PreserveType ==
    ASSUME NEW drv \in Drv
    PROVE  LET new == Preserve(drv)
           IN  /\ new \in Drv /\ SameFlags(drv, new) /\ new.refs = drv.refs + 1
               /\ new.timer = drv.timer /\ new.life = drv.life /\ new.watch = drv.watch
  BY DEF Preserve, Drv, SameFlags

\* statePtr->timer is set or cleared.
LEMMA TimerSetType ==
    ASSUME NEW drv \in Drv, NEW b \in BOOLEAN
    PROVE  LET new == [drv EXCEPT !.timer = b]
           IN  /\ new \in Drv /\ SameFlags(drv, new) /\ new.refs = drv.refs
               /\ new.timer = b /\ new.life = drv.life /\ new.watch = drv.watch
  BY DEF Drv, SameFlags

\* TlsWatchProc notes the mask (statePtr->watchMask).
LEMMA WatchSetType ==
    ASSUME NEW drv \in Drv, NEW mask \in SUBSET Direction
    PROVE  LET new == [drv EXCEPT !.watch = mask]
           IN  /\ new \in Drv /\ SameFlags(drv, new) /\ new.refs = drv.refs
               /\ new.timer = drv.timer /\ new.life = drv.life
  BY DEF Drv, SameFlags

\* TlsNotifyProc clears statePtr->want.
LEMMA WantSetType ==
    ASSUME NEW drv \in Drv
    PROVE  LET new == [drv EXCEPT !.want = {}]
           IN  /\ new \in Drv /\ SameFlags(drv, new) /\ new.refs = drv.refs
               /\ new.timer = drv.timer /\ new.life = drv.life
  BY DEF Drv, SameFlags

\* Tcl_EventuallyFree and Tcl_Release change what becomes of the State.
LEMMA LifeSetType ==
    ASSUME NEW drv \in Drv, NEW life \in Life
    PROVE  LET new == [drv EXCEPT !.life = life]
           IN  /\ new \in Drv /\ SameFlags(drv, new) /\ new.refs = drv.refs
               /\ new.timer = drv.timer /\ new.life = life
  BY DEF Drv, SameFlags

\* Tcl_Release gives one reference back; the last one frees a State whose free
\* was asked for.
LEMMA ReleaseType ==
    ASSUME NEW drv \in Drv, drv.refs > 0
    PROVE  LET new == Release(drv)
           IN  /\ new \in Drv /\ SameFlags(drv, new) /\ new.refs = drv.refs - 1
               /\ new.timer = drv.timer
               /\ new.life = IF drv.life = "closing" /\ drv.refs = 1 THEN "freed"
                             ELSE drv.life
<1> DEFINE life == IF drv.life = "closing" /\ drv.refs = 1 THEN "freed" ELSE drv.life
           less == [drv EXCEPT !.refs = @ - 1]
<1>1. life \in Life
  BY DEF Drv, Life
<1>2. /\ less \in Drv /\ SameFlags(drv, less) /\ less.refs = drv.refs - 1
      /\ less.timer = drv.timer /\ less.life = drv.life
  BY DEF Drv, SameFlags
<1>3. Release(drv) = [less EXCEPT !.life = life]
  BY DEF Release, Drv
<1> HIDE DEF life, less
<1>4. QED
  BY <1>1, <1>2, <1>3, LifeSetType DEF SameFlags, life

\* Deleting the timer of a live channel leaves the references of its handlers.
LEMMA DeleteTimerType ==
    ASSUME NEW drv \in Drv, NEW k \in Nat, Held(drv, k), drv.life = "live"
    PROVE  LET new == DeleteTimer(drv)
           IN  /\ new \in Drv /\ SameFlags(drv, new) /\ ~new.timer /\ new.refs = k
               /\ new.life = "live"
<1>1. CASE drv.timer
  <2> DEFINE off == [drv EXCEPT !.timer = FALSE]
  <2>1. drv.refs = 1 + k
    BY <1>1 DEF Held
  <2>2. /\ off \in Drv /\ SameFlags(drv, off) /\ off.refs = drv.refs
        /\ off.timer = FALSE /\ off.life = drv.life
    BY TimerSetType
  <2>3. DeleteTimer(drv) = Release(off)
    BY <1>1 DEF DeleteTimer
  <2> HIDE DEF off
  <2>4. QED
    BY <2>1, <2>2, <2>3, ReleaseType DEF SameFlags
<1>2. CASE ~drv.timer
  BY <1>2 DEF DeleteTimer, Held, SameFlags
<1>3. QED
  BY <1>1, <1>2

\* Creating one adds its reference.
LEMMA CreateTimerType ==
    ASSUME NEW drv \in Drv
    PROVE  LET new == CreateTimer(drv)
           IN  /\ new \in Drv /\ SameFlags(drv, new) /\ new.timer
               /\ new.refs = drv.refs + 1 /\ new.life = drv.life
<1> DEFINE held == Preserve(drv)
<1>1. /\ held \in Drv /\ SameFlags(drv, held) /\ held.refs = drv.refs + 1
      /\ held.life = drv.life
  BY PreserveType
<1>2. CreateTimer(drv) = [held EXCEPT !.timer = TRUE]
  BY DEF CreateTimer
<1> HIDE DEF held
<1>3. QED
  BY <1>1, <1>2, TimerSetType DEF SameFlags

\* TlsWatchProc keeps the references balanced.
LEMMA WatchProcType ==
    ASSUME NEW drv \in Drv, NEW mask \in SUBSET Direction,
           NEW k \in Nat, Held(drv, k), drv.life = "live"
    PROVE  LET new == TlsWatchProc(drv, mask)
           IN  /\ new \in Drv /\ SameFlags(drv, new) /\ Held(new, k) /\ new.life = "live"
<1>1. CASE Is(drv, "FATAL_ERROR")
  BY <1>1, WatchSetType DEF TlsWatchProc, Held
<1>2. CASE ~Is(drv, "FATAL_ERROR")
  <2> DEFINE set  == [drv EXCEPT !.watch = mask]
             idle == DeleteTimer(set)
  <2>1. set \in Drv /\ SameFlags(drv, set) /\ Held(set, k) /\ set.life = "live"
    BY WatchSetType DEF Held
  <2> HIDE DEF set
  <2>2. /\ idle \in Drv /\ SameFlags(set, idle) /\ ~idle.timer /\ idle.refs = k
        /\ idle.life = "live"
    BY <2>1, DeleteTimerType
  <2>3. TlsWatchProc(drv, mask) \in {idle, CreateTimer(idle)}
    BY <1>2 DEF TlsWatchProc, set
  <2> HIDE DEF idle
  <2>4. QED
    BY <2>1, <2>2, <2>3, CreateTimerType DEF SameFlags, Held
<1>3. QED
  BY <1>1, <1>2

\* The State is freed exactly when nobody holds it.
Alive(d, k) ==
    /\ d.life = "freed" => ~d.timer /\ k = 0
    /\ d.life = "closing" => ~d.timer /\ k # 0

\* TlsCloseProc: nothing of the session but the shutdown changes, the timer is
\* gone, and the State is freed unless timer handlers still hold it.
LEMMA CloseProcType ==
    ASSUME NEW drv \in Drv, NEW ssl \in Ssl,
           NEW k \in Nat, Held(drv, k), drv.life = "live"
    PROVE  LET c == TlsCloseProc(drv, ssl)
           IN  /\ c.drv \in Drv /\ Held(c.drv, k) /\ Alive(c.drv, k)
               /\ Keeps(drv, c.drv) /\ Is(c.drv, "INIT") = Is(drv, "INIT")
               /\ c.ssl \in Ssl /\ c.ssl.hs = ssl.hs /\ c.ssl.pend = ssl.pend
               /\ c.ssl.tx = ssl.tx
               /\ Is(drv, "FATAL_ERROR") => /\ c.ssl \in {ssl, SslShutdown(ssl)}
                                            /\ c.ssl # ssl => c.drv.life = "freed"
<1> DEFINE notify == ~Is(drv, "INIT") /\ ~Is(drv, "FATAL_ERROR")
           shut   == IF notify THEN SslShutdown(ssl) ELSE ssl
           marked == IF notify THEN Raise(drv, {"CLOSED"}) ELSE drv
           idle   == DeleteTimer(marked)
           last   == EventuallyFree(idle)
           c      == TlsCloseProc(drv, ssl)
<1>1. c.drv = last /\ c.ssl = Clean(last, shut)
  BY DEF TlsCloseProc
<1> HIDE DEF c
<1>2. /\ shut \in Ssl /\ shut.hs = ssl.hs /\ shut.pend = ssl.pend /\ shut.tx = ssl.tx
      /\ Is(drv, "FATAL_ERROR") => shut = ssl
  BY SslShutdownType
<1>3. /\ marked \in Drv /\ Held(marked, k) /\ marked.life = "live"
      /\ Keeps(drv, marked) /\ Is(marked, "INIT") = Is(drv, "INIT")
  BY RaiseType, FlagFacts DEF Held, Holds, Keeps
<1> HIDE DEF shut, marked
<1>4. /\ idle \in Drv /\ SameFlags(marked, idle) /\ ~idle.timer /\ idle.refs = k
      /\ idle.life = "live"
  BY <1>3, DeleteTimerType
<1> DEFINE life == IF k = 0 THEN "freed" ELSE "closing"
<1>5. last = [idle EXCEPT !.life = life] /\ life \in Life
  BY <1>4 DEF EventuallyFree, Life
<1> HIDE DEF idle, last, life
<1>6. /\ last \in Drv /\ SameFlags(idle, last) /\ ~last.timer /\ last.refs = k
      /\ last.life = life
  BY <1>4, <1>5, LifeSetType
<1>7. /\ Clean(last, shut) \in {shut, SslShutdown(shut)}
      /\ Clean(last, shut) # shut => last.life = "freed"
  BY DEF Clean
<1>8. /\ c.ssl \in Ssl /\ c.ssl.hs = ssl.hs /\ c.ssl.pend = ssl.pend /\ c.ssl.tx = ssl.tx
  BY <1>1, <1>2, <1>7, SslShutdownType
<1>9. Held(last, k) /\ Alive(last, k)
  BY <1>6 DEF Held, Alive, life
<1>10. Keeps(drv, last) /\ Is(last, "INIT") = Is(drv, "INIT")
  BY <1>3, <1>4, <1>6 DEF Keeps, Is, SameFlags
<1>11. QED
  BY <1>1, <1>2, <1>6, <1>7, <1>8, <1>9, <1>10 DEF c

\* The end of a timer handler gives its reference back.
LEMMA TimerDoneType ==
    ASSUME NEW drv \in Drv, drv.refs > 0
    PROVE  LET new == TimerDone(drv)
           IN  /\ new \in Drv /\ SameFlags(drv, new) /\ new.refs = drv.refs - 1
               /\ new.timer = drv.timer
               /\ new.life = IF drv.life = "closing" /\ drv.refs = 1 THEN "freed"
                             ELSE drv.life
<1> DEFINE quiet == [drv EXCEPT !.want = {}]
<1>1. /\ quiet \in Drv /\ SameFlags(drv, quiet) /\ quiet.refs = drv.refs
      /\ quiet.timer = drv.timer /\ quiet.life = drv.life
  BY WantSetType
<1>2. TimerDone(drv) = Release(quiet)
  BY DEF TimerDone
<1> HIDE DEF quiet
<1>3. QED
  BY <1>1, <1>2, ReleaseType DEF SameFlags

\* TlsNotifyProc: the timer is gone, and a handshake was tried.
LEMMA NotifyProcType ==
    ASSUME NEW drv \in Drv, NEW ssl \in Ssl, NEW wire \in Wire, NEW again \in BOOLEAN,
           NEW k \in Nat, Held(drv, k), drv.life = "live"
    PROVE  LET r == TlsNotifyProc(drv, ssl, wire, again)
           IN  /\ r.drv \in Drv /\ Held(r.drv, k) /\ r.drv.life = "live"
               /\ r.ssl \in Ssl /\ r.wire \in Wire /\ r.rc \in Codes
               /\ Keeps(drv, r.drv) /\ SameData(ssl, r.ssl)
               /\ Is(drv, "FATAL_ERROR") => r.ssl = ssl
               /\ Secured(drv, ssl) => Secured(r.drv, r.ssl)
<1> DEFINE idle == DeleteTimer(drv)
           h    == Tls_WaitForConnect(idle, ssl, wire, TRUE, again)
           r    == TlsNotifyProc(drv, ssl, wire, again)
<1>1. /\ idle \in Drv /\ SameFlags(drv, idle) /\ ~idle.timer /\ idle.refs = k
      /\ idle.life = "live"
  BY DeleteTimerType
<1> HIDE DEF idle
<1>2. Waited(idle, ssl, h)
  BY <1>1, WaitForConnectType
<1>3. r.drv = h.drv /\ r.ssl = h.ssl /\ r.wire = h.wire /\ r.rc = h.rc
  BY DEF TlsNotifyProc, idle
<1> HIDE DEF h, r
<1>4. Held(h.drv, k) /\ h.drv.life = "live"
  BY <1>1, <1>2 DEF Waited, Holds, Held
<1>5. \A f : Is(idle, f) = Is(drv, f)
  BY <1>1 DEF Is, SameFlags
<1>6. Keeps(drv, h.drv) /\ (Secured(drv, ssl) => Secured(h.drv, h.ssl))
  BY <1>2, <1>5 DEF Waited, Keeps, Secured
<1>7. QED
  BY <1>2, <1>3, <1>4, <1>5, <1>6 DEF Waited, r

=============================================================================
