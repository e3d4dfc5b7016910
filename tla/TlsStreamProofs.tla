---------------------------- MODULE TlsStreamProofs ----------------------------
(***************************************************************************)
(* The channel implements the stream of TlsStream: every step of           *)
(* TlsChannel is a step of the abstract stream, for every value of the     *)
(* constants.  The same invariant shows that an end of file is only        *)
(* reported when the input ended, and that nothing was lost before a clean *)
(* end.                                                                    *)
(*                                                                         *)
(* The inductive invariant of TlsChannelProofs is not enough.  That input  *)
(* is never invented needs the units that are on their way (`Arrived'),    *)
(* and that a session is not established after its end needs what an       *)
(* unfinished handshake knows about the peer's close_notify (`Unfinished').*)
(* That nothing is missing at a clean end needs the converse (`Accounted'),*)
(* which only holds while close_notify may still come (`Intact'): the      *)
(* library throws its input away when it fails, and a reset of the         *)
(* connection loses what was not read.                                     *)
(***************************************************************************)
EXTENDS TlsChannelProofs, FunctionTheorems

-----------------------------------------------------------------------------
(* The application data in the records that nobody has read yet.           *)

DataRecords(q) == {i \in DOMAIN q : q[i] = "data"}
Pending(q) == RecordUnits * Cardinality(DataRecords(q))
UnitsOf(record) == IF record = "data" THEN RecordUnits ELSE 0

\* There are finitely many records of data.
LEMMA DataFinite ==
    ASSUME NEW q \in Seq(Record)
    PROVE  IsFiniteSet(DataRecords(q)) /\ Cardinality(DataRecords(q)) \in Nat
<1>1. Len(q) \in Nat /\ DOMAIN q = 1..Len(q)
  OBVIOUS
<1>2. IsFiniteSet(1..Len(q)) /\ DataRecords(q) \in SUBSET (1..Len(q))
  BY <1>1, FS_Interval DEF DataRecords
<1>3. QED
  BY <1>2, FS_Subset, FS_CardinalityType

\* One more or one less of them is RecordUnits more or less.
LEMMA UnitsDistribute ==
    ASSUME NEW n \in Nat
    PROVE  /\ RecordUnits * n \in Nat
           /\ RecordUnits * (n + 1) = RecordUnits * n + RecordUnits
           /\ RecordUnits * 0 = 0
           /\ RecordUnits \in Nat /\ RecordUnits > 0
<1>1. RecordUnits \in Nat /\ RecordUnits > 0
  BY EngineAssumption
<1>2. QED
  BY <1>1

\* The data on its way is a number, and nothing while no record is.
LEMMA PendingType ==
    /\ \A q \in Seq(Record) : Pending(q) \in Nat
    /\ Pending(<<>>) = 0
    /\ \A record : UnitsOf(record) \in Nat
<1>1. DataRecords(<<>>) = {}
  BY DEF DataRecords
<1>2. Cardinality(DataRecords(<<>>)) = 0
  BY <1>1, FS_EmptySet
<1>3. Pending(<<>>) = 0
  BY <1>2, UnitsDistribute DEF Pending
<1>4. ASSUME NEW q \in Seq(Record) PROVE Pending(q) \in Nat
  BY DataFinite, UnitsDistribute DEF Pending
<1>5. QED
  BY <1>3, <1>4, UnitsDistribute DEF UnitsOf

\* A record arrives.
LEMMA PendingAppend ==
    ASSUME NEW q \in Seq(Record), NEW record \in Record
    PROVE  Pending(Append(q, record)) = Pending(q) + UnitsOf(record)
<1> DEFINE n == Len(q) + 1
           new == Append(q, record)
<1>1. /\ Len(q) \in Nat /\ DOMAIN q = 1..Len(q) /\ DOMAIN new = 1..n
      /\ new[n] = record /\ \A i \in 1..Len(q) : new[i] = q[i]
  OBVIOUS
<1>2. IsFiniteSet(DataRecords(q)) /\ Cardinality(DataRecords(q)) \in Nat
  BY DataFinite
<1>3. n \notin DataRecords(q) /\ 1..n = (1..Len(q)) \cup {n}
  BY <1>1 DEF DataRecords
<1> HIDE DEF n, new
<1>4. CASE record = "data"
  <2>1. DataRecords(new) = DataRecords(q) \cup {n}
    BY <1>1, <1>3, <1>4 DEF DataRecords
  <2>2. Cardinality(DataRecords(new)) = Cardinality(DataRecords(q)) + 1
    BY <1>2, <1>3, <2>1, FS_AddElement
  <2>3. QED
    BY <1>2, <1>4, <2>2, UnitsDistribute DEF Pending, UnitsOf, new
<1>5. CASE record # "data"
  <2>1. DataRecords(new) = DataRecords(q)
    BY <1>1, <1>3, <1>5 DEF DataRecords
  <2>2. QED
    BY <1>2, <1>5, <2>1, UnitsDistribute DEF Pending, UnitsOf, new
<1>6. QED
  BY <1>4, <1>5

\* The first record is read.
LEMMA PendingTail ==
    ASSUME NEW q \in Seq(Record), q # <<>>
    PROVE  Pending(q) = UnitsOf(Head(q)) + Pending(Tail(q))
<1> DEFINE n == Len(q)
           rest == Tail(q)
           S == DataRecords(rest)
           T == DataRecords(q) \ {1}
           f == [i \in S |-> i + 1]
<1>1. /\ n \in Nat /\ n >= 1 /\ DOMAIN q = 1..n /\ rest \in Seq(Record)
      /\ DOMAIN rest = 1..(n - 1) /\ \A i \in 1..(n - 1) : rest[i] = q[i + 1]
      /\ Head(q) = q[1]
  OBVIOUS
<1>2. IsFiniteSet(S) /\ Cardinality(S) \in Nat
  BY <1>1, DataFinite
<1>3. IsFiniteSet(DataRecords(q)) /\ Cardinality(DataRecords(q)) \in Nat
  BY DataFinite
<1> HIDE DEF n, rest
<1>4. \A i \in S : i \in 1..(n - 1) /\ i + 1 \in T
  BY <1>1 DEF DataRecords
<1>5. \A j \in T : j - 1 \in S /\ (j - 1) + 1 = j
  <2>1. ASSUME NEW j \in T PROVE j - 1 \in S /\ (j - 1) + 1 = j
    <3>1. j \in 1..n /\ j # 1 /\ q[j] = "data"
      BY <1>1 DEF DataRecords
    <3>2. j - 1 \in 1..(n - 1) /\ (j - 1) + 1 = j
      BY <1>1, <3>1
    <3>3. rest[j - 1] = "data"
      BY <1>1, <3>1, <3>2
    <3>4. QED
      BY <1>1, <3>2, <3>3 DEF DataRecords
  <2>2. QED
    BY <2>1
<1>6. f \in [S -> T] /\ (\A i, j \in S : f[i] = f[j] => i = j)
  BY <1>4
<1>7. \A j \in T : \E i \in S : f[i] = j
  BY <1>5
<1> HIDE DEF S, T, f
<1>8. ExistsBijection(S, T)
  BY <1>6, <1>7, Fun_IsBij DEF ExistsBijection
<1>9. Cardinality(T) = Cardinality(S)
  BY <1>2, <1>8, FS_Bijection
<1>10. Cardinality(T) = IF 1 \in DataRecords(q) THEN Cardinality(DataRecords(q)) - 1
                        ELSE Cardinality(DataRecords(q))
  BY <1>3, FS_RemoveElement DEF T
<1>11. 1 \in DataRecords(q) <=> Head(q) = "data"
  BY <1>1 DEF DataRecords
<1>12. Pending(rest) = RecordUnits * Cardinality(S)
  BY DEF Pending, S
<1>13. CASE Head(q) = "data"
  <2>1. Cardinality(DataRecords(q)) = Cardinality(S) + 1
    BY <1>2, <1>3, <1>9, <1>10, <1>11, <1>13
  <2>2. QED
    BY <1>2, <1>12, <1>13, <2>1, UnitsDistribute DEF Pending, UnitsOf, rest
<1>14. CASE Head(q) # "data"
  <2>1. Cardinality(DataRecords(q)) = Cardinality(S)
    BY <1>9, <1>10, <1>11, <1>14
  <2>2. QED
    BY <1>2, <1>12, <1>14, <2>1, UnitsDistribute DEF Pending, UnitsOf, rest
<1>15. QED
  BY <1>13, <1>14

-----------------------------------------------------------------------------
(* What an unfinished handshake knows.                                     *)

\* It is this side's turn to receive: first of all on a server, second on a client.
Receives(step) == (step = 0) = Server

\* close_notify is only noticed by the side whose turn it is to receive.
Turn(s) == s.got => Receives(s.hs)

\* Until Tls_WaitForConnect clears TLS_TCL_INIT the handshake is not complete,
\* and TLS_TCL_EOF without TLS_TCL_FATAL_ERROR means close_notify was received.
Unfinished(d, s) ==
    Is(d, "INIT") =>
        /\ s.hs # 2 /\ Turn(s)
        /\ Is(d, "EOF") /\ ~Is(d, "FATAL_ERROR") => s.got

\* What one flight answers besides its type: it succeeds only one step further
\* and without close_notify, and otherwise the step is not taken.
Answered(s, w, r) ==
    /\ Pending(r.wire.in) <= Pending(w.in)
    /\ s.got => r.ssl.got
    /\ r.rc = "NONE" => /\ r.ssl.hs = s.hs + 1 /\ r.ssl.got = s.got
                        /\ ~r.ssl.failed /\ ~(s.got /\ Receives(s.hs))
    /\ r.rc # "NONE" => /\ r.ssl.hs = s.hs
                        /\ r.ssl.got => s.got \/ Receives(s.hs)
    /\ r.rc = "ZERO_RETURN" => r.ssl.got
    /\ r.rc = "SYSCALL" => r.n # 0

\* Reading a record does not add to the data on its way.
LEMMA RestPending ==
    ASSUME NEW w \in Wire, w.in # <<>>
    PROVE  LET rest == [w EXCEPT !.in = Tail(@)]
           IN  Pending(rest.in) <= Pending(w.in)
<1> DEFINE q == w.in
           rest == [w EXCEPT !.in = Tail(@)]
<1>1. q \in Seq(Record) /\ Tail(q) \in Seq(Record) /\ q # <<>>
  BY DEF Wire
<1>2. rest.in = Tail(q)
  BY DEF Wire
<1> HIDE DEF q, rest
<1>3. /\ Pending(q) = UnitsOf(Head(q)) + Pending(Tail(q))
      /\ UnitsOf(Head(q)) \in Nat /\ Pending(Tail(q)) \in Nat
  BY <1>1, PendingTail, PendingType
<1>4. Pending(rest.in) <= Pending(q)
  BY <1>2, <1>3
<1>5. QED
  BY <1>4 DEF q, rest

\* The channel below that a call leaves alone.
LEMMA SamePending ==
    ASSUME NEW w \in Wire
    PROVE  Pending(w.in) <= Pending(w.in)
  BY PendingType DEF Wire

\* What the changes to an SSL object leave of the handshake.
LEMMA FailedKept ==
    ASSUME NEW s \in Ssl
    PROVE  LET new == [s EXCEPT !.failed = TRUE]
           IN  new.got = s.got /\ new.hs = s.hs
  BY DEF Ssl

\* close_notify was received.
LEMMA GotKept ==
    ASSUME NEW s \in Ssl
    PROVE  LET new == [s EXCEPT !.got = TRUE]
           IN  new.got = TRUE /\ new.hs = s.hs
  BY DEF Ssl

\* A flight was completed.
LEMMA AdvancedKept ==
    ASSUME NEW s \in Ssl
    PROVE  LET new == [s EXCEPT !.hs = @ + 1]
           IN  new.got = s.got /\ new.hs = s.hs + 1 /\ new.failed = s.failed
  BY DEF Ssl

\* A flight that is sent.
LEMMA SendFlightAnswered ==
    ASSUME NEW s \in Ssl, NEW w \in Wire, ~s.failed, ~Receives(s.hs)
    PROVE  Answered(s, w, SendFlight(s, w))
<1> DEFINE bio == BioOutput(WriteRaw(w))
           r    == SendFlight(s, w)
           less == [w EXCEPT !.room = @ - 1]
           next == [s EXCEPT !.hs = @ + 1]
<1> SUFFICES Answered(s, w, r)
  OBVIOUS
<1>1. bio.ret \in {-1, 1} /\ bio.inEof = FALSE
  BY DEF BioOutput, WriteRaw
<1>2. less.in = w.in
  BY DEF Wire
<1>3. CASE bio.ret > 0
  <2>1. r = Done(next, less, 0)
    BY <1>3 DEF SendFlight
  <2>2. next.got = s.got /\ next.hs = s.hs + 1 /\ next.failed = s.failed
    BY AdvancedKept
  <2> HIDE DEF r, less, next
  <2>3. r.rc = "NONE" /\ r.ssl = next /\ r.wire = less
    BY <2>1 DEF Done, Answer
  <2>4. Pending(r.wire.in) <= Pending(w.in)
    BY <1>2, <2>3, SamePending
  <2>5. QED
    BY <2>2, <2>3, <2>4 DEF Answered
<1>4. CASE ~(bio.ret > 0)
  <2>1. r = Blocked(s, w, bio, "WANT_WRITE")
    BY <1>4 DEF SendFlight
  <2>2. bio.ret # 0 /\ ~bio.inEof
    BY <1>1
  <2> HIDE DEF bio, r
  <2>3. /\ r.ssl = s /\ r.wire = w /\ r.rc # "NONE"
        /\ r.rc = "ZERO_RETURN" => s.got
        /\ r.rc = "SYSCALL" => r.n # 0
    BY <2>1, <2>2 DEF Blocked, Answer
  <2>4. Pending(r.wire.in) <= Pending(w.in)
    BY <2>3, SamePending
  <2>5. QED
    BY <2>3, <2>4 DEF Answered
<1>5. QED
  BY <1>3, <1>4

\* A flight that is received.
LEMMA ReceiveFlightAnswered ==
    ASSUME NEW s \in Ssl, NEW w \in Wire, NEW again \in BOOLEAN,
           ~s.failed, Receives(s.hs)
    PROVE  Answered(s, w, ReceiveFlight(s, w, again))
<1> DEFINE bio  == BioInput(ReadRaw(w))
           rest == [w EXCEPT !.in = Tail(@)]
           r    == ReceiveFlight(s, w, again)
           next == [s EXCEPT !.hs = @ + 1]
           told == [s EXCEPT !.got = TRUE]
           fail == [s EXCEPT !.failed = TRUE]
<1> SUFFICES Answered(s, w, r)
  OBVIOUS
<1>0. /\ next.got = s.got /\ next.hs = s.hs + 1 /\ next.failed = s.failed
      /\ told.got = TRUE /\ told.hs = s.hs
      /\ fail.got = s.got /\ fail.hs = s.hs
  BY AdvancedKept, GotKept, FailedKept
<1>p. Pending(w.in) <= Pending(w.in)
  BY SamePending
<1>1. bio \in BioResult /\ (bio.ret > 0 => w.in # <<>>) /\ bio.ret \in Int
  BY BioInputType DEF BioResult
<1>2. CASE s.got
  <2>1. r = Answer(s, w, "ZERO_RETURN", 0, "none", FALSE)
    BY <1>2 DEF ReceiveFlight
  <2>2. r.ssl = s /\ r.wire = w /\ r.rc = "ZERO_RETURN"
    BY <2>1 DEF Answer
  <2> HIDE DEF r
  <2>3. QED
    BY <1>2, <1>p, <2>2 DEF Answered
<1>3. CASE ~s.got /\ bio.ret <= 0
  <2> DEFINE b == Blocked(s, w, bio, "WANT_READ")
  <2>1. r = [b EXCEPT !.n = -1]
    BY <1>3 DEF ReceiveFlight
  <2> HIDE DEF bio, r
  <2>2. /\ b.ssl.got = FALSE /\ b.ssl.hs = s.hs /\ b.wire = w
        /\ b.rc \in {"WANT_READ", "SSL", "SYSCALL"}
    BY <1>0, <1>3 DEF Blocked, Answer, Ssl
  <2>3. b \in Answers
    BY <1>1, BlockedType
  <2> HIDE DEF b
  <2>4. r.ssl = b.ssl /\ r.wire = b.wire /\ r.rc = b.rc /\ r.n = -1
    BY <2>1, <2>3 DEF Answers
  <2>5. QED
    BY <1>3, <1>p, <2>2, <2>4 DEF Answered
<1>4. CASE ~s.got /\ ~(bio.ret <= 0)
  <2>1. w.in # <<>>
    BY <1>1, <1>4
  <2>2. Pending(rest.in) <= Pending(w.in)
    BY <2>1, RestPending
  <2>3. CASE Head(w.in) = "hs" /\ Server /\ again
    <3>1. r = Answer(s, w, "WANT_CLIENT_HELLO_CB", -1, "none", FALSE)
      BY <1>4, <2>3 DEF ReceiveFlight
    <3>2. r.ssl = s /\ r.wire = w /\ r.rc = "WANT_CLIENT_HELLO_CB"
      BY <3>1 DEF Answer
    <3> HIDE DEF r
    <3>3. QED
      BY <1>p, <3>2 DEF Answered
  <2>4. CASE Head(w.in) = "hs" /\ ~(Server /\ again)
    <3>1. r = Done(next, rest, 0)
      BY <1>4, <2>4 DEF ReceiveFlight
    <3>2. r.ssl = next /\ r.wire = rest /\ r.rc = "NONE"
      BY <3>1 DEF Done, Answer
    <3> HIDE DEF r, rest, next, told, fail
    <3>3. QED
      BY <1>0, <1>4, <2>2, <3>2 DEF Answered
  <2>5. CASE Head(w.in) = "close_notify"
    <3>1. r = Answer(told, rest, "ZERO_RETURN", 0, "none", FALSE)
      BY <1>4, <2>5 DEF ReceiveFlight
    <3>2. r.ssl = told /\ r.wire = rest /\ r.rc = "ZERO_RETURN"
      BY <3>1 DEF Answer
    <3> HIDE DEF r, rest, next, told, fail
    <3>3. QED
      BY <1>0, <2>2, <3>2 DEF Answered
  <2>6. CASE Head(w.in) \notin {"hs", "close_notify"}
    <3>1. r = LibraryError(s, rest)
      BY <1>4, <2>6 DEF ReceiveFlight
    <3>2. r.ssl = fail /\ r.wire = rest /\ r.rc = "SSL"
      BY <3>1 DEF LibraryError, Answer
    <3> HIDE DEF r, rest, next, told, fail
    <3>3. QED
      BY <1>0, <2>2, <3>2 DEF Answered
  <2>7. QED
    BY <2>3, <2>4, <2>5, <2>6
<1>5. QED
  BY <1>1, <1>2, <1>3, <1>4

\* One flight of an unfinished handshake.
LEMMA FlightAnswered ==
    ASSUME NEW s \in Ssl, NEW w \in Wire, NEW again \in BOOLEAN, s.hs # 2
    PROVE  Answered(s, w, Flight(s, w, again))
<1> DEFINE r == Flight(s, w, again)
<1> SUFFICES Answered(s, w, r)
  OBVIOUS
<1>1. CASE s.failed
  <2> DEFINE fail == [s EXCEPT !.failed = TRUE]
  <2>1. r = LibraryError(s, w)
    BY <1>1 DEF Flight
  <2>2. r.ssl = fail /\ r.wire = w /\ r.rc = "SSL"
    BY <2>1 DEF LibraryError, Answer
  <2>3. fail.got = s.got /\ fail.hs = s.hs
    BY FailedKept
  <2> HIDE DEF r, fail
  <2>4. Pending(r.wire.in) <= Pending(w.in)
    BY <2>2, SamePending
  <2>5. QED
    BY <2>2, <2>3, <2>4 DEF Answered
<1>2. CASE ~s.failed /\ Receives(s.hs)
  <2>1. (s.hs = 0) = Server
    BY <1>2 DEF Receives
  <2>2. Flight(s, w, again) = ReceiveFlight(s, w, again)
    BY <1>2, <2>1 DEF Flight
  <2>3. QED
    BY <1>2, <2>2, ReceiveFlightAnswered
<1>3. CASE ~s.failed /\ ~Receives(s.hs)
  <2>1. (s.hs = 0) # Server
    BY <1>3 DEF Receives
  <2>2. Flight(s, w, again) = SendFlight(s, w)
    BY <1>3, <2>1 DEF Flight
  <2>3. QED
    BY <1>3, <2>2, SendFlightAnswered
<1>4. QED
  BY <1>1, <1>2, <1>3

\* SSL_accept or SSL_connect of an unfinished handshake: it is finished exactly
\* when the call succeeds, and never after close_notify.
LEMMA HandshakeAnswered ==
    ASSUME NEW s \in Ssl, NEW w \in Wire, NEW again \in BOOLEAN,
           s.hs # 2, Turn(s)
    PROVE  LET r == DoHandshake(s, w, again)
           IN  /\ Pending(r.wire.in) <= Pending(w.in)
               /\ s.got => r.ssl.got /\ r.rc # "NONE"
               /\ r.rc # "NONE" => r.ssl.hs # 2 /\ Turn(r.ssl)
               /\ r.rc = "ZERO_RETURN" => r.ssl.got
               /\ r.rc = "SYSCALL" => r.n # 0
<1> DEFINE first  == Flight(s, w, again)
           second == Flight(first.ssl, first.wire, again)
           r      == DoHandshake(s, w, again)
           Result(q) == /\ Pending(q.wire.in) <= Pending(w.in)
                        /\ s.got => q.ssl.got /\ q.rc # "NONE"
                        /\ q.rc # "NONE" => q.ssl.hs # 2 /\ Turn(q.ssl)
                        /\ q.rc = "ZERO_RETURN" => q.ssl.got
                        /\ q.rc = "SYSCALL" => q.n # 0
<1> SUFFICES Result(r)
  OBVIOUS
<1>1. Answered(s, w, first) /\ first \in Answers
  BY FlightAnswered, FlightType
<1>2. first.ssl \in Ssl /\ first.wire \in Wire /\ s.hs \in 0..2 /\ first.ssl.hs \in 0..2
  BY <1>1, SslSame DEF Answers
<1>3. CASE first.rc # "NONE"
  <2>1. r = first
    BY <1>3 DEF DoHandshake, Continue
  <2> HIDE DEF first, r
  <2>2. QED
    BY <1>1, <1>3, <2>1 DEF Answered, Turn
<1>4. CASE first.rc = "NONE"
  <2>1. r = second
    BY <1>4 DEF DoHandshake, Continue
  <2>2. /\ ~s.got /\ ~first.ssl.got /\ ~first.ssl.failed
        /\ first.ssl.hs = s.hs + 1
    <3>1. s.got \in BOOLEAN
      BY DEF Ssl
    <3> HIDE DEF first
    <3>2. QED
      BY <1>1, <1>4, <3>1 DEF Answered, Turn
  <2>3. CASE first.ssl.hs = 2
    <3>1. second = Done(first.ssl, first.wire, 0)
      BY <2>2, <2>3 DEF Flight
    <3>2. r.rc = "NONE" /\ r.wire = first.wire
      BY <2>1, <3>1 DEF Done, Answer
    <3> HIDE DEF first, r
    <3>3. QED
      BY <1>1, <2>2, <3>2 DEF Answered
  <2>4. CASE first.ssl.hs # 2
    <3>1. Answered(first.ssl, first.wire, second) /\ second \in Answers
      BY <1>2, <2>4, FlightAnswered, FlightType
    <3>2. second.wire \in Wire /\ second.ssl \in Ssl
      BY <3>1 DEF Answers
    <3>3. /\ Pending(w.in) \in Nat /\ Pending(first.wire.in) \in Nat
          /\ Pending(second.wire.in) \in Nat
      BY <1>2, <3>2, PendingType DEF Wire
    <3> HIDE DEF first, second, r
    <3>4. Pending(r.wire.in) <= Pending(w.in)
      BY <1>1, <2>1, <3>1, <3>3 DEF Answered
    <3>5. QED
      BY <2>1, <2>2, <2>4, <3>1, <3>4 DEF Answered, Turn
  <2>5. QED
    BY <2>3, <2>4
<1>5. QED
  BY <1>3, <1>4

-----------------------------------------------------------------------------
(* What the driver's procedures do to the session.                         *)

\* A session only goes forward, and is established only while it is running.
Proceeds(d, e) ==
    /\ Keeps(d, e)
    /\ Is(d, "INIT") /\ ~Is(e, "INIT") => ~Is(d, "FATAL_ERROR") /\ ~Is(d, "EOF")

\* The session did not end or fail.
SameEnd(d, e) ==
    /\ Is(e, "FATAL_ERROR") = Is(d, "FATAL_ERROR")
    /\ Is(e, "EOF") = Is(d, "EOF")

\* Nothing happened to the session.
SameSession(d, e) == SameEnd(d, e) /\ Is(e, "INIT") = Is(d, "INIT")

\* A session to which nothing happened.
LEMMA SameProceeds ==
    ASSUME NEW d, NEW e, SameSession(d, e)
    PROVE  /\ Proceeds(d, e)
           /\ \A s, t : Unfinished(d, s) /\ t.hs = s.hs /\ t.got = s.got => Unfinished(e, t)
<1>1. Proceeds(d, e)
  BY DEF SameSession, SameEnd, Proceeds, Keeps
<1>2. ASSUME NEW s, NEW t, Unfinished(d, s), t.hs = s.hs, t.got = s.got
      PROVE  Unfinished(e, t)
  BY <1>2 DEF SameSession, SameEnd, Unfinished, Turn
<1>3. QED
  BY <1>1, <1>2

\* One step after another.
LEMMA ProceedsOn ==
    ASSUME NEW c, NEW d, NEW e, Proceeds(c, d), SameSession(d, e)
    PROVE  Proceeds(c, e)
  BY DEF Proceeds, Keeps, SameSession, SameEnd

\* What the error paths of tlsIO.c raise.
LEMMA RaisedFlags ==
    ASSUME NEW d \in Drv
    PROVE  LET failed == Raise(d, {"FATAL_ERROR", "EOF"})
               ended  == Raise(d, {"EOF"})
           IN  /\ Is(failed, "FATAL_ERROR") /\ Is(failed, "EOF")
               /\ Is(failed, "INIT") = Is(d, "INIT")
               /\ Is(ended, "EOF") /\ Is(ended, "FATAL_ERROR") = Is(d, "FATAL_ERROR")
               /\ Is(ended, "INIT") = Is(d, "INIT")
               /\ failed \in Drv /\ ended \in Drv
  BY DEF Raise, Is, Drv, Flag

\* An error path taken by an unfinished session: either the failure is fatal, or
\* close_notify was received.
LEMMA RaisedProceeds ==
    ASSUME NEW d \in Drv, NEW s, Is(d, "INIT") => s.hs # 2 /\ Turn(s)
    PROVE  LET failed == Raise(d, {"FATAL_ERROR", "EOF"})
               ended  == Raise(d, {"EOF"})
           IN  /\ Proceeds(d, failed) /\ Proceeds(d, ended)
               /\ Unfinished(failed, s)
               /\ Is(d, "INIT") /\ (Is(d, "FATAL_ERROR") \/ s.got) => Unfinished(ended, s)
               /\ ~Is(d, "INIT") => Unfinished(ended, s)
<1> DEFINE failed == Raise(d, {"FATAL_ERROR", "EOF"})
           ended  == Raise(d, {"EOF"})
<1>1. /\ Is(failed, "FATAL_ERROR") /\ Is(failed, "EOF")
      /\ Is(failed, "INIT") = Is(d, "INIT")
      /\ Is(ended, "EOF") /\ Is(ended, "FATAL_ERROR") = Is(d, "FATAL_ERROR")
      /\ Is(ended, "INIT") = Is(d, "INIT")
  BY RaisedFlags
<1> HIDE DEF failed, ended
<1>2. /\ Proceeds(d, failed) /\ Proceeds(d, ended)
      /\ Unfinished(failed, s)
      /\ Is(d, "INIT") /\ (Is(d, "FATAL_ERROR") \/ s.got) => Unfinished(ended, s)
      /\ ~Is(d, "INIT") => Unfinished(ended, s)
  BY <1>1 DEF Proceeds, Keeps, Unfinished
<1>3. QED
  BY <1>2 DEF failed, ended

\* Tls_WaitForConnect establishes only a running session, an error it answers is
\* fatal or close_notify, and it leaves the data on its way.
Connected(d, w, r) ==
    /\ Unfinished(r.drv, r.ssl) /\ Proceeds(d, r.drv)
    /\ Pending(r.wire.in) <= Pending(w.in)
    /\ r.ret = 1 => SameEnd(d, r.drv)
    /\ r.ret # 1 /\ r.err \notin {"EAGAIN", "ECONNRESET"} => Is(r.drv, "FATAL_ERROR")
    /\ r.ret # 1 /\ r.err = "ECONNRESET" => Is(r.drv, "FATAL_ERROR") \/ r.ssl.got

\* Tls_WaitForConnect.
LEMMA WaitConnected ==
    ASSUME NEW d \in Drv, NEW s \in Ssl, NEW w \in Wire,
           NEW permanent \in BOOLEAN, NEW again \in BOOLEAN, Unfinished(d, s)
    PROVE  Connected(d, w, Tls_WaitForConnect(d, s, w, permanent, again))
<1> DEFINE r == Tls_WaitForConnect(d, s, w, permanent, again)
           h == DoHandshake(s, w, again)
           failed == Raise(d, {"FATAL_ERROR", "EOF"})
           ended  == Raise(d, {"EOF"})
           done   == [d EXCEPT !.flags = @ \ {"INIT"}]
           wants  == Want(d, h.rc)
           early(ret, err) ==
              [ret |-> ret, err |-> err, drv |-> d, ssl |-> s, wire |-> w, rc |-> "NONE"]
           late(ret, err, e) ==
              [ret |-> ret, err |-> err, drv |-> e, ssl |-> h.ssl, wire |-> h.wire, rc |-> h.rc]
<1> SUFFICES Connected(d, w, r)
  OBVIOUS
<1>1. SameSession(d, d) /\ Proceeds(d, d) /\ SameEnd(d, d) /\ Pending(w.in) <= Pending(w.in)
  BY SamePending DEF SameSession, SameEnd, Proceeds, Keeps
<1>2. CASE ~Is(d, "INIT")
  <2>1. r = early(1, "none")
    BY <1>2 DEF Tls_WaitForConnect
  <2> HIDE DEF r
  <2>2. QED
    BY <1>1, <2>1 DEF Connected
<1>3. CASE Is(d, "INIT") /\ Is(d, "FATAL_ERROR")
  <2>1. r = early(-1, IF permanent THEN "ECONNABORTED" ELSE "ECONNRESET")
    BY <1>3 DEF Tls_WaitForConnect
  <2> HIDE DEF r
  <2>2. QED
    BY <1>1, <1>3, <2>1 DEF Connected
<1>4. CASE Is(d, "INIT") /\ ~Is(d, "FATAL_ERROR")
  <2>1. r = HandshakeAnswer(d, h)
    BY <1>4 DEF Tls_WaitForConnect
  <2>2. s.hs # 2 /\ Turn(s) /\ (Is(d, "EOF") => s.got)
    BY <1>4 DEF Unfinished
  <2>3. /\ Pending(h.wire.in) <= Pending(w.in)
        /\ s.got => h.ssl.got /\ h.rc # "NONE"
        /\ h.rc # "NONE" => h.ssl.hs # 2 /\ Turn(h.ssl)
        /\ h.rc = "ZERO_RETURN" => h.ssl.got
        /\ h.rc = "SYSCALL" => h.n # 0
    BY <2>2, HandshakeAnswered
  <2> HIDE DEF h
  <2>4. CASE h.rc = "NONE"
    <3>1. r = late(1, "none", done)
      BY <2>1, <2>4 DEF HandshakeAnswer
    <3>2. Keeps(d, done) /\ ~Is(done, "INIT")
      BY EstablishedType
    <3>3. SameEnd(d, done)
      BY DEF SameEnd, Is, Drv
    <3> HIDE DEF r, done
    <3>4. Proceeds(d, done) /\ Unfinished(done, h.ssl)
      BY <1>4, <2>2, <2>3, <2>4, <3>2 DEF Proceeds, Unfinished
    <3>5. QED
      BY <2>3, <3>1, <3>3, <3>4 DEF Connected
  <2>5. CASE h.rc \in {"SSL", "SYSCALL"}
    <3>1. \E err \in Errno : r = late(-1, err, failed)
      <4>1. CASE h.rc = "SSL"
        <5>1. r = late(-1, "ECONNABORTED", failed)
          BY <2>1, <4>1 DEF HandshakeAnswer
        <5>2. QED
          BY <5>1, CodeFacts
      <4>2. CASE h.rc = "SYSCALL"
        <5>1. r = late(-1, Aborted(h.errno), failed)
          BY <2>1, <2>3, <4>2 DEF HandshakeAnswer
        <5>2. h.errno \in Errno
          BY DoHandshakeType DEF h, Answers
        <5>3. Aborted(h.errno) \in Errno
          BY <5>2, CodeFacts DEF Aborted
        <5>4. QED
          BY <5>1, <5>3
      <4>3. QED
        BY <2>5, <4>1, <4>2
    <3>2. PICK err \in Errno : r = late(-1, err, failed)
      BY <3>1
    <3>3. Proceeds(d, failed) /\ Unfinished(failed, h.ssl) /\ Is(failed, "FATAL_ERROR")
      BY <2>3, <2>5, RaisedProceeds, RaisedFlags
    <3> HIDE DEF r, failed
    <3>4. QED
      BY <2>3, <3>2, <3>3 DEF Connected
  <2>6. CASE h.rc = "ZERO_RETURN"
    <3>1. r = late(-1, "ECONNRESET", ended)
      BY <2>1, <2>6 DEF HandshakeAnswer
    <3>2. Proceeds(d, ended) /\ Unfinished(ended, h.ssl)
      BY <1>4, <2>3, <2>6, RaisedProceeds
    <3> HIDE DEF r, ended
    <3>3. QED
      BY <2>3, <2>6, <3>1, <3>2 DEF Connected
  <2>7. CASE h.rc \notin {"NONE", "SSL", "SYSCALL", "ZERO_RETURN"}
    <3>1. r = late(0, "EAGAIN", wants)
      BY <2>1, <2>7 DEF HandshakeAnswer
    <3>2. SameSession(d, wants)
      BY WantType DEF SameSession, SameEnd, Is
    <3> HIDE DEF r, wants
    <3>3. Proceeds(d, wants) /\ Unfinished(wants, h.ssl)
      BY <2>2, <2>3, <2>7, <3>2, SameProceeds DEF SameSession, SameEnd, Unfinished
    <3>4. QED
      BY <2>3, <3>1, <3>3 DEF Connected
  <2>8. QED
    BY <2>4, <2>5, <2>6, <2>7
<1>5. QED
  BY <1>2, <1>3, <1>4

\* BIO_read hands over what was decrypted, or what the next record holds.
LEMMA SslReadPending ==
    ASSUME NEW s \in Ssl, NEW w \in Wire, NEW size \in Nat \ {0}
    PROVE  LET a == SslRead(s, w, size)
           IN  (IF a.rc = "NONE" THEN a.n ELSE 0) + a.ssl.pend + Pending(a.wire.in)
                 <= s.pend + Pending(w.in)
<1> DEFINE bio  == BioInput(ReadRaw(w))
           rest == [w EXCEPT !.in = Tail(@)]
           told == [s EXCEPT !.got = TRUE]
           fail == [s EXCEPT !.failed = TRUE]
           a    == SslRead(s, w, size)
           Result(r) == (IF r.rc = "NONE" THEN r.n ELSE 0) + r.ssl.pend + Pending(r.wire.in)
                          <= s.pend + Pending(w.in)
<1> SUFFICES Result(a)
  OBVIOUS
<1>0. /\ s.pend \in Nat /\ Pending(w.in) \in Nat
      /\ told.pend = s.pend /\ fail.pend = s.pend
  BY PendingType DEF Ssl, Wire
<1>1. bio \in BioResult /\ (bio.ret > 0 => w.in # <<>>) /\ bio.ret \in Int
  BY BioInputType DEF BioResult
<1>2. CASE s.pend > 0
  <2> DEFINE n    == Taken(s.pend, size)
             less == [s EXCEPT !.pend = @ - n]
  <2>1. a = Done(less, w, n)
    BY <1>2 DEF SslRead
  <2>2. n \in Nat /\ less.pend = s.pend - n
    BY <1>0 DEF Taken, Ssl
  <2> HIDE DEF a, less, n
  <2>3. a.rc = "NONE" /\ a.n = n /\ a.ssl = less /\ a.wire = w
    BY <2>1 DEF Done, Answer
  <2>4. QED
    BY <1>0, <2>2, <2>3
<1>3. CASE ~(s.pend > 0) /\ s.got
  <2>1. a = Answer(s, w, "ZERO_RETURN", 0, "none", FALSE)
    BY <1>3 DEF SslRead
  <2> HIDE DEF a
  <2>2. a.rc = "ZERO_RETURN" /\ a.ssl = s /\ a.wire = w
    BY <2>1 DEF Answer
  <2>3. QED
    BY <1>0, <2>2
<1>4. CASE ~(s.pend > 0) /\ ~s.got /\ s.failed
  <2>1. a = LibraryError(s, w)
    BY <1>4 DEF SslRead
  <2>2. a.rc = "SSL" /\ a.ssl = fail /\ a.wire = w
    BY <2>1 DEF LibraryError, Answer
  <2> HIDE DEF a, fail
  <2>3. QED
    BY <1>0, <2>2
<1>5. CASE ~(s.pend > 0) /\ ~s.got /\ ~s.failed /\ bio.ret <= 0
  <2> DEFINE b == Blocked(s, w, bio, "WANT_READ")
  <2>1. a = b
    BY <1>5 DEF SslRead
  <2>2. b.rc # "NONE" /\ b.wire = w /\ b.ssl.pend = s.pend
    BY <1>1, BlockedType DEF SameData
  <2> HIDE DEF a, b
  <2>3. QED
    BY <1>0, <2>1, <2>2
<1>6. CASE ~(s.pend > 0) /\ ~s.got /\ ~s.failed /\ ~(bio.ret <= 0)
  <2>1. w.in # <<>> /\ w.in \in Seq(Record) /\ Tail(w.in) \in Seq(Record)
    BY <1>1, <1>6 DEF Wire
  <2>2. rest.in = Tail(w.in)
    BY DEF Wire
  <2>3. /\ Pending(w.in) = UnitsOf(Head(w.in)) + Pending(rest.in)
        /\ Pending(rest.in) \in Nat /\ UnitsOf(Head(w.in)) \in Nat
    BY <2>1, <2>2, PendingTail, PendingType
  <2>4. CASE Head(w.in) = "data"
    <3> DEFINE n    == Taken(RecordUnits, size)
               left == RecordUnits - n
               less == [s EXCEPT !.pend = left]
    <3>1. a = Done(less, rest, n)
      BY <1>6, <2>4 DEF SslRead
    <3>2. n \in Nat /\ left = RecordUnits - n /\ RecordUnits \in Nat
      BY EngineAssumption DEF Taken
    <3> HIDE DEF left
    <3>3. less.pend = left
      BY DEF Ssl
    <3> HIDE DEF a, less, n, rest
    <3>4. a.rc = "NONE" /\ a.n = n /\ a.ssl = less /\ a.wire = rest
      BY <3>1 DEF Done, Answer
    <3>5. UnitsOf(Head(w.in)) = RecordUnits
      BY <2>4 DEF UnitsOf
    <3>6. QED
      BY <1>0, <2>3, <3>2, <3>3, <3>4, <3>5
  <2>5. CASE Head(w.in) = "close_notify"
    <3>1. a = Answer(told, rest, "ZERO_RETURN", 0, "none", FALSE)
      BY <1>6, <2>5 DEF SslRead
    <3> HIDE DEF a, told, rest
    <3>2. a.rc = "ZERO_RETURN" /\ a.ssl = told /\ a.wire = rest
      BY <3>1 DEF Answer
    <3>3. QED
      BY <1>0, <2>3, <3>2
  <2>6. CASE Head(w.in) \notin {"data", "close_notify"}
    <3>1. a = LibraryError(s, rest)
      BY <1>6, <2>6 DEF SslRead
    <3>2. a.rc = "SSL" /\ a.ssl = fail /\ a.wire = rest
      BY <3>1 DEF LibraryError, Answer
    <3> HIDE DEF a, fail, rest
    <3>3. QED
      BY <1>0, <2>3, <3>2
  <2>7. QED
    BY <2>4, <2>5, <2>6
<1>7. QED
  BY <1>1, <1>2, <1>3, <1>4, <1>5, <1>6

\* BIO_write leaves the input.
LEMMA SslWritePending ==
    ASSUME NEW s \in Ssl, NEW w \in Wire
    PROVE  Pending(SslWrite(s, w).wire.in) <= Pending(w.in)
<1> DEFINE bio  == BioOutput(WriteRaw(w))
           less == [w EXCEPT !.room = @ - 1]
           a    == SslWrite(s, w)
<1>1. a.wire = w \/ a.wire = less
  <2>1. CASE s.failed \/ s.sent
    BY <2>1 DEF SslWrite, LibraryError, Answer
  <2>2. CASE ~(s.failed \/ s.sent) /\ bio.ret > 0
    BY <2>2 DEF SslWrite, Done, Answer
  <2>3. CASE ~(s.failed \/ s.sent) /\ ~(bio.ret > 0)
    <3> DEFINE kept == [s EXCEPT !.part = TRUE]
               b    == Blocked(kept, w, bio, "WANT_WRITE")
    <3>1. a = [b EXCEPT !.n = -1]
      BY <2>3 DEF SslWrite
    <3>2. kept \in Ssl /\ bio \in BioResult
      BY SslPart, CodeFacts, BioOutputType
    <3> HIDE DEF kept, bio
    <3>3. b \in Answers /\ b.wire = w
      BY <3>2, BlockedType
    <3> HIDE DEF a, b
    <3>4. QED
      BY <3>1, <3>3 DEF Answers
  <2>4. QED
    BY <2>1, <2>2, <2>3
<1>2. less.in = w.in
  BY DEF Wire
<1> HIDE DEF a, less
<1>3. Pending(a.wire.in) <= Pending(w.in)
  BY <1>1, <1>2, SamePending
<1>4. QED
  BY <1>3 DEF a

\* How much the script may take of the answer of the input procedure.
Gained(r) == IF r.n > 0 THEN r.n ELSE 0

\* TlsInputProc hands over nothing that was not on its way, and only while the
\* session runs.
LEMMA InputProceeds ==
    ASSUME NEW d \in Drv, NEW s \in Ssl, NEW w \in Wire,
           NEW size \in Nat \ {0}, NEW again \in BOOLEAN, Unfinished(d, s)
    PROVE  LET r == TlsInputProc(d, s, w, size, again)
           IN  /\ Unfinished(r.drv, r.ssl) /\ Proceeds(d, r.drv)
               /\ Gained(r) + r.ssl.pend + Pending(r.wire.in) <= s.pend + Pending(w.in)
               /\ r.n > 0 => ~Is(d, "FATAL_ERROR") /\ ~Is(d, "EOF") /\ SameEnd(d, r.drv)
<1> DEFINE r == TlsInputProc(d, s, w, size, again)
           h == Tls_WaitForConnect(d, s, w, FALSE, again)
           a == SslRead(h.ssl, h.wire, size)
           failed == Raise(h.drv, {"FATAL_ERROR", "EOF"})
           ended  == Raise(h.drv, {"EOF"})
           wants  == Want(h.drv, a.rc)
           Result(q) ==
               /\ Unfinished(q.drv, q.ssl) /\ Proceeds(d, q.drv)
               /\ Gained(q) + q.ssl.pend + Pending(q.wire.in) <= s.pend + Pending(w.in)
               /\ q.n > 0 => ~Is(d, "FATAL_ERROR") /\ ~Is(d, "EOF") /\ SameEnd(d, q.drv)
<1> SUFFICES Result(r)
  OBVIOUS
<1>1. Connected(d, w, h) /\ Waited(d, s, h)
  BY WaitConnected, WaitForConnectType, CodeFacts
<1>2. h.drv \in Drv /\ h.ssl \in Ssl /\ h.wire \in Wire /\ h.ssl.pend = s.pend
  BY <1>1 DEF Waited, SameData
<1>3. /\ s.pend \in Nat /\ Pending(w.in) \in Nat /\ Pending(h.wire.in) \in Nat
      /\ Pending(h.wire.in) <= Pending(w.in)
  BY <1>1, <1>2, SslSame, PendingType DEF Connected, Wire
<1>4. CASE Is(d, "FATAL_ERROR") \/ Is(d, "EOF")
  <2>1. r = IoResult(0, "none", d, s, w, "NONE")
    BY <1>4 DEF TlsInputProc
  <2>2. Proceeds(d, d)
    BY DEF Proceeds, Keeps
  <2> HIDE DEF r
  <2>3. r.n = 0 /\ r.drv = d /\ r.ssl = s /\ r.wire = w
    BY <2>1 DEF IoResult
  <2>4. QED
    BY <1>3, <2>2, <2>3 DEF Gained
<1>5. CASE ~(Is(d, "FATAL_ERROR") \/ Is(d, "EOF")) /\ h.ret = 1
  <2>1. r = InputAnswer(h.drv, a)
    BY <1>5 DEF TlsInputProc
  <2>2. ~Is(h.drv, "INIT") /\ SameEnd(d, h.drv) /\ Proceeds(d, h.drv)
    BY <1>1, <1>5 DEF Waited, Connected
  <2>3. /\ a \in Answers /\ (a.rc = "NONE" => a.n > 0)
        /\ (IF a.rc = "NONE" THEN a.n ELSE 0) + a.ssl.pend + Pending(a.wire.in)
             <= s.pend + Pending(h.wire.in)
    BY <1>2, SslReadType, SslReadPending
  <2>4. a.ssl \in Ssl /\ a.wire \in Wire /\ a.n \in Int
    BY <2>3 DEF Answers
  <2>5. a.ssl.pend \in Nat /\ Pending(a.wire.in) \in Nat
    BY <2>4, SslSame, PendingType DEF Wire
  <2> HIDE DEF h, a
  <2> DEFINE io(n, err, e) == IoResult(n, err, e, a.ssl, a.wire, a.rc)
  <2>6. \/ r = io(a.n, "none", h.drv) /\ a.rc = "NONE"
        \/ /\ a.rc # "NONE"
           /\ \/ r = io(0, "none", ended)
              \/ r = io(-1, "ECONNABORTED", failed)
              \/ r = io(-1, "EAGAIN", wants)
              \/ r = io(-1, a.errno, failed)
              \/ r = io(0, "none", h.drv)
    BY <2>1 DEF InputAnswer
  <2>7. /\ SameSession(h.drv, wants) /\ SameSession(h.drv, h.drv)
        /\ Is(ended, "INIT") = Is(h.drv, "INIT") /\ Is(failed, "INIT") = Is(h.drv, "INIT")
        /\ Keeps(h.drv, ended) /\ Keeps(h.drv, failed)
    BY <1>2, WantType, RaiseType, FlagFacts DEF SameSession, SameEnd, Is
  <2>8. \A e \in {ended, failed, wants, h.drv} : ~Is(e, "INIT") /\ Proceeds(d, e)
    <3>1. \A e \in {ended, failed, wants, h.drv} : Keeps(h.drv, e) /\ ~Is(e, "INIT")
      BY <2>2, <2>7, SameProceeds DEF Proceeds, SameSession
    <3> HIDE DEF ended, failed, wants
    <3>2. QED
      BY <2>2, <3>1 DEF Proceeds, Keeps
  <2> HIDE DEF r, ended, failed, wants
  <2>9. CASE r = io(a.n, "none", h.drv) /\ a.rc = "NONE"
    <3>1. r.n = a.n /\ r.drv = h.drv /\ r.ssl = a.ssl /\ r.wire = a.wire
      BY <2>9 DEF IoResult
    <3>2. Gained(r) = a.n
      BY <2>3, <2>9, <3>1 DEF Gained
    <3>3. Unfinished(r.drv, r.ssl)
      BY <2>2, <3>1 DEF Unfinished
    <3>4. QED
      BY <1>3, <1>5, <2>2, <2>3, <2>4, <2>5, <2>9, <3>1, <3>2, <3>3
  <2>10. CASE a.rc # "NONE"
    <3>1. /\ r.drv \in {ended, failed, wants, h.drv} /\ ~(r.n > 0)
          /\ r.ssl = a.ssl /\ r.wire = a.wire
      BY <2>6, <2>10 DEF IoResult
    <3>2. Gained(r) = 0
      BY <3>1 DEF Gained
    <3>3. Unfinished(r.drv, r.ssl) /\ Proceeds(d, r.drv)
      BY <2>8, <3>1 DEF Unfinished
    <3>4. QED
      BY <1>3, <2>3, <2>5, <2>10, <3>1, <3>2, <3>3
  <2>11. QED
    BY <2>6, <2>9, <2>10
<1>6. CASE ~(Is(d, "FATAL_ERROR") \/ Is(d, "EOF")) /\ h.ret # 1
  <2>1. \/ r = IoResult(-1, h.err, h.drv, h.ssl, h.wire, h.rc)
        \/ h.err = "ECONNRESET" /\ r = IoResult(0, "none", ended, h.ssl, h.wire, h.rc)
    BY <1>6 DEF TlsInputProc
  <2>2. Unfinished(h.drv, h.ssl) /\ Proceeds(d, h.drv)
    BY <1>1 DEF Connected
  <2>3. h.err = "ECONNRESET" => Unfinished(ended, h.ssl) /\ Proceeds(d, ended)
    <3>1. h.err = "ECONNRESET" => Is(h.drv, "FATAL_ERROR") \/ h.ssl.got
      BY <1>1, <1>6 DEF Connected
    <3>2. Is(h.drv, "INIT") => h.ssl.hs # 2 /\ Turn(h.ssl)
      BY <2>2 DEF Unfinished
    <3>3. Keeps(h.drv, ended) /\ Is(ended, "INIT") = Is(h.drv, "INIT")
      BY <1>2, RaiseType, FlagFacts
    <3>4. h.err = "ECONNRESET" => Unfinished(ended, h.ssl)
      BY <1>2, <3>1, <3>2, RaisedProceeds
    <3> HIDE DEF ended, h
    <3>5. QED
      BY <2>2, <3>3, <3>4 DEF Proceeds, Keeps
  <2> HIDE DEF r, h, ended
  <2>4. r.ssl = h.ssl /\ r.wire = h.wire /\ ~(r.n > 0)
    BY <2>1 DEF IoResult
  <2>5. Unfinished(r.drv, r.ssl) /\ Proceeds(d, r.drv)
    BY <2>1, <2>2, <2>3 DEF IoResult
  <2>6. QED
    BY <1>2, <1>3, <2>4, <2>5 DEF Gained
<1>7. QED
  BY <1>4, <1>5, <1>6

\* TlsOutputProc puts a unit on the wire only while the session has not failed,
\* and an error other than EAGAIN is a failure.
LEMMA OutputProceeds ==
    ASSUME NEW d \in Drv, NEW s \in Ssl, NEW w \in Wire, NEW again \in BOOLEAN,
           Unfinished(d, s)
    PROVE  LET r == TlsOutputProc(d, s, w, again)
           IN  /\ Unfinished(r.drv, r.ssl) /\ Proceeds(d, r.drv)
               /\ Pending(r.wire.in) <= Pending(w.in)
               /\ r.n = 1 => ~Is(d, "FATAL_ERROR") /\ SameEnd(d, r.drv)
               /\ r.n < 0 /\ r.err # "EAGAIN" => Is(r.drv, "FATAL_ERROR")
<1> DEFINE r == TlsOutputProc(d, s, w, again)
           h == Tls_WaitForConnect(d, s, w, TRUE, again)
           a == SslWrite(h.ssl, h.wire)
           failed == Raise(h.drv, {"FATAL_ERROR", "EOF"})
           ended  == Raise(h.drv, {"EOF"})
           wants  == Want(h.drv, a.rc)
           Result(q) ==
               /\ Unfinished(q.drv, q.ssl) /\ Proceeds(d, q.drv)
               /\ Pending(q.wire.in) <= Pending(w.in)
               /\ q.n = 1 => ~Is(d, "FATAL_ERROR") /\ SameEnd(d, q.drv)
               /\ q.n < 0 /\ q.err # "EAGAIN" => Is(q.drv, "FATAL_ERROR")
<1> SUFFICES Result(r)
  OBVIOUS
<1>1. Connected(d, w, h) /\ Waited(d, s, h)
  BY WaitConnected, WaitForConnectType, CodeFacts
<1>2. h.drv \in Drv /\ h.ssl \in Ssl /\ h.wire \in Wire
  BY <1>1 DEF Waited
<1>3. /\ Pending(w.in) \in Nat /\ Pending(h.wire.in) \in Nat
      /\ Pending(h.wire.in) <= Pending(w.in)
  BY <1>1, <1>2, PendingType DEF Connected, Wire
<1>4. CASE Is(d, "FATAL_ERROR")
  <2>1. r = IoResult(-1, "ECONNABORTED", d, s, w, "NONE")
    BY <1>4 DEF TlsOutputProc
  <2>2. Proceeds(d, d)
    BY DEF Proceeds, Keeps
  <2> HIDE DEF r
  <2>3. r.n = -1 /\ r.drv = d /\ r.ssl = s /\ r.wire = w
    BY <2>1 DEF IoResult
  <2>4. QED
    BY <1>3, <1>4, <2>2, <2>3
<1>5. CASE ~Is(d, "FATAL_ERROR") /\ h.ret = 1
  <2>1. r = OutputAnswer(h.drv, a)
    BY <1>5 DEF TlsOutputProc
  <2>2. ~Is(h.drv, "INIT") /\ SameEnd(d, h.drv) /\ Proceeds(d, h.drv)
    BY <1>1, <1>5 DEF Waited, Connected
  <2>3. /\ a \in Answers /\ (a.rc = "NONE" => a.n = 1)
        /\ Pending(a.wire.in) <= Pending(h.wire.in)
    BY <1>2, SslWriteType, SslWritePending
  <2>4. Pending(a.wire.in) \in Nat
    BY <2>3, PendingType DEF Answers, Wire
  <2> HIDE DEF h, a
  <2> DEFINE io(n, err, e) == IoResult(n, err, e, a.ssl, a.wire, a.rc)
  <2>5. \/ r = io(a.n, "none", h.drv) /\ a.rc = "NONE"
        \/ r = io(0, "none", ended)
        \/ r = io(-1, "ECONNABORTED", failed)
        \/ r = io(-1, "EAGAIN", wants)
        \/ r = io(-1, a.errno, failed)
        \/ r = io(0, "none", h.drv)
    BY <2>1 DEF OutputAnswer
  <2>6. /\ SameSession(h.drv, wants) /\ SameSession(h.drv, h.drv)
        /\ Is(ended, "INIT") = Is(h.drv, "INIT") /\ Is(failed, "INIT") = Is(h.drv, "INIT")
        /\ Keeps(h.drv, ended) /\ Keeps(h.drv, failed)
        /\ Is(failed, "FATAL_ERROR")
    BY <1>2, WantType, RaiseType, RaisedFlags, FlagFacts DEF SameSession, SameEnd, Is
  <2>7. \A e \in {ended, failed, wants, h.drv} : ~Is(e, "INIT") /\ Proceeds(d, e)
    <3>1. \A e \in {ended, failed, wants, h.drv} : Keeps(h.drv, e) /\ ~Is(e, "INIT")
      BY <2>2, <2>6, SameProceeds DEF Proceeds, SameSession
    <3> HIDE DEF ended, failed, wants
    <3>2. QED
      BY <2>2, <3>1 DEF Proceeds, Keeps
  <2> HIDE DEF r, ended, failed, wants
  <2>8. /\ r.drv \in {ended, failed, wants, h.drv} /\ r.ssl = a.ssl /\ r.wire = a.wire
        /\ r.n = 1 => r.drv = h.drv
        /\ r.n < 0 /\ r.err # "EAGAIN" => r.drv = failed
    BY <2>3, <2>5 DEF IoResult
  <2>9. Unfinished(r.drv, r.ssl) /\ Proceeds(d, r.drv)
    BY <2>7, <2>8 DEF Unfinished
  <2>10. QED
    BY <1>3, <1>5, <2>2, <2>3, <2>4, <2>6, <2>8, <2>9
<1>6. CASE ~Is(d, "FATAL_ERROR") /\ h.ret # 1
  <2>1. \/ r = IoResult(-1, h.err, h.drv, h.ssl, h.wire, h.rc) /\ h.err # "ECONNRESET"
        \/ r = IoResult(-1, h.err, h.drv, h.ssl, h.wire, h.rc) /\ h.ret = 0
        \/ h.err = "ECONNRESET" /\ r = IoResult(0, "none", ended, h.ssl, h.wire, h.rc)
    BY <1>1, <1>6 DEF TlsOutputProc, Waited
  <2>a. h.ret = 0 => h.err = "EAGAIN"
    BY <1>6 DEF Tls_WaitForConnect, HandshakeAnswer
  <2>2. Unfinished(h.drv, h.ssl) /\ Proceeds(d, h.drv)
    BY <1>1 DEF Connected
  <2>3. h.err = "ECONNRESET" => Unfinished(ended, h.ssl) /\ Proceeds(d, ended)
    <3>1. h.err = "ECONNRESET" => Is(h.drv, "FATAL_ERROR") \/ h.ssl.got
      BY <1>1, <1>6 DEF Connected
    <3>2. Is(h.drv, "INIT") => h.ssl.hs # 2 /\ Turn(h.ssl)
      BY <2>2 DEF Unfinished
    <3>3. Keeps(h.drv, ended) /\ Is(ended, "INIT") = Is(h.drv, "INIT")
      BY <1>2, RaiseType, FlagFacts
    <3>4. h.err = "ECONNRESET" => Unfinished(ended, h.ssl)
      BY <1>2, <3>1, <3>2, RaisedProceeds
    <3> HIDE DEF ended, h
    <3>5. QED
      BY <2>2, <3>3, <3>4 DEF Proceeds, Keeps
  <2>4. h.err \notin {"EAGAIN", "ECONNRESET"} => Is(h.drv, "FATAL_ERROR")
    BY <1>1, <1>6 DEF Connected
  <2> HIDE DEF r, h, ended
  <2>5. r.ssl = h.ssl /\ r.wire = h.wire /\ r.n # 1
    BY <2>1 DEF IoResult
  <2>6. Unfinished(r.drv, r.ssl) /\ Proceeds(d, r.drv)
    BY <2>1, <2>2, <2>3 DEF IoResult
  <2>7. r.n < 0 /\ r.err # "EAGAIN" => Is(r.drv, "FATAL_ERROR")
    BY <2>1, <2>a, <2>4 DEF IoResult
  <2>8. QED
    BY <1>2, <1>3, <2>5, <2>6, <2>7
<1>7. QED
  BY <1>4, <1>5, <1>6

\* Two structures with the same flags are the same session.
LEMMA SameFlagsSession ==
    ASSUME NEW d, NEW e, SameFlags(d, e)
    PROVE  SameSession(d, e)
  BY SameFlagsIs DEF SameSession, SameEnd

\* TlsNotifyProc only tries the handshake.
LEMMA NotifyProceeds ==
    ASSUME NEW d \in Drv, NEW s \in Ssl, NEW w \in Wire, NEW again \in BOOLEAN,
           NEW k \in Nat, Held(d, k), d.life = "live", Unfinished(d, s)
    PROVE  LET r == TlsNotifyProc(d, s, w, again)
           IN  /\ Unfinished(r.drv, r.ssl) /\ Proceeds(d, r.drv)
               /\ Pending(r.wire.in) <= Pending(w.in)
<1> DEFINE idle == DeleteTimer(d)
           h    == Tls_WaitForConnect(idle, s, w, TRUE, again)
           r    == TlsNotifyProc(d, s, w, again)
<1>1. idle \in Drv /\ SameSession(d, idle)
  BY DeleteTimerType, SameFlagsSession
<1>2. Unfinished(idle, s)
  BY <1>1, SameProceeds
<1>3. r.drv = h.drv /\ r.ssl = h.ssl /\ r.wire = h.wire
  BY DEF TlsNotifyProc
<1> HIDE DEF idle
<1>4. Connected(idle, w, h)
  BY <1>1, <1>2, WaitConnected, CodeFacts
<1> HIDE DEF h, r
<1>5. Proceeds(d, h.drv)
  BY <1>1, <1>4 DEF Connected, Proceeds, Keeps, SameSession, SameEnd
<1>6. QED
  BY <1>3, <1>4, <1>5 DEF Connected, r

\* SSL_shutdown does not change what was received.
LEMMA ShutdownKept ==
    ASSUME NEW s \in Ssl
    PROVE  /\ SslShutdown(s).got = s.got /\ SslShutdown(s).hs = s.hs
           /\ SslShutdown(s).failed = s.failed
<1>1. /\ [s EXCEPT !.shuts = @ + 1, !.sent = TRUE].got = s.got
      /\ [s EXCEPT !.shuts = @ + 1].got = s.got
      /\ [s EXCEPT !.shuts = @ + 1, !.sent = TRUE].failed = s.failed
      /\ [s EXCEPT !.shuts = @ + 1].failed = s.failed
  BY DEF Ssl
<1>2. SslShutdown(s).got = s.got /\ SslShutdown(s).failed = s.failed
  BY <1>1 DEF SslShutdown
<1>3. QED
  BY <1>2, SslShutdownType

\* TlsCloseProc neither ends nor fails the session, nor changes the handshake.
LEMMA CloseKept ==
    ASSUME NEW d \in Drv, NEW s \in Ssl, NEW k \in Nat, Held(d, k), d.life = "live"
    PROVE  LET c == TlsCloseProc(d, s)
           IN  /\ SameSession(d, c.drv)
               /\ c.ssl.got = s.got /\ c.ssl.hs = s.hs /\ c.ssl.failed = s.failed
<1> DEFINE notify == ~Is(d, "INIT") /\ ~Is(d, "FATAL_ERROR")
           shut   == IF notify THEN SslShutdown(s) ELSE s
           marked == IF notify THEN Raise(d, {"CLOSED"}) ELSE d
           idle   == DeleteTimer(marked)
           last   == EventuallyFree(idle)
           c      == TlsCloseProc(d, s)
<1>1. c.drv = last /\ c.ssl = Clean(last, shut)
  BY DEF TlsCloseProc
<1> HIDE DEF c
<1>2. shut \in Ssl /\ shut.got = s.got /\ shut.hs = s.hs /\ shut.failed = s.failed
  BY SslShutdownType, ShutdownKept
<1>3. marked \in Drv /\ Held(marked, k) /\ marked.life = "live"
  BY RaiseType, FlagFacts DEF Held, Holds
<1>4. SameSession(d, marked)
  BY DEF SameSession, SameEnd, Raise, Is, Drv
<1> HIDE DEF shut, marked
<1>5. idle \in Drv /\ SameFlags(marked, idle)
  BY <1>3, DeleteTimerType
<1> HIDE DEF idle
<1>6. last.flags = idle.flags
  BY <1>5 DEF EventuallyFree, Drv
<1> HIDE DEF last
<1>7. SameSession(d, last)
  BY <1>4, <1>5, <1>6 DEF SameSession, SameEnd, SameFlags, Is
<1>8. Clean(last, shut) \in {shut, SslShutdown(shut)}
  BY DEF Clean
<1>9. c.ssl.got = s.got /\ c.ssl.hs = s.hs /\ c.ssl.failed = s.failed
  BY <1>1, <1>2, <1>8, ShutdownKept
<1>10. QED
  BY <1>1, <1>7, <1>9 DEF c

-----------------------------------------------------------------------------
(* What a clean end means: nothing comes after close_notify, and as long   *)
(* as nothing was lost all data are accounted for.                         *)

\* close_notify is the last thing the peer says, and a session that received it
\* has nothing left to read.
Orderly(s, w) ==
    /\ \A i \in DOMAIN w.in : w.in[i] = "close_notify" => i = Len(w.in) /\ w.peer = "done"
    /\ s.got => w.in = <<>> /\ w.peer = "done" /\ s.pend = 0

\* close_notify was received or may still be: the library has not failed and no
\* reset took the records away.
Intact(s, w) == s.got \/ (~s.failed /\ (w.in # <<>> \/ w.end # "reset"))

\* What a call that hands over n units does to a session and its input: nothing is
\* lost unless the session is broken by it.
Carried(s, w, t, v, n) ==
    /\ v.end = w.end /\ v.peer = w.peer
    /\ Orderly(t, v)
    /\ s.got => t.got
    /\ Intact(t, v) => Intact(s, w) /\ n + t.pend + Pending(v.in) = s.pend + Pending(w.in)

\* A call that reads no record.
LEMMA StayCarried ==
    ASSUME NEW s \in Ssl, NEW w \in Wire, NEW t \in Ssl, NEW v, NEW n \in Nat,
           Orderly(s, w), v.in = w.in, v.end = w.end, v.peer = w.peer,
           t.got = s.got, s.failed => t.failed, n + t.pend = s.pend
    PROVE  Carried(s, w, t, v, n)
<1>1. s.pend \in Nat /\ t.pend \in Nat /\ Pending(w.in) \in Nat
  BY SslSame, PendingType DEF Wire
<1>2. Pending(v.in) = Pending(w.in)
  BY DEF Pending, DataRecords
<1>3. s.got => t.pend = 0
  BY <1>1 DEF Orderly
<1>4. Orderly(t, v)
  BY <1>3 DEF Orderly
<1>5. Intact(t, v) => Intact(s, w)
  BY DEF Intact
<1>6. QED
  BY <1>1, <1>2, <1>4, <1>5 DEF Carried

\* A call that reads a record, of a session that had neither failed nor received
\* close_notify.
LEMMA RecordCarried ==
    ASSUME NEW s \in Ssl, NEW w \in Wire, NEW t \in Ssl, NEW v, NEW n \in Nat,
           Orderly(s, w), w.in # <<>>, ~s.got, ~s.failed,
           v.in = Tail(w.in), v.end = w.end, v.peer = w.peer,
           t.got => Head(w.in) = "close_notify" /\ t.pend = 0,
           t.got \/ ~t.failed => n + t.pend = s.pend + UnitsOf(Head(w.in))
    PROVE  Carried(s, w, t, v, n)
<1> DEFINE q    == w.in
           k    == Len(q) - 1
           rest == Tail(q)
<1>1. /\ q \in Seq(Record) /\ q # <<>> /\ k \in Nat /\ Len(q) = k + 1
      /\ DOMAIN q = 1..(k + 1) /\ rest \in Seq(Record) /\ Head(q) = q[1]
      /\ DOMAIN rest = 1..k /\ Len(rest) = k /\ (k = 0 => rest = <<>>)
      /\ \A i \in 1..k : rest[i] = q[i + 1]
  BY DEF Wire
<1>2. /\ s.pend \in Nat /\ t.pend \in Nat /\ UnitsOf(Head(q)) \in Nat
      /\ Pending(rest) \in Nat /\ Pending(q) = UnitsOf(Head(q)) + Pending(rest)
  BY <1>1, SslSame, PendingType, PendingTail
<1>3. \A i \in DOMAIN q : q[i] = "close_notify" => i = Len(q) /\ w.peer = "done"
  BY DEF Orderly
<1>4. v.in = rest
  OBVIOUS
<1> HIDE DEF q, k, rest
<1>5. ASSUME NEW i \in DOMAIN v.in, v.in[i] = "close_notify"
      PROVE  i = Len(v.in) /\ v.peer = "done"
  <2>1. i \in 1..k /\ rest[i] = "close_notify"
    BY <1>1, <1>4, <1>5
  <2>2. q[i + 1] = "close_notify" /\ i + 1 \in DOMAIN q /\ i \in Int
    BY <1>1, <2>1
  <2>3. i + 1 = k + 1 /\ w.peer = "done"
    BY <1>1, <1>3, <2>2
  <2>4. i = k
    BY <1>1, <2>2, <2>3
  <2>5. QED
    BY <1>1, <1>4, <2>3, <2>4
<1>6. ASSUME t.got PROVE v.in = <<>> /\ v.peer = "done" /\ t.pend = 0
  <2>1. q[1] = "close_notify" /\ t.pend = 0
    BY <1>1, <1>6 DEF q
  <2>2. 1 \in DOMAIN q
    BY <1>1
  <2>3. 1 = k + 1 /\ w.peer = "done"
    BY <1>1, <1>3, <2>1, <2>2
  <2>4. k = 0
    BY <1>1, <2>3
  <2>5. QED
    BY <1>1, <1>4, <2>1, <2>3, <2>4
<1>7. Orderly(t, v)
  BY <1>5, <1>6 DEF Orderly
<1>8. Intact(s, w)
  BY DEF Intact
<1>9. Intact(t, v) => n + t.pend + Pending(v.in) = s.pend + Pending(q)
  <2>1. Intact(t, v) => t.got \/ ~t.failed
    BY DEF Intact
  <2>2. t.got \/ ~t.failed => n + t.pend = s.pend + UnitsOf(Head(q))
    BY DEF q
  <2>3. Pending(v.in) = Pending(rest)
    BY <1>4
  <2>4. QED
    BY <1>2, <2>1, <2>2, <2>3
<1>10. QED
  BY <1>7, <1>8, <1>9 DEF Carried, q

\* One call after another.
LEMMA CarriedOn ==
    ASSUME NEW s \in Ssl, NEW w \in Wire, NEW t \in Ssl, NEW v \in Wire,
           NEW u \in Ssl, NEW x \in Wire, NEW m \in Nat, NEW n \in Nat,
           Carried(s, w, t, v, m), Carried(t, v, u, x, n)
    PROVE  Carried(s, w, u, x, m + n)
<1>1. /\ s.pend \in Nat /\ t.pend \in Nat /\ u.pend \in Nat
      /\ Pending(w.in) \in Nat /\ Pending(v.in) \in Nat /\ Pending(x.in) \in Nat
  BY SslSame, PendingType DEF Wire
<1>2. Intact(u, x) => /\ Intact(t, v) /\ Intact(s, w)
                      /\ n + u.pend + Pending(x.in) = t.pend + Pending(v.in)
                      /\ m + t.pend + Pending(v.in) = s.pend + Pending(w.in)
  BY DEF Carried
<1>3. ASSUME Intact(u, x)
      PROVE  (m + n) + u.pend + Pending(x.in) = s.pend + Pending(w.in)
  <2>1. /\ n + u.pend + Pending(x.in) = t.pend + Pending(v.in)
        /\ m + t.pend + Pending(v.in) = s.pend + Pending(w.in)
    BY <1>2, <1>3
  <2> DEFINE before == Pending(w.in)
             during == Pending(v.in)
             after  == Pending(x.in)
             p == s.pend
             q == t.pend
             r == u.pend
  <2>2. /\ n + r + after = q + during /\ m + q + during = p + before
        /\ before \in Nat /\ during \in Nat /\ after \in Nat
        /\ p \in Nat /\ q \in Nat /\ r \in Nat
    BY <1>1, <2>1
  <2> HIDE DEF before, during, after, p, q, r
  <2>3. (m + n) + r + after = p + before
    BY <2>2
  <2>4. QED
    BY <2>3 DEF before, after, p, r
<1>4. QED
  BY <1>2, <1>3 DEF Carried

\* What is said of the channel below when a call is not served: an end of the input
\* is not told of an open connection.
LEMMA InputEnds ==
    ASSUME NEW w \in Wire
    PROVE  LET bio == BioInput(ReadRaw(w))
           IN  /\ bio.inEof \/ bio.ret = 0 => w.end # "open"
               /\ bio.ret <= 0 => w.in = <<>>
<1> DEFINE raw == ReadRaw(w)
           bio == BioInput(raw)
<1>1. w.in # <<>> => raw.ret = 1
  BY DEF ReadRaw
<1>2. w.in = <<>> /\ w.end = "open" => raw.ret = -1
  BY DEF ReadRaw
<1> HIDE DEF raw
<1>3. bio.ret = raw.ret /\ (bio.inEof => raw.ret = 0)
  BY DEF BioInput
<1> HIDE DEF bio
<1>4. /\ bio.inEof \/ bio.ret = 0 => w.end # "open"
      /\ bio.ret <= 0 => w.in = <<>>
  BY <1>1, <1>2, <1>3
<1>5. QED
  BY <1>4 DEF bio, raw

\* A call that the BIO could not serve.
LEMMA BlockedCarried ==
    ASSUME NEW s \in Ssl, NEW w \in Wire, NEW bio \in BioResult,
           NEW want \in {"WANT_READ", "WANT_WRITE"}, Orderly(s, w)
    PROVE  LET b == Blocked(s, w, bio, want)
           IN  /\ Carried(s, w, b.ssl, b.wire, 0)
               /\ b.ssl.got = s.got
               /\ b.rc = "ZERO_RETURN" => s.got
               /\ b.rc = "SSL" => bio.inEof
               /\ b.rc = "SYSCALL" => b.n = bio.ret
               /\ b.rc # "WANT_CLIENT_HELLO_CB"
<1> DEFINE b    == Blocked(s, w, bio, want)
           fail == [s EXCEPT !.failed = TRUE]
<1>1. /\ fail \in Ssl /\ fail.got = s.got /\ fail.pend = s.pend /\ fail.failed = TRUE
      /\ s.pend \in Nat /\ 0 \in Nat
  BY DEF Ssl
<1>2. /\ b.ssl = s \/ b.ssl = fail
      /\ b.wire = w
      /\ b.rc = "ZERO_RETURN" => s.got
      /\ b.rc = "SSL" => bio.inEof
      /\ b.rc = "SYSCALL" => b.n = bio.ret
      /\ b.rc # "WANT_CLIENT_HELLO_CB"
  BY DEF Blocked, Answer
<1> HIDE DEF b, fail
<1>3. Carried(s, w, s, w, 0) /\ Carried(s, w, fail, w, 0)
  BY <1>1, StayCarried
<1>4. QED
  BY <1>1, <1>2, <1>3 DEF b

\* A flight that is sent.
LEMMA SendFlightCarried ==
    ASSUME NEW s \in Ssl, NEW w \in Wire, s.hs # 2, Orderly(s, w)
    PROVE  LET r == SendFlight(s, w) IN Carried(s, w, r.ssl, r.wire, 0)
<1> DEFINE bio  == BioOutput(WriteRaw(w))
           r    == SendFlight(s, w)
           less == [w EXCEPT !.room = @ - 1]
           next == [s EXCEPT !.hs = @ + 1]
<1>1. CASE bio.ret > 0
  <2>1. r = Done(next, less, 0)
    BY <1>1 DEF SendFlight
  <2>2. /\ next \in Ssl /\ next.got = s.got /\ next.failed = s.failed /\ next.pend = s.pend
        /\ s.pend \in Nat /\ 0 \in Nat
    BY SslAdvanced, SslSame, AdvancedKept DEF SameData
  <2>3. less.in = w.in /\ less.end = w.end /\ less.peer = w.peer
    BY DEF Wire
  <2> HIDE DEF r, less, next
  <2>4. Carried(s, w, next, less, 0)
    BY <2>2, <2>3, StayCarried
  <2>5. r.ssl = next /\ r.wire = less
    BY <2>1 DEF Done, Answer
  <2>6. QED
    BY <2>4, <2>5 DEF r
<1>2. CASE ~(bio.ret > 0)
  <2>1. r = Blocked(s, w, bio, "WANT_WRITE")
    BY <1>2 DEF SendFlight
  <2>2. bio \in BioResult
    BY BioOutputType
  <2> HIDE DEF bio, r
  <2>3. QED
    BY <2>1, <2>2, BlockedCarried DEF r
<1>3. QED
  BY <1>1, <1>2

\* A flight that is received, before any data.
LEMMA ReceiveFlightCarried ==
    ASSUME NEW s \in Ssl, NEW w \in Wire, NEW again \in BOOLEAN,
           s.hs # 2, ~s.failed, s.pend = 0, Orderly(s, w)
    PROVE  LET r == ReceiveFlight(s, w, again) IN Carried(s, w, r.ssl, r.wire, 0)
<1> DEFINE bio  == BioInput(ReadRaw(w))
           rest == [w EXCEPT !.in = Tail(@)]
           r    == ReceiveFlight(s, w, again)
           next == [s EXCEPT !.hs = @ + 1]
           told == [s EXCEPT !.got = TRUE]
           fail == [s EXCEPT !.failed = TRUE]
<1> SUFFICES Carried(s, w, r.ssl, r.wire, 0)
  OBVIOUS
<1>1. Carried(s, w, s, w, 0)
  BY SslSame, StayCarried
<1>2. /\ next \in Ssl /\ next.got = s.got /\ next.pend = 0
      /\ told \in Ssl /\ told.pend = 0
      /\ fail \in Ssl /\ fail.got = s.got /\ fail.failed = TRUE
      /\ 0 \in Nat /\ 0 + 0 = 0 + 0
  <2>1. fail.failed = TRUE
    BY DEF Ssl
  <2>2. QED
    BY <2>1, SslAdvanced, SslGot, SslFailed, AdvancedKept, FailedKept DEF SameData
<1>3. /\ rest.in = Tail(w.in) /\ rest.end = w.end /\ rest.peer = w.peer
  BY DEF Wire
<1>4. bio \in BioResult /\ (bio.ret > 0 => w.in # <<>>) /\ bio.ret \in Int
  BY BioInputType DEF BioResult
<1>5. CASE s.got
  <2>1. r = Answer(s, w, "ZERO_RETURN", 0, "none", FALSE)
    BY <1>5 DEF ReceiveFlight
  <2>2. r.ssl = s /\ r.wire = w
    BY <2>1 DEF Answer
  <2> HIDE DEF r
  <2>3. QED
    BY <1>1, <2>2
<1>6. CASE ~s.got /\ bio.ret <= 0
  <2> DEFINE b == Blocked(s, w, bio, "WANT_READ")
  <2>1. r = [b EXCEPT !.n = -1]
    BY <1>6 DEF ReceiveFlight
  <2> HIDE DEF bio, r
  <2>2. b \in Answers /\ Carried(s, w, b.ssl, b.wire, 0)
    BY <1>4, BlockedType, BlockedCarried
  <2> HIDE DEF b
  <2>3. r.ssl = b.ssl /\ r.wire = b.wire
    BY <2>1, <2>2 DEF Answers
  <2>4. QED
    BY <2>2, <2>3
<1>7. CASE ~s.got /\ ~(bio.ret <= 0)
  <2>0. w.in # <<>>
    BY <1>4, <1>7
  <2>1. CASE Head(w.in) = "hs" /\ Server /\ again
    <3>1. r = Answer(s, w, "WANT_CLIENT_HELLO_CB", -1, "none", FALSE)
      BY <1>7, <2>1 DEF ReceiveFlight
    <3>2. r.ssl = s /\ r.wire = w
      BY <3>1 DEF Answer
    <3> HIDE DEF r
    <3>3. QED
      BY <1>1, <3>2
  <2>2. CASE Head(w.in) = "hs" /\ ~(Server /\ again)
    <3>1. r = Done(next, rest, 0)
      BY <1>7, <2>2 DEF ReceiveFlight
    <3>2. r.ssl = next /\ r.wire = rest
      BY <3>1 DEF Done, Answer
    <3>3. UnitsOf(Head(w.in)) = 0
      BY <2>2 DEF UnitsOf
    <3> HIDE DEF r, rest, next, told, fail
    <3>4. Carried(s, w, next, rest, 0)
      BY <1>2, <1>3, <1>7, <2>0, <3>3, RecordCarried
    <3>5. QED
      BY <3>2, <3>4
  <2>3. CASE Head(w.in) = "close_notify"
    <3>1. r = Answer(told, rest, "ZERO_RETURN", 0, "none", FALSE)
      BY <1>7, <2>3 DEF ReceiveFlight
    <3>2. r.ssl = told /\ r.wire = rest
      BY <3>1 DEF Answer
    <3>3. UnitsOf(Head(w.in)) = 0
      BY <2>3 DEF UnitsOf
    <3> HIDE DEF r, rest, next, told, fail
    <3>4. Carried(s, w, told, rest, 0)
      BY <1>2, <1>3, <1>7, <2>0, <2>3, <3>3, RecordCarried
    <3>5. QED
      BY <3>2, <3>4
  <2>4. CASE Head(w.in) \notin {"hs", "close_notify"}
    <3>1. r = LibraryError(s, rest)
      BY <1>7, <2>4 DEF ReceiveFlight
    <3>2. r.ssl = fail /\ r.wire = rest
      BY <3>1 DEF LibraryError, Answer
    <3> HIDE DEF r, rest, next, told, fail
    <3>3. Carried(s, w, fail, rest, 0)
      BY <1>2, <1>3, <1>7, <2>0, RecordCarried
    <3>4. QED
      BY <3>2, <3>3
  <2>5. QED
    BY <2>1, <2>2, <2>3, <2>4
<1>8. QED
  BY <1>4, <1>5, <1>6, <1>7

\* One flight.
LEMMA FlightCarried ==
    ASSUME NEW s \in Ssl, NEW w \in Wire, NEW again \in BOOLEAN,
           s.pend = 0, Orderly(s, w)
    PROVE  LET r == Flight(s, w, again) IN Carried(s, w, r.ssl, r.wire, 0)
<1> DEFINE r    == Flight(s, w, again)
           fail == [s EXCEPT !.failed = TRUE]
<1> SUFFICES Carried(s, w, r.ssl, r.wire, 0)
  OBVIOUS
<1>0. Carried(s, w, s, w, 0)
  BY SslSame, StayCarried
<1>1. CASE s.failed
  <2>1. r.ssl = fail /\ r.wire = w
    BY <1>1 DEF Flight, LibraryError, Answer
  <2>2. fail \in Ssl /\ fail.got = s.got /\ fail.failed = TRUE /\ fail.pend = 0 /\ 0 \in Nat
    BY DEF Ssl
  <2> HIDE DEF r, fail
  <2>3. Carried(s, w, fail, w, 0)
    BY <2>2, StayCarried
  <2>4. QED
    BY <2>1, <2>3
<1>2. CASE ~s.failed /\ s.hs = 2
  <2>1. r.ssl = s /\ r.wire = w
    BY <1>2 DEF Flight, Done, Answer
  <2> HIDE DEF r
  <2>2. QED
    BY <1>0, <2>1
<1>3. CASE ~s.failed /\ s.hs # 2 /\ (s.hs = 0) = Server
  <2>1. r = ReceiveFlight(s, w, again)
    BY <1>3 DEF Flight
  <2>2. QED
    BY <1>3, <2>1, ReceiveFlightCarried
<1>4. CASE ~s.failed /\ s.hs # 2 /\ (s.hs = 0) # Server
  <2>1. r = SendFlight(s, w)
    BY <1>4 DEF Flight
  <2>2. QED
    BY <1>4, <2>1, SendFlightCarried
<1>5. QED
  BY <1>1, <1>2, <1>3, <1>4

\* SSL_accept or SSL_connect loses no data.
LEMMA HandshakeCarried ==
    ASSUME NEW s \in Ssl, NEW w \in Wire, NEW again \in BOOLEAN,
           s.pend = 0, Orderly(s, w)
    PROVE  LET r == DoHandshake(s, w, again) IN Carried(s, w, r.ssl, r.wire, 0)
<1> DEFINE first  == Flight(s, w, again)
           second == Flight(first.ssl, first.wire, again)
           r      == DoHandshake(s, w, again)
<1>1. first \in Answers /\ SameData(s, first.ssl) /\ Carried(s, w, first.ssl, first.wire, 0)
  BY FlightType, FlightCarried
<1>2. first.ssl \in Ssl /\ first.wire \in Wire /\ first.ssl.pend = 0
  BY <1>1 DEF Answers, SameData
<1>3. r = first \/ r = second
  BY DEF DoHandshake, Continue
<1>4. second \in Answers
  BY <1>2, FlightType
<1>5. second.ssl \in Ssl /\ second.wire \in Wire
  BY <1>4 DEF Answers
<1>6. Orderly(first.ssl, first.wire)
  BY <1>1 DEF Carried
<1>7. Carried(first.ssl, first.wire, second.ssl, second.wire, 0)
  BY <1>2, <1>6, FlightCarried
<1>8. 0 \in Nat /\ 0 + 0 = 0
  OBVIOUS
<1> HIDE DEF first, second, r
<1>9. Carried(s, w, second.ssl, second.wire, 0 + 0)
  BY <1>1, <1>2, <1>5, <1>7, <1>8, CarriedOn
<1>10. QED
  BY <1>1, <1>3, <1>8, <1>9 DEF r

\* What an answer of SSL_read hands over.
Handed(a) == IF a.rc = "NONE" THEN a.n ELSE 0

\* BIO_read loses no data, and answers an end only for close_notify or an end of the
\* connection.
LEMMA SslReadCarried ==
    ASSUME NEW s \in Ssl, NEW w \in Wire, NEW size \in Nat \ {0}, Orderly(s, w)
    PROVE  LET a == SslRead(s, w, size)
           IN  /\ Carried(s, w, a.ssl, a.wire, Handed(a))
               /\ a.rc = "ZERO_RETURN" => a.ssl.got
               /\ (a.rc = "SSL" /\ a.eof) \/ (a.rc = "SYSCALL" /\ a.n = 0) => a.wire.end # "open"
               /\ a.rc # "WANT_CLIENT_HELLO_CB"
<1> DEFINE bio  == BioInput(ReadRaw(w))
           rest == [w EXCEPT !.in = Tail(@)]
           told == [s EXCEPT !.got = TRUE]
           fail == [s EXCEPT !.failed = TRUE]
           a    == SslRead(s, w, size)
           Result(r) ==
               /\ Carried(s, w, r.ssl, r.wire, Handed(r))
               /\ r.rc = "ZERO_RETURN" => r.ssl.got
               /\ (r.rc = "SSL" /\ r.eof) \/ (r.rc = "SYSCALL" /\ r.n = 0) => r.wire.end # "open"
               /\ r.rc # "WANT_CLIENT_HELLO_CB"
<1> SUFFICES Result(a)
  OBVIOUS
<1>1. Carried(s, w, s, w, 0)
  BY SslSame, StayCarried
<1>2. /\ s.pend \in Nat /\ 0 \in Nat
      /\ told \in Ssl /\ told.pend = s.pend /\ told.got = TRUE
      /\ fail \in Ssl /\ fail.pend = s.pend /\ fail.got = s.got /\ fail.failed = TRUE
  BY DEF Ssl
<1>3. /\ rest.in = Tail(w.in) /\ rest.end = w.end /\ rest.peer = w.peer
  BY DEF Wire
<1>4. bio \in BioResult /\ (bio.ret > 0 => w.in # <<>>) /\ bio.ret \in Int
  BY BioInputType DEF BioResult
<1>5. CASE s.pend > 0
  <2> DEFINE n    == Taken(s.pend, size)
             less == [s EXCEPT !.pend = @ - n]
  <2>1. a = Done(less, w, n)
    BY <1>5 DEF SslRead
  <2>2. n \in Nat /\ s.pend - n \in Nat
    BY <1>2 DEF Taken
  <2>3. /\ less \in Ssl /\ less.got = s.got /\ less.failed = s.failed
        /\ less.pend = s.pend - n
    BY <2>2 DEF Ssl
  <2> HIDE DEF a, less, n
  <2>4. a.rc = "NONE" /\ a.n = n /\ a.ssl = less /\ a.wire = w
    BY <2>1 DEF Done, Answer
  <2>5. n + less.pend = s.pend
    BY <1>2, <2>2, <2>3
  <2>6. Carried(s, w, less, w, n)
    BY <2>2, <2>3, <2>5, StayCarried
  <2>7. QED
    BY <2>4, <2>6 DEF Handed
<1>6. CASE ~(s.pend > 0) /\ s.got
  <2>1. a = Answer(s, w, "ZERO_RETURN", 0, "none", FALSE)
    BY <1>6 DEF SslRead
  <2> HIDE DEF a
  <2>2. a.rc = "ZERO_RETURN" /\ a.ssl = s /\ a.wire = w
    BY <2>1 DEF Answer
  <2>3. QED
    BY <1>1, <1>6, <2>2 DEF Handed
<1>7. CASE ~(s.pend > 0) /\ ~s.got /\ s.failed
  <2>1. a = LibraryError(s, w)
    BY <1>7 DEF SslRead
  <2>2. a.rc = "SSL" /\ ~a.eof /\ a.ssl = fail /\ a.wire = w
    BY <2>1 DEF LibraryError, Answer
  <2> HIDE DEF a, fail
  <2>3. Carried(s, w, fail, w, 0)
    BY <1>2, StayCarried
  <2>4. QED
    BY <2>2, <2>3 DEF Handed
<1>8. CASE ~(s.pend > 0) /\ ~s.got /\ ~s.failed /\ bio.ret <= 0
  <2> DEFINE b == Blocked(s, w, bio, "WANT_READ")
  <2>1. a = b
    BY <1>8 DEF SslRead
  <2>2. /\ Carried(s, w, b.ssl, b.wire, 0)
        /\ b.rc # "NONE" /\ b.wire = w
        /\ b.rc = "ZERO_RETURN" => s.got
        /\ b.rc = "SSL" => bio.inEof
        /\ b.rc = "SYSCALL" => b.n = bio.ret
        /\ b.rc # "WANT_CLIENT_HELLO_CB"
    BY <1>4, BlockedType, BlockedCarried
  <2>3. bio.inEof \/ bio.ret = 0 => w.end # "open"
    BY InputEnds
  <2> HIDE DEF a, b, bio
  <2>4. QED
    BY <1>8, <2>1, <2>2, <2>3 DEF Handed
<1>9. CASE ~(s.pend > 0) /\ ~s.got /\ ~s.failed /\ ~(bio.ret <= 0)
  <2>0. w.in # <<>> /\ s.pend = 0
    BY <1>2, <1>4, <1>9
  <2>1. CASE Head(w.in) = "data"
    <3> DEFINE n    == Taken(RecordUnits, size)
               left == RecordUnits - n
               less == [s EXCEPT !.pend = left]
    <3>1. a = Done(less, rest, n)
      BY <1>9, <2>1 DEF SslRead
    <3>2. n \in Nat /\ left \in Nat /\ n + left = RecordUnits /\ RecordUnits \in Nat
      BY EngineAssumption DEF Taken
    <3> HIDE DEF left
    <3>3. less \in Ssl /\ less.got = s.got /\ less.pend = left
      BY <3>2 DEF Ssl
    <3>4. UnitsOf(Head(w.in)) = RecordUnits
      BY <2>1 DEF UnitsOf
    <3> HIDE DEF a, less, n, rest
    <3>5. a.rc = "NONE" /\ a.n = n /\ a.ssl = less /\ a.wire = rest
      BY <3>1 DEF Done, Answer
    <3>6. n + less.pend = s.pend + UnitsOf(Head(w.in))
      BY <2>0, <3>2, <3>3, <3>4
    <3>7. Carried(s, w, less, rest, n)
      BY <1>3, <1>9, <2>0, <3>2, <3>3, <3>6, RecordCarried
    <3>8. QED
      BY <3>5, <3>7 DEF Handed
  <2>2. CASE Head(w.in) = "close_notify"
    <3>1. a = Answer(told, rest, "ZERO_RETURN", 0, "none", FALSE)
      BY <1>9, <2>2 DEF SslRead
    <3> HIDE DEF a, told, rest
    <3>2. a.rc = "ZERO_RETURN" /\ a.ssl = told /\ a.wire = rest
      BY <3>1 DEF Answer
    <3>3. UnitsOf(Head(w.in)) = 0 /\ 0 + told.pend = s.pend + 0 /\ told.pend = 0
      BY <1>2, <2>0, <2>2 DEF UnitsOf
    <3>4. Carried(s, w, told, rest, 0)
      BY <1>2, <1>3, <1>9, <2>0, <2>2, <3>3, RecordCarried
    <3>5. QED
      BY <1>2, <3>2, <3>4 DEF Handed
  <2>3. CASE Head(w.in) \notin {"data", "close_notify"}
    <3>1. a = LibraryError(s, rest)
      BY <1>9, <2>3 DEF SslRead
    <3>2. a.rc = "SSL" /\ ~a.eof /\ a.ssl = fail /\ a.wire = rest
      BY <3>1 DEF LibraryError, Answer
    <3> HIDE DEF a, fail, rest
    <3>3. Carried(s, w, fail, rest, 0)
      BY <1>2, <1>3, <1>9, <2>0, RecordCarried
    <3>4. QED
      BY <3>2, <3>3 DEF Handed
  <2>4. QED
    BY <2>1, <2>2, <2>3
<1>10. QED
  BY <1>2, <1>4, <1>5, <1>6, <1>7, <1>8, <1>9

\* BIO_write leaves the input, and its errors are failures or close_notify.
LEMMA SslWriteCarried ==
    ASSUME NEW s \in Ssl, NEW w \in Wire, Orderly(s, w)
    PROVE  LET a == SslWrite(s, w)
           IN  /\ Carried(s, w, a.ssl, a.wire, 0)
               /\ a.rc = "ZERO_RETURN" => a.ssl.got
               /\ a.rc = "SYSCALL" => a.n # 0
<1> DEFINE bio  == BioOutput(WriteRaw(w))
           less == [w EXCEPT !.room = @ - 1]
           fail == [s EXCEPT !.failed = TRUE]
           sent == [s EXCEPT !.part = FALSE, !.tx = @ + 1]
           kept == [s EXCEPT !.part = TRUE]
           a    == SslWrite(s, w)
<1>1. /\ less.in = w.in /\ less.end = w.end /\ less.peer = w.peer
  BY DEF Wire
<1>2. /\ fail \in Ssl /\ fail.got = s.got /\ fail.failed = TRUE /\ 0 + fail.pend = s.pend
      /\ sent \in Ssl /\ sent.got = s.got /\ sent.failed = s.failed /\ 0 + sent.pend = s.pend
      /\ kept \in Ssl /\ kept.got = s.got /\ kept.failed = s.failed /\ 0 + kept.pend = s.pend
      /\ 0 \in Nat
  <2>1. fail \in Ssl /\ fail.got = s.got /\ fail.failed = TRUE /\ fail.pend = s.pend
    BY DEF Ssl
  <2>2. sent \in Ssl /\ sent.got = s.got /\ sent.failed = s.failed /\ sent.pend = s.pend
    <3> DEFINE mid == [s EXCEPT !.part = FALSE]
    <3>1. mid \in Ssl /\ mid.got = s.got /\ mid.failed = s.failed /\ mid.pend = s.pend
      BY DEF Ssl
    <3>2. sent = [mid EXCEPT !.tx = @ + 1]
      OBVIOUS
    <3> HIDE DEF mid, sent
    <3>3. PICK n \in Nat : sent = [mid EXCEPT !.tx = n]
      BY <3>1, <3>2, SslSame
    <3>4. QED
      BY <3>1, <3>3 DEF Ssl
  <2>3. kept \in Ssl /\ kept.got = s.got /\ kept.failed = s.failed /\ kept.pend = s.pend
    BY DEF Ssl
  <2>4. 0 + s.pend = s.pend
    BY SslSame
  <2> HIDE DEF fail, sent, kept
  <2>5. QED
    BY <2>1, <2>2, <2>3, <2>4
<1>3. bio \in BioResult
  BY BioOutputType
<1>4. CASE s.failed \/ s.sent
  <2>1. a = LibraryError(s, w)
    BY <1>4 DEF SslWrite
  <2>2. a.ssl = fail /\ a.wire = w /\ a.rc = "SSL"
    BY <2>1 DEF LibraryError, Answer
  <2> HIDE DEF a, fail
  <2>3. Carried(s, w, fail, w, 0)
    BY <1>2, StayCarried
  <2>4. QED
    BY <2>2, <2>3 DEF a
<1>5. CASE ~(s.failed \/ s.sent) /\ bio.ret > 0
  <2>1. a = Done(sent, less, 1)
    BY <1>5 DEF SslWrite
  <2> HIDE DEF a, sent, less
  <2>2. a.ssl = sent /\ a.wire = less /\ a.rc = "NONE"
    BY <2>1 DEF Done, Answer
  <2>3. Carried(s, w, sent, less, 0)
    BY <1>1, <1>2, StayCarried
  <2>4. QED
    BY <2>2, <2>3 DEF a
<1>6. CASE ~(s.failed \/ s.sent) /\ ~(bio.ret > 0)
  <2> DEFINE b == Blocked(kept, w, bio, "WANT_WRITE")
  <2>1. a = [b EXCEPT !.n = -1]
    BY <1>6 DEF SslWrite
  <2> HIDE DEF a, kept, bio
  <2>2. Carried(s, w, kept, w, 0)
    BY <1>2, StayCarried
  <2>3. Orderly(kept, w)
    BY <2>2 DEF Carried
  <2>4. b \in Answers
    BY <1>2, <1>3, BlockedType
  <2>5. /\ Carried(kept, w, b.ssl, b.wire, 0) /\ b.ssl.got = s.got
        /\ b.rc = "ZERO_RETURN" => s.got
    BY <1>2, <1>3, <2>3, BlockedCarried
  <2> HIDE DEF b
  <2>6. b.ssl \in Ssl /\ b.wire \in Wire /\ 0 \in Nat /\ 0 + 0 = 0
    BY <2>4 DEF Answers
  <2>7. Carried(s, w, b.ssl, b.wire, 0 + 0)
    BY <1>2, <2>2, <2>5, <2>6, CarriedOn
  <2>8. a.ssl = b.ssl /\ a.wire = b.wire /\ a.rc = b.rc /\ a.n = -1
    BY <2>1, <2>4 DEF Answers
  <2>9. QED
    BY <2>5, <2>6, <2>7, <2>8 DEF a
<1>7. QED
  BY <1>4, <1>5, <1>6

\* No data are decrypted before the handshake is complete.
Fresh(d, s) == Is(d, "INIT") => s.pend = 0

\* TLS_TCL_EOF is raised for close_notify or for an end of the connection, unless
\* the session failed.
EndKept(d, e, t, v) ==
    Is(e, "EOF") => Is(d, "EOF") \/ Is(e, "FATAL_ERROR") \/ t.got \/ v.end # "open"

\* Tls_WaitForConnect loses no data.
LEMMA WaitCarried ==
    ASSUME NEW d \in Drv, NEW s \in Ssl, NEW w \in Wire,
           NEW permanent \in BOOLEAN, NEW again \in BOOLEAN,
           Unfinished(d, s), Fresh(d, s), Orderly(s, w)
    PROVE  LET r == Tls_WaitForConnect(d, s, w, permanent, again)
           IN  Carried(s, w, r.ssl, r.wire, 0) /\ EndKept(d, r.drv, r.ssl, r.wire)
<1> DEFINE r == Tls_WaitForConnect(d, s, w, permanent, again)
           h == DoHandshake(s, w, again)
           failed == Raise(d, {"FATAL_ERROR", "EOF"})
           ended  == Raise(d, {"EOF"})
           done   == [d EXCEPT !.flags = @ \ {"INIT"}]
           wants  == Want(d, h.rc)
           late(ret, err, e) ==
              [ret |-> ret, err |-> err, drv |-> e, ssl |-> h.ssl, wire |-> h.wire, rc |-> h.rc]
<1>1. CASE ~Is(d, "INIT") \/ Is(d, "FATAL_ERROR")
  <2>1. r.drv = d /\ r.ssl = s /\ r.wire = w
    BY <1>1 DEF Tls_WaitForConnect
  <2>2. 0 \in Nat /\ 0 + s.pend = s.pend
    BY SslSame
  <2> HIDE DEF r
  <2>3. Carried(s, w, s, w, 0)
    BY <2>2, StayCarried
  <2>4. QED
    BY <2>1, <2>3 DEF EndKept, r
<1>2. CASE Is(d, "INIT") /\ ~Is(d, "FATAL_ERROR")
  <2>1. r = HandshakeAnswer(d, h)
    BY <1>2 DEF Tls_WaitForConnect
  <2>2. /\ Carried(s, w, h.ssl, h.wire, 0)
        /\ h.rc = "ZERO_RETURN" => h.ssl.got
        /\ h.rc = "SYSCALL" => h.n # 0
    BY <1>2, HandshakeCarried, HandshakeAnswered DEF Unfinished, Fresh
  <2> HIDE DEF h, r
  <2>3. /\ r.ssl = h.ssl /\ r.wire = h.wire
        /\ r.drv \in {failed, ended, done, wants}
        /\ r.drv = ended => h.rc = "ZERO_RETURN" \/ ended \in {failed, done, wants}
    <3>1. CASE h.rc = "NONE"
      <4>1. r = late(1, "none", done)
        BY <2>1, <3>1 DEF HandshakeAnswer
      <4>2. QED
        BY <4>1
    <3>2. CASE h.rc = "SSL"
      <4>1. r = late(-1, "ECONNABORTED", failed)
        BY <2>1, <3>2 DEF HandshakeAnswer
      <4>2. QED
        BY <4>1
    <3>3. CASE h.rc = "SYSCALL"
      <4>1. r = late(-1, Aborted(h.errno), failed)
        BY <2>1, <2>2, <3>3 DEF HandshakeAnswer
      <4>2. QED
        BY <4>1
    <3>4. CASE h.rc = "ZERO_RETURN"
      <4>1. r = late(-1, "ECONNRESET", ended)
        BY <2>1, <3>4 DEF HandshakeAnswer
      <4>2. QED
        BY <3>4, <4>1
    <3>5. CASE h.rc \notin {"NONE", "SSL", "SYSCALL", "ZERO_RETURN"}
      <4>1. r = late(0, "EAGAIN", wants)
        BY <2>1, <3>5 DEF HandshakeAnswer
      <4>2. QED
        BY <4>1
    <3>6. QED
      BY <3>1, <3>2, <3>3, <3>4, <3>5
  <2>4. /\ Is(failed, "FATAL_ERROR")
        /\ Is(done, "EOF") = Is(d, "EOF") /\ Is(wants, "EOF") = Is(d, "EOF")
    <3>1. Is(failed, "FATAL_ERROR")
      BY RaisedFlags
    <3>2. Is(done, "EOF") = Is(d, "EOF")
      BY DEF Is, Drv
    <3>3. wants.flags = d.flags
      BY WantType
    <3>4. QED
      BY <3>1, <3>2, <3>3 DEF Is
  <2> HIDE DEF failed, ended, done, wants
  <2>5. EndKept(d, r.drv, r.ssl, r.wire)
    BY <2>2, <2>3, <2>4 DEF EndKept
  <2>6. QED
    BY <2>2, <2>3, <2>5 DEF r
<1>3. QED
  BY <1>1, <1>2

\* TlsInputProc hands over what it takes from the session and loses nothing else; it
\* answers an end of file only with TLS_TCL_EOF or TLS_TCL_FATAL_ERROR set.
LEMMA InputCarried ==
    ASSUME NEW d \in Drv, NEW s \in Ssl, NEW w \in Wire,
           NEW size \in Nat \ {0}, NEW again \in BOOLEAN,
           Unfinished(d, s), Fresh(d, s), Orderly(s, w)
    PROVE  LET r == TlsInputProc(d, s, w, size, again)
           IN  /\ Carried(s, w, r.ssl, r.wire, Gained(r))
               /\ EndKept(d, r.drv, r.ssl, r.wire)
               /\ Fresh(r.drv, r.ssl)
               /\ r.n = 0 => Is(r.drv, "EOF") \/ Is(r.drv, "FATAL_ERROR")
<1> DEFINE r == TlsInputProc(d, s, w, size, again)
           h == Tls_WaitForConnect(d, s, w, FALSE, again)
           a == SslRead(h.ssl, h.wire, size)
           failed == Raise(h.drv, {"FATAL_ERROR", "EOF"})
           ended  == Raise(h.drv, {"EOF"})
           wants  == Want(h.drv, a.rc)
           Result(q) ==
               /\ Carried(s, w, q.ssl, q.wire, Gained(q))
               /\ EndKept(d, q.drv, q.ssl, q.wire)
               /\ Fresh(q.drv, q.ssl)
               /\ q.n = 0 => Is(q.drv, "EOF") \/ Is(q.drv, "FATAL_ERROR")
<1> SUFFICES Result(r)
  OBVIOUS
<1>1. /\ Waited(d, s, h) /\ Connected(d, w, h)
      /\ Carried(s, w, h.ssl, h.wire, 0) /\ EndKept(d, h.drv, h.ssl, h.wire)
  BY WaitConnected, WaitForConnectType, WaitCarried, CodeFacts
<1>2. /\ h.drv \in Drv /\ h.ssl \in Ssl /\ h.wire \in Wire /\ h.ssl.pend = s.pend
      /\ Is(h.drv, "INIT") => Is(d, "INIT")
      /\ Orderly(h.ssl, h.wire)
  BY <1>1 DEF Waited, SameData, Keeps, Carried
<1>3. /\ Is(failed, "FATAL_ERROR") /\ Is(failed, "INIT") = Is(h.drv, "INIT")
      /\ Is(ended, "EOF") /\ Is(ended, "FATAL_ERROR") = Is(h.drv, "FATAL_ERROR")
      /\ Is(ended, "INIT") = Is(h.drv, "INIT")
  BY <1>2, RaisedFlags
<1>4. CASE Is(d, "FATAL_ERROR") \/ Is(d, "EOF")
  <2>1. r = IoResult(0, "none", d, s, w, "NONE")
    BY <1>4 DEF TlsInputProc
  <2> HIDE DEF r
  <2>2. r.n = 0 /\ r.drv = d /\ r.ssl = s /\ r.wire = w
    BY <2>1 DEF IoResult
  <2>3. Carried(s, w, s, w, 0)
    BY SslSame, StayCarried
  <2>4. QED
    BY <1>4, <2>2, <2>3 DEF Gained, EndKept
<1>5. CASE ~(Is(d, "FATAL_ERROR") \/ Is(d, "EOF")) /\ h.ret = 1
  <2>1. r = InputAnswer(h.drv, a)
    BY <1>5 DEF TlsInputProc
  <2>2. ~Is(h.drv, "INIT") /\ ~Is(h.drv, "EOF")
    BY <1>1, <1>5 DEF Waited, Connected, SameEnd
  <2>3. /\ a \in Answers /\ (a.rc = "NONE" => a.n > 0)
        /\ Carried(h.ssl, h.wire, a.ssl, a.wire, Handed(a))
        /\ a.rc = "ZERO_RETURN" => a.ssl.got
        /\ (a.rc = "SSL" /\ a.eof) \/ (a.rc = "SYSCALL" /\ a.n = 0) => a.wire.end # "open"
        /\ a.rc # "WANT_CLIENT_HELLO_CB"
    BY <1>2, SslReadType, SslReadCarried
  <2>4. a.ssl \in Ssl /\ a.wire \in Wire /\ a.n \in Int /\ a.rc \in Codes
    BY <2>3 DEF Answers
  <2>5. wants.flags = h.drv.flags
    BY <1>2, WantType
  <2> HIDE DEF h, a
  <2> DEFINE io(n, err, e) == IoResult(n, err, e, a.ssl, a.wire, a.rc)
  <2>6. \/ r = io(a.n, "none", h.drv) /\ a.rc = "NONE"
        \/ a.rc # "NONE" /\ r = io(0, "none", ended) /\ (a.ssl.got \/ a.wire.end # "open")
        \/ a.rc # "NONE" /\ \E err, e : r = io(-1, err, e) /\ e \in {failed, wants}
    <3>1. CASE a.rc = "NONE"
      BY <2>1, <3>1 DEF InputAnswer
    <3>2. CASE a.rc = "SSL" /\ a.eof
      <4>1. r = io(0, "none", ended)
        BY <2>1, <3>2 DEF InputAnswer
      <4> HIDE DEF io, failed, wants, ended
      <4>2. QED
        BY <2>3, <3>2, <4>1
    <3>3. CASE a.rc = "SSL" /\ ~a.eof
      <4>1. r = io(-1, "ECONNABORTED", failed)
        BY <2>1, <3>3 DEF InputAnswer
      <4> HIDE DEF io, failed, wants, ended
      <4>2. QED
        BY <3>3, <4>1
    <3>4. CASE a.rc \in {"WANT_READ", "WANT_WRITE"}
      <4>1. r = io(-1, "EAGAIN", wants)
        BY <2>1, <3>4 DEF InputAnswer
      <4> HIDE DEF io, failed, wants, ended
      <4>2. QED
        BY <3>4, <4>1
    <3>5. CASE a.rc = "SYSCALL" /\ a.n = 0
      <4>1. r = io(0, "none", ended)
        BY <2>1, <3>5 DEF InputAnswer
      <4> HIDE DEF io, failed, wants, ended
      <4>2. QED
        BY <2>3, <3>5, <4>1
    <3>6. CASE a.rc = "SYSCALL" /\ a.n # 0
      <4>1. r = io(-1, a.errno, failed)
        BY <2>1, <3>6 DEF InputAnswer
      <4> HIDE DEF io, failed, wants, ended
      <4>2. QED
        BY <3>6, <4>1
    <3>7. CASE a.rc = "ZERO_RETURN"
      <4>1. r = io(0, "none", ended)
        BY <2>1, <3>7 DEF InputAnswer
      <4> HIDE DEF io, failed, wants, ended
      <4>2. QED
        BY <2>3, <3>7, <4>1
    <3> HIDE DEF io, failed, wants, ended
    <3>8. QED
      BY <2>3, <2>4, <3>1, <3>2, <3>3, <3>4, <3>5, <3>6, <3>7 DEF Codes
  <2>7. Is(wants, "INIT") = Is(h.drv, "INIT") /\ Is(wants, "EOF") = Is(h.drv, "EOF")
    BY <2>5 DEF Is
  <2> HIDE DEF r, ended, failed, wants
  <2>8. /\ r.ssl = a.ssl /\ r.wire = a.wire /\ r.drv \in {h.drv, ended, failed, wants}
        /\ r.n = 0 => r.drv = ended
        /\ r.drv = ended => ended \in {failed, wants, h.drv} \/ a.ssl.got \/ a.wire.end # "open"
        /\ Gained(r) = Handed(a)
    <3>1. CASE r = io(a.n, "none", h.drv) /\ a.rc = "NONE"
      <4>1. r.n = a.n /\ r.ssl = a.ssl /\ r.wire = a.wire /\ r.drv = h.drv
        BY <3>1 DEF IoResult
      <4>2. QED
        BY <2>3, <2>4, <3>1, <4>1 DEF Gained, Handed
    <3>2. CASE a.rc # "NONE" /\ r = io(0, "none", ended) /\ (a.ssl.got \/ a.wire.end # "open")
      <4>1. r.n = 0 /\ r.ssl = a.ssl /\ r.wire = a.wire /\ r.drv = ended
        BY <3>2 DEF IoResult
      <4>2. QED
        BY <3>2, <4>1 DEF Gained, Handed
    <3>3. CASE a.rc # "NONE" /\ \E err, e : r = io(-1, err, e) /\ e \in {failed, wants}
      <4>1. PICK err, e : r = io(-1, err, e) /\ e \in {failed, wants}
        BY <3>3
      <4>2. r.n = -1 /\ r.ssl = a.ssl /\ r.wire = a.wire /\ r.drv = e
        BY <4>1 DEF IoResult
      <4>3. QED
        BY <3>3, <4>1, <4>2 DEF Gained, Handed
    <3>4. QED
      BY <2>6, <3>1, <3>2, <3>3
  <2>9. ~Is(r.drv, "INIT")
    BY <1>3, <2>2, <2>7, <2>8
  <2>10. EndKept(d, r.drv, r.ssl, r.wire)
    BY <1>3, <2>2, <2>7, <2>8 DEF EndKept
  <2>11. Handed(a) \in Nat /\ 0 \in Nat /\ 0 + Handed(a) = Handed(a)
    BY <2>3, <2>4 DEF Handed
  <2>12. Carried(s, w, a.ssl, a.wire, 0 + Handed(a))
    BY <1>1, <1>2, <2>3, <2>4, <2>11, CarriedOn
  <2>13. QED
    BY <1>3, <2>8, <2>9, <2>10, <2>11, <2>12 DEF Fresh
<1>6. CASE ~(Is(d, "FATAL_ERROR") \/ Is(d, "EOF")) /\ h.ret # 1
  <2>1. \/ r = IoResult(-1, h.err, h.drv, h.ssl, h.wire, h.rc)
        \/ h.err = "ECONNRESET" /\ r = IoResult(0, "none", ended, h.ssl, h.wire, h.rc)
    BY <1>6 DEF TlsInputProc
  <2>2. h.err = "ECONNRESET" => Is(h.drv, "FATAL_ERROR") \/ h.ssl.got
    BY <1>1, <1>6 DEF Connected
  <2> HIDE DEF r, h, ended
  <2>c. /\ r.ssl = h.ssl /\ r.wire = h.wire
        /\ \/ r.n = -1 /\ r.drv = h.drv
           \/ r.n = 0 /\ r.drv = ended /\ h.err = "ECONNRESET"
    <3>1. CASE r = IoResult(-1, h.err, h.drv, h.ssl, h.wire, h.rc)
      BY <3>1 DEF IoResult
    <3>2. CASE h.err = "ECONNRESET" /\ r = IoResult(0, "none", ended, h.ssl, h.wire, h.rc)
      BY <3>2 DEF IoResult
    <3>3. QED
      BY <2>1, <3>1, <3>2
  <2>3. /\ r.ssl = h.ssl /\ r.wire = h.wire /\ Gained(r) = 0
        /\ r.n = 0 => r.drv = ended
        /\ r.drv = h.drv \/ (r.drv = ended /\ (Is(h.drv, "FATAL_ERROR") \/ h.ssl.got))
    <3>1. r.n \in {-1, 0} /\ ~(r.n > 0) /\ (r.n = 0 => r.drv = ended)
      BY <2>c
    <3>2. r.drv = h.drv \/ (r.drv = ended /\ h.err = "ECONNRESET")
      BY <2>c
    <3>3. QED
      BY <2>2, <2>c, <3>1, <3>2 DEF Gained
  <2>4. EndKept(d, r.drv, r.ssl, r.wire)
    BY <1>1, <1>3, <2>3 DEF EndKept
  <2>5. Fresh(r.drv, r.ssl)
    BY <1>2, <1>3, <2>3 DEF Fresh
  <2>6. QED
    BY <1>1, <1>3, <2>3, <2>4, <2>5
<1>7. QED
  BY <1>4, <1>5, <1>6

\* TlsOutputProc leaves the input.
LEMMA OutputCarried ==
    ASSUME NEW d \in Drv, NEW s \in Ssl, NEW w \in Wire, NEW again \in BOOLEAN,
           Unfinished(d, s), Fresh(d, s), Orderly(s, w)
    PROVE  LET r == TlsOutputProc(d, s, w, again)
           IN  Carried(s, w, r.ssl, r.wire, 0) /\ EndKept(d, r.drv, r.ssl, r.wire)
<1> DEFINE r == TlsOutputProc(d, s, w, again)
           h == Tls_WaitForConnect(d, s, w, TRUE, again)
           a == SslWrite(h.ssl, h.wire)
           failed == Raise(h.drv, {"FATAL_ERROR", "EOF"})
           ended  == Raise(h.drv, {"EOF"})
           wants  == Want(h.drv, a.rc)
           Result(q) == Carried(s, w, q.ssl, q.wire, 0) /\ EndKept(d, q.drv, q.ssl, q.wire)
<1> SUFFICES Result(r)
  OBVIOUS
<1>1. /\ Waited(d, s, h) /\ Connected(d, w, h)
      /\ Carried(s, w, h.ssl, h.wire, 0) /\ EndKept(d, h.drv, h.ssl, h.wire)
  BY WaitConnected, WaitForConnectType, WaitCarried, CodeFacts
<1>2. h.drv \in Drv /\ h.ssl \in Ssl /\ h.wire \in Wire /\ Orderly(h.ssl, h.wire)
  BY <1>1 DEF Waited, Carried
<1>3. /\ Is(failed, "FATAL_ERROR")
      /\ Is(ended, "EOF") /\ Is(ended, "FATAL_ERROR") = Is(h.drv, "FATAL_ERROR")
  BY <1>2, RaisedFlags
<1>4. CASE Is(d, "FATAL_ERROR")
  <2>1. r = IoResult(-1, "ECONNABORTED", d, s, w, "NONE")
    BY <1>4 DEF TlsOutputProc
  <2> HIDE DEF r
  <2>2. r.drv = d /\ r.ssl = s /\ r.wire = w
    BY <2>1 DEF IoResult
  <2>3. Carried(s, w, s, w, 0)
    BY SslSame, StayCarried
  <2>4. QED
    BY <2>2, <2>3 DEF EndKept
<1>5. CASE ~Is(d, "FATAL_ERROR") /\ h.ret = 1
  <2>1. r = OutputAnswer(h.drv, a)
    BY <1>5 DEF TlsOutputProc
  <2>2. Is(h.drv, "EOF") = Is(d, "EOF")
    BY <1>1, <1>5 DEF Connected, SameEnd
  <2>3. /\ a \in Answers /\ Carried(h.ssl, h.wire, a.ssl, a.wire, 0)
        /\ a.rc = "ZERO_RETURN" => a.ssl.got
        /\ a.rc = "SYSCALL" => a.n # 0
    BY <1>2, SslWriteType, SslWriteCarried
  <2>4. a.ssl \in Ssl /\ a.wire \in Wire
    BY <2>3 DEF Answers
  <2>5. wants.flags = h.drv.flags
    BY <1>2, WantType
  <2> HIDE DEF h, a
  <2> DEFINE io(n, err, e) == IoResult(n, err, e, a.ssl, a.wire, a.rc)
  <2>6. \/ \E n, err, e : r = io(n, err, e) /\ e \in {h.drv, failed, wants}
        \/ r = io(0, "none", ended) /\ a.ssl.got
    <3>1. CASE a.rc = "NONE"
      <4>1. r = io(a.n, "none", h.drv)
        BY <2>1, <3>1 DEF OutputAnswer
      <4> HIDE DEF io, failed, wants, ended
      <4>2. QED
        BY <4>1
    <3>2. CASE a.rc = "SSL"
      <4>1. r = io(-1, "ECONNABORTED", failed)
        BY <2>1, <3>2 DEF OutputAnswer
      <4> HIDE DEF io, failed, wants, ended
      <4>2. QED
        BY <4>1
    <3>3. CASE a.rc \in {"WANT_READ", "WANT_WRITE"}
      <4>1. r = io(-1, "EAGAIN", wants)
        BY <2>1, <3>3 DEF OutputAnswer
      <4> HIDE DEF io, failed, wants, ended
      <4>2. QED
        BY <4>1
    <3>4. CASE a.rc = "SYSCALL"
      <4>1. r = io(-1, a.errno, failed)
        BY <2>1, <2>3, <3>4 DEF OutputAnswer
      <4> HIDE DEF io, failed, wants, ended
      <4>2. QED
        BY <4>1
    <3>5. CASE a.rc = "ZERO_RETURN"
      <4>1. r = io(0, "none", ended)
        BY <2>1, <3>5 DEF OutputAnswer
      <4> HIDE DEF io, failed, wants, ended
      <4>2. QED
        BY <2>3, <3>5, <4>1
    <3>6. CASE a.rc \notin {"NONE", "SSL", "WANT_READ", "WANT_WRITE", "SYSCALL", "ZERO_RETURN"}
      <4>1. r = io(0, "none", h.drv)
        BY <2>1, <3>6 DEF OutputAnswer
      <4> HIDE DEF io, failed, wants, ended
      <4>2. QED
        BY <4>1
    <3> HIDE DEF io, failed, wants, ended
    <3>7. QED
      BY <3>1, <3>2, <3>3, <3>4, <3>5, <3>6
  <2>7. Is(wants, "EOF") = Is(h.drv, "EOF")
    BY <2>5 DEF Is
  <2> HIDE DEF r, ended, failed, wants
  <2>8. /\ r.ssl = a.ssl /\ r.wire = a.wire
        /\ r.drv \in {h.drv, failed, wants} \/ (r.drv = ended /\ a.ssl.got)
    <3>1. CASE \E n, err, e : r = io(n, err, e) /\ e \in {h.drv, failed, wants}
      <4>1. PICK n, err, e : r = io(n, err, e) /\ e \in {h.drv, failed, wants}
        BY <3>1
      <4>2. r.ssl = a.ssl /\ r.wire = a.wire /\ r.drv = e
        BY <4>1 DEF IoResult
      <4> HIDE DEF io
      <4>3. QED
        BY <4>1, <4>2
    <3>2. CASE r = io(0, "none", ended) /\ a.ssl.got
      BY <3>2 DEF IoResult
    <3>3. QED
      BY <2>6, <3>1, <3>2
  <2>9. EndKept(d, r.drv, r.ssl, r.wire)
    BY <1>3, <2>2, <2>7, <2>8 DEF EndKept
  <2>10. 0 \in Nat /\ 0 + 0 = 0
    OBVIOUS
  <2>11. Carried(s, w, a.ssl, a.wire, 0 + 0)
    BY <1>1, <1>2, <2>3, <2>4, <2>10, CarriedOn
  <2>12. QED
    BY <2>8, <2>9, <2>10, <2>11
<1>6. CASE ~Is(d, "FATAL_ERROR") /\ h.ret # 1
  <2>1. \/ r = IoResult(-1, h.err, h.drv, h.ssl, h.wire, h.rc)
        \/ h.err = "ECONNRESET" /\ r = IoResult(0, "none", ended, h.ssl, h.wire, h.rc)
    BY <1>6 DEF TlsOutputProc
  <2>2. h.err = "ECONNRESET" => Is(h.drv, "FATAL_ERROR") \/ h.ssl.got
    BY <1>1, <1>6 DEF Connected
  <2> HIDE DEF r, h, ended
  <2>3. /\ r.ssl = h.ssl /\ r.wire = h.wire
        /\ r.drv = h.drv \/ (r.drv = ended /\ (Is(h.drv, "FATAL_ERROR") \/ h.ssl.got))
    <3>1. CASE r = IoResult(-1, h.err, h.drv, h.ssl, h.wire, h.rc)
      <4>1. r.ssl = h.ssl /\ r.wire = h.wire /\ r.drv = h.drv
        BY <3>1 DEF IoResult
      <4>2. QED
        BY <4>1
    <3>2. CASE h.err = "ECONNRESET" /\ r = IoResult(0, "none", ended, h.ssl, h.wire, h.rc)
      <4>1. r.ssl = h.ssl /\ r.wire = h.wire /\ r.drv = ended
        BY <3>2 DEF IoResult
      <4>2. QED
        BY <2>2, <3>2, <4>1
    <3>3. QED
      BY <2>1, <3>1, <3>2
  <2>4. EndKept(d, r.drv, r.ssl, r.wire)
    BY <1>1, <1>3, <2>3 DEF EndKept
  <2>5. QED
    BY <1>1, <2>3, <2>4
<1>7. QED
  BY <1>4, <1>5, <1>6

\* TlsNotifyProc only tries the handshake.
LEMMA NotifyCarried ==
    ASSUME NEW d \in Drv, NEW s \in Ssl, NEW w \in Wire, NEW again \in BOOLEAN,
           NEW k \in Nat, Held(d, k), d.life = "live",
           Unfinished(d, s), Fresh(d, s), Orderly(s, w)
    PROVE  LET r == TlsNotifyProc(d, s, w, again)
           IN  Carried(s, w, r.ssl, r.wire, 0) /\ EndKept(d, r.drv, r.ssl, r.wire)
<1> DEFINE idle == DeleteTimer(d)
           h    == Tls_WaitForConnect(idle, s, w, TRUE, again)
           r    == TlsNotifyProc(d, s, w, again)
<1>1. idle \in Drv /\ SameSession(d, idle)
  BY DeleteTimerType, SameFlagsSession
<1>2. Unfinished(idle, s)
  BY <1>1, SameProceeds
<1>3. r.drv = h.drv /\ r.ssl = h.ssl /\ r.wire = h.wire
  BY DEF TlsNotifyProc
<1> HIDE DEF idle
<1>4. Fresh(idle, s)
  BY <1>1 DEF Fresh, SameSession
<1>5. Carried(s, w, h.ssl, h.wire, 0) /\ EndKept(idle, h.drv, h.ssl, h.wire)
  BY <1>1, <1>2, <1>4, WaitCarried, CodeFacts
<1> HIDE DEF h, r
<1>6. EndKept(d, r.drv, r.ssl, r.wire)
  BY <1>1, <1>3, <1>5 DEF EndKept, SameSession, SameEnd
<1>7. QED
  BY <1>3, <1>5, <1>6 DEF r

-----------------------------------------------------------------------------
(* The invariant of the refinement, and what a step has to show.           *)

\* What the script received, what waits for it in Tcl's buffer, what OpenSSL has
\* decrypted and what the socket holds was sent by the peer.
Arrived == hist.rx + gen.inbuf + ssl.pend + Pending(wire.in) <= hist.sent

\* TLS_TCL_EOF without TLS_TCL_FATAL_ERROR is set only when the peer closed the
\* session or the connection ended.
EndSeen(d, s, w) == Is(d, "EOF") => Is(d, "FATAL_ERROR") \/ s.got \/ w.end # "open"

\* As long as close_notify can still be received or was, and the script has the
\* channel, nothing that the peer sent is missing.
Accounted ==
    gen.open /\ Intact(ssl, wire) =>
        hist.rx + gen.inbuf + ssl.pend + Pending(wire.in) = hist.sent

Settled ==
    /\ Orderly(ssl, wire) /\ Fresh(drv, ssl) /\ EndSeen(drv, ssl, wire)
    /\ Accounted

StreamInv == IInv /\ Unfinished(drv, ssl) /\ Arrived /\ Settled

\* What a step of the channel shows: it keeps the invariant and is a step of the
\* stream.
Refines == Unfinished(drv', ssl') /\ Arrived' /\ Settled' /\ Stream!Next

\* The quantities of a state that satisfies the invariant.
LEMMA StreamFacts ==
    ASSUME IInv
    PROVE  /\ hist.rx \in Nat /\ hist.wr \in Nat /\ hist.lost \in Nat /\ hist.sent \in Nat
           /\ gen.inbuf \in Nat /\ gen.outbuf \in Nat /\ ssl.pend \in Nat /\ ssl.tx \in Nat
           /\ Pending(wire.in) \in Nat
<1>1. hist.sent \in Nat
  BY InvariantFacts DEF Hist
<1>2. Pending(wire.in) \in Nat
  BY InvariantFacts, PendingType DEF Wire
<1>3. QED
  BY <1>1, <1>2, InvariantFacts

\* The flags of the next state.
LEMMA IsPrime == \A f : Is(drv, f)' = Is(drv', f)
  BY DEF Is

\* A step in which the session may be established, end or fail is a step Stop.
LEMMA StopMaps ==
    ASSUME Proceeds(drv, drv'), gen'.open = gen.open, gen'.inbuf = gen.inbuf,
           hist'.sent = hist.sent, hist'.rx = hist.rx, hist'.wr = hist.wr,
           ssl'.tx = ssl.tx,
           \/ hist'.lost = hist.lost
           \/ Is(drv', "FATAL_ERROR") /\ hist'.lost = hist.wr - ssl.tx
    PROVE  Stream!Next
<1>1. Stream!Stop
  BY IsPrime DEF Stream!Stop, Stream!Stages, Stream!Rank, Stream!Established,
                 Proceeds, Keeps
<1>2. QED
  BY <1>1 DEF Stream!Next

\* A step that leaves the data on its way, or loses some of it.
LEMMA ArrivedKept ==
    ASSUME StreamInv, IInv', hist'.sent = hist.sent,
           hist'.rx + gen'.inbuf + ssl'.pend + Pending(wire'.in)
             <= hist.rx + gen.inbuf + ssl.pend + Pending(wire.in)
    PROVE  Arrived'
<1>1. Arrived
  BY DEF StreamInv
<1>2. /\ hist'.rx \in Nat /\ gen'.inbuf \in Nat /\ ssl'.pend \in Nat
      /\ Pending(wire'.in) \in Nat
  <2>1. hist' \in Hist /\ gen' \in Gen /\ ssl' \in Ssl /\ wire' \in Wire
    BY DEF IInv, TypeOK
  <2>2. Pending(wire'.in) \in Nat
    BY <2>1, PendingType DEF Wire
  <2>3. QED
    BY <2>1, <2>2 DEF Hist, Gen, Ssl
<1>3. /\ hist.rx \in Nat /\ gen.inbuf \in Nat /\ ssl.pend \in Nat
      /\ Pending(wire.in) \in Nat /\ hist.sent \in Nat
  BY StreamFacts DEF StreamInv
<1>4. hist'.rx + gen'.inbuf + ssl'.pend + Pending(wire'.in) <= hist'.sent
  BY <1>1, <1>2, <1>3 DEF Arrived
<1>5. QED
  BY <1>4 DEF Arrived, Pending, DataRecords

\* A step in which the session hands over n units and that n moves on to Tcl.
LEMMA SettledKept ==
    ASSUME StreamInv, IInv', NEW n \in Nat, Keeps(drv, drv'),
           Carried(ssl, wire, ssl', wire', n), EndKept(drv, drv', ssl', wire'),
           Fresh(drv', ssl'), hist'.sent = hist.sent,
           gen'.open => gen.open /\ hist'.rx + gen'.inbuf = hist.rx + gen.inbuf + n
    PROVE  Settled'
<1>1. /\ Orderly(ssl, wire) /\ EndSeen(drv, ssl, wire)
      /\ gen.open /\ Intact(ssl, wire) =>
           hist.rx + gen.inbuf + ssl.pend + Pending(wire.in) = hist.sent
  BY DEF StreamInv, Settled, Accounted
<1>2. Orderly(ssl', wire')
  BY DEF Carried
<1>3. EndSeen(drv', ssl', wire')
  BY <1>1 DEF EndSeen, EndKept, Keeps, Carried
<1>4. ASSUME gen'.open, Intact(ssl', wire')
      PROVE  hist'.rx + gen'.inbuf + ssl'.pend + Pending(wire'.in) = hist'.sent
  <2> DEFINE before == Pending(wire.in)
             after  == Pending(wire'.in)
             p == ssl.pend
             q == ssl'.pend
             a == hist.rx
             b == hist'.rx
             k == gen.inbuf
             l == gen'.inbuf
             sent == hist.sent
  <2>1. a \in Nat /\ k \in Nat /\ p \in Nat /\ before \in Nat /\ sent \in Nat
    BY StreamFacts DEF StreamInv
  <2>2. b \in Nat /\ l \in Nat /\ q \in Nat /\ after \in Nat
    <3>1. hist' \in Hist /\ gen' \in Gen /\ ssl' \in Ssl /\ wire' \in Wire
      BY DEF IInv, TypeOK
    <3>2. Pending(wire'.in) \in Nat
      BY <3>1, PendingType DEF Wire
    <3>3. QED
      BY <3>1, <3>2 DEF Hist, Gen, Ssl
  <2>3. Intact(ssl, wire) /\ n + q + after = p + before
    BY <1>4 DEF Carried
  <2>4. a + k + p + before = sent /\ b + l = a + k + n
    BY <1>1, <1>4, <2>3
  <2>5. hist'.sent = sent
    OBVIOUS
  <2> HIDE DEF before, after, p, q, a, b, k, l, sent
  <2>6. b + l + q + after = sent
    BY <2>1, <2>2, <2>3, <2>4
  <2>7. QED
    BY <2>5, <2>6 DEF after, q, b, l
<1>5. /\ Orderly(ssl, wire)' <=> Orderly(ssl', wire')
      /\ Fresh(drv, ssl)' <=> Fresh(drv', ssl')
      /\ EndSeen(drv, ssl, wire)' <=> EndSeen(drv', ssl', wire')
      /\ Accounted' <=> (gen'.open /\ Intact(ssl', wire') =>
           hist'.rx + gen'.inbuf + ssl'.pend + Pending(wire'.in) = hist'.sent)
  BY DEF Orderly, Fresh, EndSeen, Is, Accounted, Intact, Pending, DataRecords
<1>6. QED
  BY <1>2, <1>3, <1>4, <1>5 DEF Settled

\* A step that may establish, end or fail the session and hands over no data.
LEMMA SettledOn ==
    ASSUME StreamInv, IInv', Keeps(drv, drv'), ssl'.pend = ssl.pend,
           Carried(ssl, wire, ssl', wire', 0), EndKept(drv, drv', ssl', wire'),
           gen'.open = gen.open, gen'.inbuf = gen.inbuf,
           hist'.sent = hist.sent, hist'.rx = hist.rx
    PROVE  Settled'
<1>1. Fresh(drv', ssl')
  BY DEF StreamInv, Settled, Fresh, Keeps
<1>2. 0 \in Nat /\ hist'.rx + gen'.inbuf = hist.rx + gen.inbuf + 0
  BY StreamFacts DEF StreamInv
<1>3. QED
  BY <1>1, <1>2, SettledKept

\* A step in which nothing happens to the session.
LEMMA SettledStay ==
    ASSUME StreamInv, IInv', SameSession(drv, drv'),
           ssl'.got = ssl.got, ssl'.failed = ssl.failed, ssl'.pend = ssl.pend, wire' = wire,
           hist'.sent = hist.sent,
           gen'.open => gen.open /\ hist'.rx + gen'.inbuf = hist.rx + gen.inbuf
    PROVE  Settled'
<1>1. Orderly(ssl, wire) /\ Fresh(drv, ssl)
  BY DEF StreamInv, Settled
<1>2. ssl \in Ssl /\ wire \in Wire /\ ssl' \in Ssl /\ 0 \in Nat
  BY InvariantFacts DEF StreamInv, IInv, TypeOK
<1>3. 0 + ssl'.pend = ssl.pend
  BY <1>2, SslSame
<1>4. Carried(ssl, wire, ssl', wire', 0)
  BY <1>1, <1>2, <1>3, StayCarried
<1>5. /\ Keeps(drv, drv') /\ Fresh(drv', ssl') /\ EndKept(drv, drv', ssl', wire')
  BY <1>1 DEF SameSession, SameEnd, Keeps, Fresh, EndKept
<1>6. hist.rx + gen.inbuf + 0 = hist.rx + gen.inbuf
  BY StreamFacts DEF StreamInv
<1>7. QED
  BY <1>2, <1>4, <1>5, <1>6, SettledKept

\* What a handler, a watch procedure or a close makes of the structure afterwards does
\* not end the session.
LEMMA EndKeptOn ==
    ASSUME NEW d, NEW e, NEW f, NEW s, NEW t, NEW w,
           EndKept(d, e, s, w), SameSession(e, f), t.got = s.got
    PROVE  EndKept(d, f, t, w)
  BY DEF EndKept, SameSession, SameEnd

\* What Tcl's generic layer does to the rest of the channel does not touch the end
\* that a read reported.
LEMMA EofFields ==
    ASSUME NEW g \in Gen
    PROVE  /\ Armed(g).eof = g.eof /\ Abandoned(g).eof = g.eof
           /\ \A b \in BOOLEAN : /\ [g EXCEPT !.flush = b].eof = g.eof
                                 /\ [g EXCEPT !.bg = b].eof = g.eof
                                 /\ [g EXCEPT !.gtimer = b].eof = g.eof
                                 /\ [g EXCEPT !.plain = b].eof = g.eof
           /\ \A n \in Nat : /\ [g EXCEPT !.inbuf = n].eof = g.eof
                             /\ [g EXCEPT !.outbuf = n].eof = g.eof
           /\ \A mask : [g EXCEPT !.interest = mask].eof = g.eof
<1>1. Armed(g).eof = g.eof
  BY DEF Armed, Gen
<1>2. Abandoned(g).eof = g.eof
  BY DEF Abandoned, Gen
<1>3. QED
  BY <1>1, <1>2 DEF Gen

-----------------------------------------------------------------------------
(* Each action is a step of the stream.                                    *)

\* A step that leaves the session and the data alone.
LEMMA QuietMaps ==
    ASSUME StreamInv, IInv', SameSession(drv, drv'),
           ssl'.hs = ssl.hs, ssl'.got = ssl.got, ssl'.pend = ssl.pend, ssl'.tx = ssl.tx,
           Pending(wire'.in) <= Pending(wire.in), Pending(wire'.in) \in Nat,
           gen'.open = gen.open, gen'.inbuf = gen.inbuf,
           hist'.sent = hist.sent, hist'.rx = hist.rx, hist'.wr = hist.wr,
           hist'.lost = hist.lost, Settled'
    PROVE  Refines
<1>1. Unfinished(drv', ssl') /\ Proceeds(drv, drv')
  BY SameProceeds DEF StreamInv
<1>2. Arrived'
  BY StreamFacts, ArrivedKept DEF StreamInv
<1>3. Stream!Next
  BY <1>1, StopMaps
<1>4. QED
  BY <1>1, <1>2, <1>3 DEF Refines

\* A read that the buffer serves is a step Take.
LEMMA ReadBufferedMaps ==
    ASSUME StreamInv, IInv', ReadBuffered
    PROVE  Refines
<1> DEFINE g == [gen EXCEPT !.inbuf = @ - 1]
<1>0. IInv
  BY DEF StreamInv
<1>1. /\ gen.open /\ gen.inbuf > 0
      /\ gen' = Armed(g) /\ drv' = Watched(drv, g)
      /\ hist' = [hist EXCEPT !.rx = @ + 1]
      /\ ssl' = ssl /\ wire' = wire
  BY DEF ReadBuffered, ScriptRuns
<1>a. gen.inbuf - 1 \in Nat
  BY <1>0, <1>1, InvariantFacts
<1>2. g \in Gen /\ g.open = gen.open /\ g.inbuf = gen.inbuf - 1
  BY <1>0, <1>a, InvariantFacts, InbufSet
<1> HIDE DEF g
<1>3. gen'.open = gen.open /\ gen'.inbuf = gen.inbuf - 1
  BY <1>1, <1>2, ArmedType
<1>4. SameSession(drv, drv')
  BY <1>0, <1>1, <1>2, InvariantFacts, WatchedType, SameFlagsSession
<1>5. /\ hist'.rx = hist.rx + 1 /\ hist'.sent = hist.sent /\ hist'.wr = hist.wr
      /\ hist'.lost = hist.lost
  BY <1>0, <1>1, InvariantFacts DEF Hist
<1>6. Unfinished(drv', ssl')
  BY <1>1, <1>4, SameProceeds DEF StreamInv
<1>7. hist'.rx + gen'.inbuf + ssl'.pend + Pending(wire'.in)
        <= hist.rx + gen.inbuf + ssl.pend + Pending(wire.in)
  BY <1>0, <1>1, <1>3, <1>5, StreamFacts
<1>8. Arrived'
  BY <1>5, <1>7, ArrivedKept
<1>9. Stream!Take
  BY <1>1, <1>3, <1>4, <1>5, IsPrime DEF Stream!Take, SameSession, SameEnd
<1>10. Settled'
  <2>1. hist.rx \in Nat /\ gen.inbuf \in Nat
    BY <1>0, StreamFacts
  <2>2. hist'.rx + gen'.inbuf = hist.rx + gen.inbuf
    BY <1>3, <1>5, <2>1
  <2>3. QED
    BY <1>1, <1>4, <1>5, <2>2, SettledStay
<1>11. QED
  BY <1>6, <1>8, <1>9, <1>10 DEF Refines, Stream!Next

\* A read through TlsInputProc is a step Input if it got something, and TLS_TCL_EOF or
\* TLS_TCL_FATAL_ERROR is set when it reports an end.
LEMMA ReadDriverMaps ==
    ASSUME StreamInv, IInv', ReadDriver
    PROVE  /\ Refines
           /\ gen'.eof => gen.eof \/ Is(drv', "EOF") \/ Is(drv', "FATAL_ERROR")
<1>0. IInv
  BY DEF StreamInv
<1>1. \E size \in 1..RecordUnits, again \in Again :
        \E r \in {TlsInputProc(drv, ssl, wire, size, again)} :
          LET g == [gen EXCEPT !.inbuf = IF r.n > 0 THEN r.n - 1 ELSE 0,
                               !.eof = @ \/ r.n = 0]
          IN  /\ gen' = Armed(g)
              /\ drv' = Watched(r.drv, g)
              /\ ssl' = r.ssl
              /\ wire' = r.wire
              /\ hist' = [hist EXCEPT !.rx = IF r.n > 0 THEN @ + 1 ELSE @]
  BY ZenonT(60) DEF ReadDriver
<1>2. PICK size \in 1..RecordUnits, again \in Again :
        \E r \in {TlsInputProc(drv, ssl, wire, size, again)} :
          LET g == [gen EXCEPT !.inbuf = IF r.n > 0 THEN r.n - 1 ELSE 0,
                               !.eof = @ \/ r.n = 0]
          IN  /\ gen' = Armed(g)
              /\ drv' = Watched(r.drv, g)
              /\ ssl' = r.ssl
              /\ wire' = r.wire
              /\ hist' = [hist EXCEPT !.rx = IF r.n > 0 THEN @ + 1 ELSE @]
  BY <1>1, ZenonT(60)
<1> DEFINE r == TlsInputProc(drv, ssl, wire, size, again)
           n == IF r.n > 0 THEN r.n - 1 ELSE 0
           m == IF r.n > 0 THEN hist.rx + 1 ELSE hist.rx
           h == [gen EXCEPT !.inbuf = n]
           g == [h EXCEPT !.eof = @ \/ r.n = 0]
<1>3. /\ gen' = Armed(g) /\ drv' = Watched(r.drv, g)
      /\ ssl' = r.ssl /\ wire' = r.wire /\ hist' = [hist EXCEPT !.rx = m]
  BY <1>2
<1>a. size \in Nat \ {0}
  <2>1. RecordUnits \in Nat /\ size \in 1..RecordUnits
    BY <1>2, EngineAssumption
  <2>2. QED
    BY <2>1
<1>4. again \in BOOLEAN /\ gen.open /\ gen.inbuf = 0
  BY <1>2, AgainType DEF ReadDriver, ScriptRuns
<1>5. Moved(drv, ssl, r) /\ r.ssl.tx = ssl.tx /\ (r.n > 0 => ~Is(r.drv, "INIT"))
  BY <1>0, <1>4, <1>a, InvariantFacts, InputProcType
<1>6. /\ Unfinished(r.drv, r.ssl) /\ Proceeds(drv, r.drv)
      /\ Gained(r) + r.ssl.pend + Pending(r.wire.in) <= ssl.pend + Pending(wire.in)
      /\ r.n > 0 => ~Is(drv, "FATAL_ERROR") /\ ~Is(drv, "EOF") /\ SameEnd(drv, r.drv)
  BY <1>0, <1>4, <1>a, InvariantFacts, InputProceeds DEF StreamInv
<1>e. /\ Carried(ssl, wire, r.ssl, r.wire, Gained(r))
      /\ EndKept(drv, r.drv, r.ssl, r.wire) /\ Fresh(r.drv, r.ssl)
      /\ r.n = 0 => Is(r.drv, "EOF") \/ Is(r.drv, "FATAL_ERROR")
  BY <1>0, <1>4, <1>a, InvariantFacts, InputCarried DEF StreamInv, Settled
<1> HIDE DEF r
<1>b. r.n \in Int /\ r.wire \in Wire /\ r.ssl \in Ssl
  BY <1>5 DEF Moved
<1>7. n \in Nat /\ m \in Nat /\ m + n = hist.rx + Gained(r)
  <2>1. hist.rx \in Nat
    BY <1>0, InvariantFacts
  <2>2. CASE r.n > 0
    <3>1. n = r.n - 1 /\ m = hist.rx + 1 /\ Gained(r) = r.n
      BY <2>2 DEF Gained
    <3> HIDE DEF n, m
    <3>2. QED
      BY <1>b, <2>1, <2>2, <3>1
  <2>3. CASE ~(r.n > 0)
    <3>1. n = 0 /\ m = hist.rx /\ Gained(r) = 0
      BY <2>3 DEF Gained
    <3> HIDE DEF n, m
    <3>2. QED
      BY <2>1, <3>1
  <2>4. QED
    BY <2>2, <2>3
<1>c. r.n > 0 => m = hist.rx + 1
  OBVIOUS
<1>d. ~(r.n > 0) => m = hist.rx /\ n = 0
  OBVIOUS
<1> HIDE DEF n, m
<1>8. h \in Gen /\ h.open = gen.open /\ h.inbuf = n /\ h.eof = gen.eof
  BY <1>0, <1>7, InvariantFacts, InbufSet, EofFields
<1> HIDE DEF h
<1>9. g \in Gen /\ g.open = gen.open /\ g.inbuf = n
  <2>1. PICK b \in BOOLEAN : g = [h EXCEPT !.eof = b]
    OBVIOUS
  <2>2. QED
    BY <1>8, <2>1, EofSet
<1>h. g.eof => gen.eof \/ r.n = 0
  BY <1>8 DEF Gen
<1> HIDE DEF g
<1>10. gen'.open = gen.open /\ gen'.inbuf = n
  BY <1>3, <1>9, ArmedType
<1>11. SameSession(r.drv, drv')
  <2>1. r.drv \in Drv /\ Held(r.drv, Running) /\ Alive(r.drv, Running)
    BY <1>0, <1>5, InvariantFacts DEF Moved, Holds, Held, Alive
  <2>2. QED
    BY <1>0, <1>3, <1>9, <2>1, InvariantFacts, WatchedType, SameFlagsSession
<1>12. /\ hist'.rx = m /\ hist'.sent = hist.sent /\ hist'.wr = hist.wr
       /\ hist'.lost = hist.lost
  BY <1>0, <1>3, <1>7, InvariantFacts DEF Hist
<1>13. Unfinished(drv', ssl') /\ Proceeds(drv, drv')
  BY <1>3, <1>6, <1>11, SameProceeds, ProceedsOn
<1>14. r.ssl.pend \in Nat /\ Pending(r.wire.in) \in Nat /\ Gained(r) \in Nat
  BY <1>b, SslSame, PendingType DEF Wire, Gained
<1>15. hist'.rx + gen'.inbuf + ssl'.pend + Pending(wire'.in)
         <= hist.rx + gen.inbuf + ssl.pend + Pending(wire.in)
  <2>1. ssl'.pend = r.ssl.pend /\ Pending(wire'.in) = Pending(r.wire.in)
    BY <1>3
  <2>2. hist'.rx + gen'.inbuf = hist.rx + Gained(r)
    BY <1>7, <1>10, <1>12
  <2> HIDE DEF r
  <2>3. QED
    BY <1>0, <1>4, <1>6, <1>7, <1>10, <1>12, <1>14, <2>1, <2>2, StreamFacts
<1>16. Arrived'
  BY <1>12, <1>15, ArrivedKept
<1>f. Settled'
  <2>1. EndKept(drv, drv', ssl', wire')
    BY <1>3, <1>e, <1>11, EndKeptOn
  <2>2. Fresh(drv', ssl') /\ Keeps(drv, drv')
    BY <1>3, <1>e, <1>11, <1>13 DEF Fresh, SameSession, Proceeds
  <2>3. hist'.rx + gen'.inbuf = hist.rx + Gained(r)
    BY <1>7, <1>10, <1>12
  <2>4. hist.rx + gen.inbuf + Gained(r) = hist.rx + Gained(r)
    BY <1>0, <1>4, <1>14, StreamFacts
  <2>5. QED
    BY <1>3, <1>4, <1>e, <1>12, <1>14, <2>1, <2>2, <2>3, <2>4, SettledKept
<1>g. gen'.eof => gen.eof \/ Is(drv', "EOF") \/ Is(drv', "FATAL_ERROR")
  BY <1>3, <1>e, <1>9, <1>h, <1>11, EofFields DEF SameSession, SameEnd
<1>17. CASE r.n > 0
  <2>1. hist'.rx + gen'.inbuf <= hist.sent
    <3>1. Arrived
      BY DEF StreamInv
    <3>2. hist'.rx + gen'.inbuf = hist.rx + Gained(r)
      BY <1>7, <1>10, <1>12
    <3>3. QED
      BY <1>0, <1>4, <1>6, <1>14, <3>1, <3>2, StreamFacts DEF Arrived
  <2>2. /\ ~Is(drv, "FATAL_ERROR") /\ ~Is(drv, "EOF") /\ ~Is(drv', "INIT")
        /\ ~Is(drv', "FATAL_ERROR") /\ ~Is(drv', "EOF")
    BY <1>5, <1>6, <1>11, <1>17 DEF SameSession, SameEnd
  <2>3. hist'.rx = hist.rx + 1 /\ gen'.inbuf >= 0 /\ ssl'.tx = ssl.tx
    BY <1>3, <1>5, <1>7, <1>10, <1>12, <1>17, <1>c
  <2>4. Stream!Input
    BY <1>4, <1>10, <1>12, <2>1, <2>2, <2>3, IsPrime DEF Stream!Input
  <2>5. QED
    BY <1>13, <1>16, <1>f, <1>g, <2>4 DEF Refines, Stream!Next
<1>18. CASE ~(r.n > 0)
  <2>1. gen'.inbuf = gen.inbuf /\ hist'.rx = hist.rx /\ ssl'.tx = ssl.tx
    BY <1>3, <1>4, <1>5, <1>10, <1>12, <1>18, <1>d
  <2>2. Stream!Next
    BY <1>10, <1>12, <1>13, <2>1, StopMaps
  <2>3. QED
    BY <1>13, <1>16, <1>f, <1>g, <2>2 DEF Refines
<1>19. QED
  BY <1>g, <1>17, <1>18

\* puts is a step Accept.
LEMMA WriteMaps ==
    ASSUME StreamInv, IInv', Write
    PROVE  Refines
<1>0. IInv
  BY DEF StreamInv
<1>1. /\ gen.open
      /\ gen' = [gen EXCEPT !.outbuf = @ + 1, !.flush = ~gen.bg]
      /\ hist' = [hist EXCEPT !.wr = @ + 1]
      /\ drv' = drv /\ ssl' = ssl /\ wire' = wire
  BY DEF Write, ScriptRuns
<1>2. gen'.open = gen.open /\ gen'.inbuf = gen.inbuf
  BY <1>0, <1>1, InvariantFacts DEF Gen
<1>3. /\ hist'.rx = hist.rx /\ hist'.sent = hist.sent /\ hist'.wr = hist.wr + 1
      /\ hist'.lost = hist.lost
  BY <1>0, <1>1, InvariantFacts DEF Hist
<1>4. Unfinished(drv', ssl')
  BY <1>1 DEF StreamInv
<1>5. Arrived'
  BY <1>0, <1>1, <1>2, <1>3, StreamFacts, ArrivedKept
<1>6. Stream!Accept
  BY <1>1, <1>2, <1>3, IsPrime DEF Stream!Accept
<1>7. Settled'
  <2>1. SameSession(drv, drv')
    BY <1>1 DEF SameSession, SameEnd
  <2>2. QED
    BY <1>1, <1>2, <1>3, <2>1, SettledStay
<1>8. QED
  BY <1>4, <1>5, <1>6, <1>7 DEF Refines, Stream!Next


\* A step that may establish, end or fail the session and leaves the data alone.
LEMMA SessionMaps ==
    ASSUME StreamInv, IInv', Unfinished(drv', ssl'), Proceeds(drv, drv'),
           Carried(ssl, wire, ssl', wire', 0), EndKept(drv, drv', ssl', wire'),
           ssl'.pend = ssl.pend, ssl'.tx = ssl.tx, Pending(wire'.in) <= Pending(wire.in),
           gen'.open = gen.open, gen'.inbuf = gen.inbuf,
           hist'.sent = hist.sent, hist'.rx = hist.rx, hist'.wr = hist.wr,
           \/ hist'.lost = hist.lost
           \/ Is(drv', "FATAL_ERROR") /\ hist'.lost = hist.wr - ssl.tx
    PROVE  Refines
<1>1. wire' \in Wire /\ Pending(wire'.in) \in Nat
  <2>1. wire' \in Wire
    BY DEF IInv, TypeOK
  <2>2. QED
    BY <2>1, PendingType DEF Wire
<1>2. hist'.rx + gen'.inbuf + ssl'.pend + Pending(wire'.in)
        <= hist.rx + gen.inbuf + ssl.pend + Pending(wire.in)
  BY <1>1, StreamFacts DEF StreamInv
<1>3. Arrived'
  BY <1>2, ArrivedKept
<1>4. Stream!Next
  BY StopMaps
<1>5. Settled'
  BY SettledOn DEF Proceeds
<1>6. QED
  BY <1>3, <1>4, <1>5 DEF Refines

\* A step in which only the watching, the timer or the handlers change.
LEMMA StillMaps ==
    ASSUME StreamInv, IInv', SameSession(drv, drv'),
           ssl'.hs = ssl.hs, ssl'.got = ssl.got, ssl'.pend = ssl.pend, ssl'.tx = ssl.tx,
           ssl'.failed = ssl.failed,
           wire' = wire, gen'.open = gen.open, gen'.inbuf = gen.inbuf, hist' = hist
    PROVE  Refines
<1>1. Pending(wire'.in) <= Pending(wire.in) /\ Pending(wire'.in) \in Nat
  BY StreamFacts DEF StreamInv
<1>2. Settled'
  BY SettledStay
<1>3. QED
  BY <1>1, <1>2, QuietMaps

\* fileevent: TlsWatchProc.
LEMMA FileeventMaps ==
    ASSUME StreamInv, IInv', Fileevent
    PROVE  Refines
<1>0. IInv
  BY DEF StreamInv
<1>1. PICK mask \in Interests :
        /\ gen' = Armed([gen EXCEPT !.interest = mask])
        /\ drv' = Watched(drv, [gen EXCEPT !.interest = mask])
  BY DEF Fileevent
<1>2. /\ ssl' = ssl /\ wire' = wire /\ hist' = hist
  BY DEF Fileevent
<1> DEFINE g == [gen EXCEPT !.interest = mask]
<1>3. g \in Gen /\ g.open = gen.open /\ g.inbuf = gen.inbuf
  BY <1>0, InvariantFacts, ChannelAssumption DEF Gen
<1> HIDE DEF g
<1>4. gen'.open = gen.open /\ gen'.inbuf = gen.inbuf
  BY <1>1, <1>3, ArmedType DEF g
<1>5. SameSession(drv, drv')
  BY <1>0, <1>1, <1>3, InvariantFacts, WatchedType, SameFlagsSession DEF g
<1>6. QED
  BY <1>2, <1>4, <1>5, StillMaps

\* fconfigure -blocking: TlsBlockModeProc.
LEMMA FconfigureMaps ==
    ASSUME StreamInv, IInv', Fconfigure
    PROVE  Refines
<1>1. PICK async \in Modes : drv' = TlsBlockModeProc(drv, async)
  BY DEF Fconfigure
<1>2. ssl' = ssl /\ wire' = wire /\ gen' = gen /\ hist' = hist
  BY DEF Fconfigure
<1>3. drv \in Drv
  BY InvariantFacts DEF StreamInv
<1>4. SameSession(drv, drv')
  BY <1>1, <1>3 DEF TlsBlockModeProc, SameSession, SameEnd, Is, Drv
<1>5. QED
  BY <1>2, <1>4, StillMaps

\* tls::handshake: Tls_WaitForConnect.
LEMMA HandshakeMaps ==
    ASSUME StreamInv, IInv', Handshake
    PROVE  Refines
<1>0. IInv /\ Unfinished(drv, ssl)
  BY DEF StreamInv
<1>1. PICK again \in Again :
        \E h \in {Tls_WaitForConnect(drv, ssl, wire, TRUE, again)} :
          /\ drv' = h.drv /\ ssl' = h.ssl /\ wire' = h.wire
          /\ hist' = [hist EXCEPT !.ok = @ \/ (Is(drv, "ASYNC") /\ HandshakeResult(drv, h) = "1")]
  BY DEF Handshake
<1>2. gen' = gen
  BY DEF Handshake
<1> DEFINE h == Tls_WaitForConnect(drv, ssl, wire, TRUE, again)
<1>3. drv' = h.drv /\ ssl' = h.ssl /\ wire' = h.wire
  BY <1>1
<1>4. /\ hist'.rx = hist.rx /\ hist'.wr = hist.wr
      /\ hist'.lost = hist.lost /\ hist'.sent = hist.sent
  <2>1. PICK b \in BOOLEAN : hist' = [hist EXCEPT !.ok = b]
    BY <1>1
  <2>2. QED
    BY <1>0, <2>1, InvariantFacts DEF Hist
<1>5. Waited(drv, ssl, h) /\ Connected(drv, wire, h)
  BY <1>0, <1>1, AgainType, InvariantFacts, WaitForConnectType, WaitConnected
<1>a. Carried(ssl, wire, h.ssl, h.wire, 0) /\ EndKept(drv, h.drv, h.ssl, h.wire)
  BY <1>0, <1>1, AgainType, InvariantFacts, WaitCarried DEF StreamInv, Settled
<1> HIDE DEF h
<1>6. /\ Unfinished(drv', ssl') /\ Proceeds(drv, drv')
      /\ Pending(wire'.in) <= Pending(wire.in)
      /\ ssl'.tx = ssl.tx /\ ssl'.pend = ssl.pend
  BY <1>3, <1>5 DEF Waited, SameData, Connected
<1>7. QED
  BY <1>2, <1>3, <1>a, <1>4, <1>6, SessionMaps

\* The channel is given up by its script: a step Close.
LEMMA ClosedMaps ==
    ASSUME StreamInv, IInv', SameSession(drv, drv'),
           ssl'.hs = ssl.hs, ssl'.got = ssl.got, ssl'.pend = ssl.pend, ssl'.tx = ssl.tx,
           ssl'.failed = ssl.failed,
           wire' = wire, gen'.open = FALSE, gen'.inbuf = 0, hist' = hist
    PROVE  Refines
<1>1. Unfinished(drv', ssl')
  BY SameProceeds DEF StreamInv
<1>2. hist'.rx + gen'.inbuf + ssl'.pend + Pending(wire'.in)
        <= hist.rx + gen.inbuf + ssl.pend + Pending(wire.in)
  BY StreamFacts DEF StreamInv
<1>3. Arrived'
  BY <1>2, ArrivedKept
<1>4. Stream!Close
  BY IsPrime DEF Stream!Close, SameSession, SameEnd
<1>5. Settled'
  BY SettledStay
<1>6. QED
  BY <1>1, <1>3, <1>4, <1>5 DEF Refines, Stream!Next

\* close.
LEMMA CloseMaps ==
    ASSUME StreamInv, IInv', Close
    PROVE  Refines
<1> DEFINE g == Abandoned(gen)
           d == Watched(drv, g)
           c == TlsCloseProc(d, ssl)
<1>0. IInv
  BY DEF StreamInv
<1>1. /\ gen.open /\ ~gen.flush /\ wire' = wire /\ hist' = hist
      /\ IF gen.outbuf = 0
         THEN gen' = g /\ drv' = c.drv /\ ssl' = c.ssl
         ELSE gen' = [g EXCEPT !.flush = ~gen.bg] /\ drv' = d /\ ssl' = ssl
  BY DEF Close, ScriptRuns
<1>2. g \in Gen /\ g.open = FALSE /\ g.inbuf = 0
  BY <1>0, InvariantFacts, AbandonedType
<1> HIDE DEF g
<1>3. /\ d \in Drv /\ SameFlags(drv, d) /\ Held(d, Running) /\ d.life = drv.life
  BY <1>0, <1>2, InvariantFacts, WatchedType
<1> HIDE DEF d
<1>4. drv.life = "live"
  BY <1>0, <1>1 DEF IInv, InUse
<1>5. SameSession(drv, d)
  BY <1>3, SameFlagsSession
<1>6. CASE gen.outbuf = 0
  <2>1. gen' = g /\ drv' = c.drv /\ ssl' = c.ssl
    BY <1>1, <1>6
  <2>2. /\ c.ssl.hs = ssl.hs /\ c.ssl.pend = ssl.pend /\ c.ssl.tx = ssl.tx
    BY <1>0, <1>3, <1>4, InvariantFacts, CloseProcType
  <2>3. SameSession(d, c.drv) /\ c.ssl.got = ssl.got /\ c.ssl.failed = ssl.failed
    BY <1>0, <1>3, <1>4, InvariantFacts, CloseKept
  <2> HIDE DEF c
  <2>4. SameSession(drv, drv')
    BY <1>5, <2>1, <2>3 DEF SameSession, SameEnd
  <2>5. QED
    BY <1>1, <1>2, <2>1, <2>2, <2>3, <2>4, ClosedMaps
<1>7. CASE gen.outbuf # 0
  <2>1. drv' = d /\ ssl' = ssl
    BY <1>1, <1>7
  <2>2. PICK b \in BOOLEAN : gen' = [g EXCEPT !.flush = b]
    BY <1>1, <1>7
  <2>3. gen'.open = FALSE /\ gen'.inbuf = 0
    BY <1>2, <2>2, FlushSet
  <2>4. QED
    BY <1>1, <1>5, <2>1, <2>3, ClosedMaps
<1>8. QED
  BY <1>6, <1>7

\* tls::unimport: TlsCloseProc.
LEMMA UnimportMaps ==
    ASSUME StreamInv, IInv', Unimport
    PROVE  Refines
<1> DEFINE g == Abandoned(gen)
           c == TlsCloseProc(drv, ssl)
<1>0. IInv
  BY DEF StreamInv
<1>1. /\ gen.open /\ wire' = wire /\ hist' = hist
      /\ gen' = [g EXCEPT !.plain = TRUE] /\ drv' = c.drv /\ ssl' = c.ssl
  BY DEF Unimport, ScriptRuns
<1>2. g \in Gen /\ g.open = FALSE /\ g.inbuf = 0
  BY <1>0, InvariantFacts, AbandonedType
<1> HIDE DEF g
<1>3. gen'.open = FALSE /\ gen'.inbuf = 0
  BY <1>1, <1>2 DEF Gen
<1>4. drv.life = "live"
  BY <1>0, <1>1 DEF IInv, InUse
<1>5. c.ssl.hs = ssl.hs /\ c.ssl.pend = ssl.pend /\ c.ssl.tx = ssl.tx
  BY <1>0, <1>4, InvariantFacts, CloseProcType
<1>6. SameSession(drv, c.drv) /\ c.ssl.got = ssl.got /\ c.ssl.failed = ssl.failed
  BY <1>0, <1>4, InvariantFacts, CloseKept
<1> HIDE DEF c
<1>7. QED
  BY <1>1, <1>3, <1>5, <1>6, ClosedMaps

\* The end of FlushChannel, with TlsCloseProc for a channel its script closed.
LEMMA FlushedKept ==
    ASSUME IInv, NEW g \in Gen, NEW d \in Drv, NEW s \in Ssl,
           Held(d, Running), d.life = "live", Flushed(g, d, s)
    PROVE  /\ SameSession(d, drv')
           /\ ssl'.hs = s.hs /\ ssl'.got = s.got /\ ssl'.pend = s.pend /\ ssl'.tx = s.tx
           /\ ssl'.failed = s.failed
           /\ gen'.open = g.open /\ gen'.inbuf = g.inbuf
<1> DEFINE h == [g EXCEPT !.flush = FALSE]
           e == IF g.bg THEN TlsWatchProc(d, g.interest) ELSE d
           c == TlsCloseProc(e, s)
<1>1. gen' = [h EXCEPT !.bg = FALSE]
  BY DEF Flushed
<1>2. /\ drv' = IF g.open THEN e ELSE c.drv
      /\ ssl' = IF g.open THEN s ELSE c.ssl
  BY DEF Flushed
<1>3. h \in Gen /\ h.open = g.open /\ h.inbuf = g.inbuf
  BY FlushSet
<1> HIDE DEF h
<1>4. gen'.open = g.open /\ gen'.inbuf = g.inbuf
  BY <1>1, <1>3, BgSet
<1>5. e \in Drv /\ SameFlags(d, e) /\ Held(e, Running) /\ e.life = "live"
  <2>1. g.interest \in SUBSET Direction
    BY DEF Gen
  <2>2. CASE g.bg
    BY <2>1, <2>2, InvariantFacts, WatchProcType
  <2>3. CASE ~g.bg
    BY <2>3 DEF SameFlags
  <2>4. QED
    BY <2>2, <2>3
<1> HIDE DEF e
<1>6. SameSession(d, e)
  BY <1>5, SameFlagsSession
<1>7. CASE g.open
  BY <1>2, <1>4, <1>6, <1>7
<1>8. CASE ~g.open
  <2>1. drv' = c.drv /\ ssl' = c.ssl
    BY <1>2, <1>8
  <2>2. c.ssl.hs = s.hs /\ c.ssl.pend = s.pend /\ c.ssl.tx = s.tx
    BY <1>5, InvariantFacts, CloseProcType
  <2>3. SameSession(e, c.drv) /\ c.ssl.got = s.got /\ c.ssl.failed = s.failed
    BY <1>5, InvariantFacts, CloseKept
  <2> HIDE DEF c
  <2>4. SameSession(d, drv')
    BY <1>6, <2>1, <2>3 DEF SameSession, SameEnd
  <2>5. QED
    BY <1>4, <2>1, <2>2, <2>3, <2>4
<1>9. QED
  BY <1>7, <1>8

\* FlushChannel with nothing queued.
LEMMA FlushEmptyMaps ==
    ASSUME StreamInv, IInv', FlushEmpty
    PROVE  Refines
<1>0. IInv
  BY DEF StreamInv
<1>1. gen.flush /\ Flushed(gen, drv, ssl) /\ wire' = wire /\ hist' = hist
  BY DEF FlushEmpty
<1>2. drv.life = "live"
  BY <1>0, <1>1 DEF IInv, InUse
<1>3. /\ SameSession(drv, drv')
      /\ ssl'.hs = ssl.hs /\ ssl'.got = ssl.got /\ ssl'.pend = ssl.pend /\ ssl'.tx = ssl.tx
      /\ ssl'.failed = ssl.failed
      /\ gen'.open = gen.open /\ gen'.inbuf = gen.inbuf
  BY <1>0, <1>1, <1>2, InvariantFacts, FlushedKept
<1>4. QED
  BY <1>1, <1>3, StillMaps

\* What the answer of TlsOutputProc to one unit makes of the session.
UnitProceeds(r) ==
    /\ UnitAnswer(r)
    /\ Unfinished(r.drv, r.ssl) /\ Proceeds(drv, r.drv)
    /\ Pending(r.wire.in) <= Pending(wire.in)
    /\ r.n = 1 => ~Is(drv, "FATAL_ERROR") /\ SameEnd(drv, r.drv)
    /\ r.n < 0 /\ r.err # "EAGAIN" => Is(r.drv, "FATAL_ERROR")
    /\ Carried(ssl, wire, r.ssl, r.wire, 0) /\ EndKept(drv, r.drv, r.ssl, r.wire)

\* The driver took a unit of the queue, a step Output, or none.
LEMMA FlushTakenMaps ==
    ASSUME StreamInv, IInv', gen.outbuf > 0, NEW r, UnitProceeds(r),
           FlushTaken(r), wire' = r.wire
    PROVE  Refines
<1> DEFINE n == gen.outbuf - r.n
           g == [gen EXCEPT !.outbuf = n]
<1>0. IInv /\ OutputExactlyOnce
  BY DEF StreamInv, IInv
<1>1. /\ r.n \in {0, 1}
      /\ drv' = r.drv /\ ssl' = r.ssl /\ hist' = hist
      /\ gen' = [gen EXCEPT !.outbuf = n, !.flush = ~(gen.bg /\ gen.outbuf = r.n)]
  BY DEF FlushTaken, UnitAnswer, UnitProceeds
<1>2. n \in Nat /\ gen \in Gen
  BY <1>0, <1>1, InvariantFacts
<1>3. PICK b \in BOOLEAN : gen' = [g EXCEPT !.flush = b]
  BY <1>1
<1> HIDE DEF n
<1>4. g \in Gen /\ g.inbuf = gen.inbuf /\ g.open = gen.open
  BY <1>2, OutbufSet
<1> HIDE DEF g
<1>5. gen'.inbuf = gen.inbuf /\ gen'.open = gen.open
  BY <1>3, <1>4, FlushSet
<1>6. /\ Unfinished(drv', ssl') /\ Proceeds(drv, drv') /\ ssl'.pend = ssl.pend
      /\ Pending(wire'.in) <= Pending(wire.in)
      /\ Carried(ssl, wire, ssl', wire', 0) /\ EndKept(drv, drv', ssl', wire')
  BY <1>1 DEF UnitProceeds, UnitAnswer
<1>7. CASE r.n = 0
  <2>1. ssl'.tx = ssl.tx
    BY <1>1, <1>7 DEF UnitProceeds, UnitAnswer
  <2>2. QED
    BY <1>1, <1>5, <1>6, <2>1, SessionMaps
<1>8. CASE r.n = 1
  <2>1. /\ ~Is(drv, "FATAL_ERROR") /\ SameEnd(drv, drv')
        /\ ssl'.tx = ssl.tx + 1 /\ ~Is(drv', "INIT")
    BY <1>1, <1>8 DEF UnitProceeds, UnitAnswer
  <2>2. ssl'.tx + hist.lost <= hist.wr
    BY <1>0, <2>1, InvariantFacts DEF OutputExactlyOnce
  <2>3. wire' \in Wire /\ Pending(wire'.in) \in Nat
    <3>1. wire' \in Wire
      BY DEF IInv, TypeOK
    <3>2. QED
      BY <3>1, PendingType DEF Wire
  <2>4. hist'.rx + gen'.inbuf + ssl'.pend + Pending(wire'.in)
          <= hist.rx + gen.inbuf + ssl.pend + Pending(wire.in)
    BY <1>0, <1>1, <1>5, <1>6, <2>3, StreamFacts
  <2>5. Arrived'
    BY <1>1, <2>4, ArrivedKept
  <2>6. Stream!Output
    BY <1>1, <1>5, <1>6, <2>1, <2>2, IsPrime
       DEF Stream!Output, Stream!Established, SameEnd, Proceeds
  <2>7. Settled'
    BY <1>1, <1>5, <1>6, SettledOn DEF Proceeds
  <2>8. QED
    BY <1>6, <2>5, <2>6, <2>7 DEF Refines, Stream!Next
<1>9. QED
  BY <1>1, <1>7, <1>8

\* FlushChannel after EAGAIN of TlsOutputProc.
LEMMA FlushBlockedMaps ==
    ASSUME StreamInv, IInv', gen.flush, NEW r, UnitProceeds(r),
           FlushBlocked(r), wire' = r.wire
    PROVE  Refines
<1> DEFINE h == [gen EXCEPT !.flush = FALSE]
           g == [h EXCEPT !.bg = TRUE]
<1>0. IInv
  BY DEF StreamInv
<1>1. /\ r.n < 0 /\ ssl' = r.ssl /\ hist' = hist
      /\ gen' = Armed(g)
      /\ drv' = IF gen.bg THEN r.drv ELSE Watched(r.drv, g)
  BY DEF FlushBlocked
<1>2. h \in Gen /\ h.inbuf = gen.inbuf /\ h.open = gen.open
  BY <1>0, InvariantFacts, FlushSet
<1> HIDE DEF h
<1>3. g \in Gen /\ g.inbuf = gen.inbuf /\ g.open = gen.open
  BY <1>2, BgSet
<1> HIDE DEF g
<1>4. gen'.inbuf = gen.inbuf /\ gen'.open = gen.open
  BY <1>1, <1>3, ArmedType
<1>5. /\ r.drv \in Drv /\ Held(r.drv, Running) /\ Alive(r.drv, Running)
  BY <1>0, InvariantFacts DEF UnitProceeds, UnitAnswer, Moved, Holds, Held, Alive
<1>6. SameSession(r.drv, drv')
  <2>1. SameFlags(r.drv, drv')
    BY <1>0, <1>1, <1>3, <1>5, InvariantFacts, WatchedType DEF SameFlags
  <2>2. QED
    BY <2>1, SameFlagsSession
<1>7. Unfinished(drv', ssl') /\ Proceeds(drv, drv')
  BY <1>1, <1>6, SameProceeds, ProceedsOn DEF UnitProceeds
<1>8. ssl'.pend = ssl.pend /\ ssl'.tx = ssl.tx /\ Pending(wire'.in) <= Pending(wire.in)
  BY <1>1 DEF UnitProceeds, UnitAnswer
<1>9. Carried(ssl, wire, ssl', wire', 0) /\ EndKept(drv, drv', ssl', wire')
  BY <1>1, <1>6, EndKeptOn DEF UnitProceeds
<1>10. QED
  BY <1>1, <1>4, <1>7, <1>8, <1>9, SessionMaps

\* FlushChannel after any other error of TlsOutputProc: what is queued is lost.
LEMMA FlushFailedMaps ==
    ASSUME StreamInv, IInv', gen.flush, NEW r, UnitProceeds(r),
           FlushFailed(r), wire' = r.wire
    PROVE  Refines
<1> DEFINE g == [gen EXCEPT !.outbuf = 0]
<1>0. IInv /\ OutputExactlyOnce
  BY DEF StreamInv, IInv
<1>1. /\ r.n < 0 /\ r.err # "EAGAIN" /\ Flushed(g, r.drv, r.ssl)
      /\ hist' = [hist EXCEPT !.lost = @ + gen.outbuf]
  BY DEF FlushFailed
<1>2. g \in Gen /\ g.inbuf = gen.inbuf /\ g.open = gen.open
  BY <1>0, InvariantFacts, OutbufSet
<1> HIDE DEF g
<1>3. drv.life = "live"
  BY <1>0 DEF IInv, InUse
<1>4. /\ r.drv \in Drv /\ r.ssl \in Ssl /\ Held(r.drv, Running) /\ r.drv.life = "live"
      /\ r.ssl.tx = ssl.tx /\ r.ssl.pend = ssl.pend
  BY <1>0, <1>1, <1>3, InvariantFacts DEF UnitProceeds, UnitAnswer, Moved, Holds, Held
<1>5. /\ SameSession(r.drv, drv')
      /\ ssl'.hs = r.ssl.hs /\ ssl'.got = r.ssl.got /\ ssl'.pend = ssl.pend
      /\ ssl'.failed = r.ssl.failed
      /\ ssl'.tx = ssl.tx /\ gen'.open = gen.open /\ gen'.inbuf = gen.inbuf
  BY <1>0, <1>1, <1>2, <1>4, FlushedKept
<1>6. /\ hist'.rx = hist.rx /\ hist'.wr = hist.wr /\ hist'.sent = hist.sent
      /\ hist'.lost = hist.wr - ssl.tx
  <2> DEFINE n == hist.lost + gen.outbuf
  <2>1. hist' = [hist EXCEPT !.lost = n] /\ n = hist.wr - ssl.tx /\ hist \in Hist
    BY <1>0, <1>1, InvariantFacts DEF OutputExactlyOnce
  <2> HIDE DEF n
  <2>2. QED
    BY <2>1 DEF Hist
<1>7. Is(drv', "FATAL_ERROR")
  BY <1>1, <1>5 DEF UnitProceeds, SameSession, SameEnd
<1>8. Unfinished(drv', ssl') /\ Proceeds(drv, drv')
  BY <1>5, SameProceeds, ProceedsOn DEF UnitProceeds
<1>9. Pending(wire'.in) <= Pending(wire.in)
  BY DEF UnitProceeds
<1>10. Carried(ssl, wire, ssl', wire', 0)
  <2>1. Carried(ssl, wire, r.ssl, r.wire, 0) /\ Orderly(r.ssl, r.wire)
    BY DEF UnitProceeds, Carried
  <2>2. /\ ssl \in Ssl /\ wire \in Wire /\ ssl' \in Ssl /\ wire' \in Wire
        /\ 0 \in Nat /\ 0 + 0 = 0 /\ 0 + ssl'.pend = r.ssl.pend
    BY <1>0, <1>4, <1>5, InvariantFacts DEF IInv, TypeOK
  <2>3. Carried(r.ssl, r.wire, ssl', wire', 0)
    BY <1>4, <1>5, <2>1, <2>2, StayCarried
  <2>4. Carried(ssl, wire, ssl', wire', 0 + 0)
    BY <1>4, <2>1, <2>2, <2>3, CarriedOn
  <2>5. QED
    BY <2>2, <2>4
<1>11. EndKept(drv, drv', ssl', wire')
  BY <1>5, EndKeptOn DEF UnitProceeds
<1>12. QED
  BY <1>5, <1>6, <1>7, <1>8, <1>9, <1>10, <1>11, SessionMaps

\* FlushChannel calls TlsOutputProc for one unit.
LEMMA FlushUnitMaps ==
    ASSUME StreamInv, IInv', FlushUnit
    PROVE  Refines
<1>0. IInv /\ Unfinished(drv, ssl)
  BY DEF StreamInv
<1>1. PICK again \in Again :
        \E r \in {TlsOutputProc(drv, ssl, wire, again)} :
          /\ FlushTaken(r) \/ FlushBlocked(r) \/ FlushFailed(r)
          /\ wire' = r.wire
  BY DEF FlushUnit
<1>2. gen.flush /\ gen.outbuf > 0
  BY DEF FlushUnit
<1> DEFINE r == TlsOutputProc(drv, ssl, wire, again)
<1>3. /\ FlushTaken(r) \/ FlushBlocked(r) \/ FlushFailed(r)
      /\ wire' = r.wire
  BY <1>1, Zenon
<1>4. UnitAnswer(r)
  BY <1>0, <1>1, AgainType, InvariantFacts, OutputProcType DEF UnitAnswer
<1>a. Carried(ssl, wire, r.ssl, r.wire, 0) /\ EndKept(drv, r.drv, r.ssl, r.wire)
  BY <1>0, <1>1, AgainType, InvariantFacts, OutputCarried DEF StreamInv, Settled
<1>5. UnitProceeds(r)
  BY <1>0, <1>1, <1>4, <1>a, AgainType, InvariantFacts, OutputProceeds DEF UnitProceeds
<1> HIDE DEF r
<1>6. QED
  BY <1>2, <1>3, <1>5, FlushTakenMaps, FlushBlockedMaps, FlushFailedMaps

\* A handler is called: the channel stays open and its input where it is.
LEMMA EnterKept ==
    ASSUME gen \in Gen, NEW kind, NEW mask, Enter(kind, mask)
    PROVE  gen'.open = gen.open /\ gen'.inbuf = gen.inbuf
<1>1. PICK b \in BOOLEAN : gen' = [gen EXCEPT !.flush = b]
  BY DEF Enter
<1>2. QED
  BY <1>1, FlushSet

\* A socket event goes through TlsNotifyProc.
LEMMA SocketEventMaps ==
    ASSUME StreamInv, IInv', SocketEvent
    PROVE  Refines
<1>0. IInv /\ Unfinished(drv, ssl)
  BY DEF StreamInv
<1>1. PICK again \in Again :
        \E r \in {TlsNotifyProc(drv, ssl, wire, again)} :
          /\ drv' = r.drv /\ ssl' = r.ssl /\ wire' = r.wire
          /\ IF r.up THEN Enter("event", drv.watch \cap Ready) ELSE UNCHANGED <<frames, gen>>
  BY DEF SocketEvent
<1>2. drv.life = "live" /\ hist' = hist
  BY DEF SocketEvent, EventLoop
<1> DEFINE r == TlsNotifyProc(drv, ssl, wire, again)
<1>3. /\ drv' = r.drv /\ ssl' = r.ssl /\ wire' = r.wire
      /\ Enter("event", drv.watch \cap Ready) \/ UNCHANGED <<frames, gen>>
  BY <1>1, Zenon
<1>4. SameData(ssl, r.ssl)
  BY <1>0, <1>1, <1>2, AgainType, InvariantFacts, NotifyProcType
<1>5. /\ Unfinished(r.drv, r.ssl) /\ Proceeds(drv, r.drv)
      /\ Pending(r.wire.in) <= Pending(wire.in)
  BY <1>0, <1>1, <1>2, AgainType, InvariantFacts, NotifyProceeds
<1>a. Carried(ssl, wire, r.ssl, r.wire, 0) /\ EndKept(drv, r.drv, r.ssl, r.wire)
  BY <1>0, <1>1, <1>2, AgainType, InvariantFacts, NotifyCarried DEF StreamInv, Settled
<1> HIDE DEF r
<1>6. gen'.open = gen.open /\ gen'.inbuf = gen.inbuf
  BY <1>0, <1>3, InvariantFacts, EnterKept
<1>7. QED
  BY <1>2, <1>3, <1>4, <1>5, <1>a, <1>6, SessionMaps DEF SameData

\* TlsChannelHandlerTimer.
LEMMA TimerFireMaps ==
    ASSUME StreamInv, IInv', TimerFire
    PROVE  Refines
<1> DEFINE d == [drv EXCEPT !.timer = FALSE]
           mask == TimerMask(drv, gen.inbuf > 0 \/ ssl.pend > 0, gen.outbuf > 0)
<1>0. IInv
  BY DEF StreamInv
<1>1. /\ drv.timer /\ ssl' = ssl /\ wire' = wire /\ hist' = hist
      /\ \/ drv' = TimerDone(d) /\ gen' = gen
         \/ drv' = d /\ Enter("timer", mask)
  BY DEF TimerFire
<1> HIDE DEF mask
<1>2. d \in Drv /\ SameFlags(drv, d) /\ d.refs > 0
  <2>1. drv.refs = 1 + Running
    BY <1>0, <1>1, InvariantFacts DEF Held
  <2>2. d \in Drv /\ SameFlags(drv, d) /\ d.refs = drv.refs
    BY <1>0, InvariantFacts, TimerSetType
  <2> HIDE DEF d
  <2>3. QED
    BY <1>0, <2>1, <2>2, InvariantFacts
<1> HIDE DEF d
<1>3. SameFlags(drv, drv')
  <2>1. SameFlags(d, TimerDone(d))
    BY <1>2, TimerDoneType
  <2>2. QED
    BY <1>1, <1>2, <2>1 DEF SameFlags
<1>4. SameSession(drv, drv')
  BY <1>3, SameFlagsSession
<1>5. gen'.open = gen.open /\ gen'.inbuf = gen.inbuf
  BY <1>0, <1>1, InvariantFacts, EnterKept
<1>6. QED
  BY <1>1, <1>4, <1>5, StillMaps

\* Tcl's own timer.
LEMMA GenericTimerMaps ==
    ASSUME StreamInv, IInv', GenericTimer
    PROVE  Refines
<1> DEFINE g == [gen EXCEPT !.gtimer = FALSE]
<1>0. IInv
  BY DEF StreamInv
<1>1. /\ ssl' = ssl /\ wire' = wire /\ hist' = hist
      /\ \/ Enter("event", {"R"}) /\ drv' = drv
         \/ gen' = g /\ drv' = Watched(drv, g)
  BY DEF GenericTimer
<1>2. g \in Gen /\ g.inbuf = gen.inbuf /\ g.open = gen.open
  BY <1>0, InvariantFacts DEF Gen
<1> HIDE DEF g
<1>3. SameSession(drv, drv')
  <2>1. SameFlags(drv, Watched(drv, g))
    BY <1>0, <1>2, InvariantFacts, WatchedType
  <2>2. SameFlags(drv, drv')
    BY <1>1, <2>1 DEF SameFlags
  <2>3. QED
    BY <2>2, SameFlagsSession
<1>4. gen'.open = gen.open /\ gen'.inbuf = gen.inbuf
  BY <1>0, <1>1, <1>2, InvariantFacts, EnterKept
<1>5. QED
  BY <1>1, <1>3, <1>4, StillMaps

\* The end of the innermost handler.
LEMMA ReturnMaps ==
    ASSUME StreamInv, IInv', Return
    PROVE  Refines
<1> DEFINE d == Watched(drv, gen)
           e == IF Top.kind = "timer" THEN TimerDone(d) ELSE d
<1>0. IInv
  BY DEF StreamInv
<1>1. /\ frames # <<>>
      /\ drv' = e /\ ssl' = IF drv.life = "closing" THEN Clean(e, ssl) ELSE ssl
      /\ gen' = IF drv.life = "live" THEN Armed(gen) ELSE gen
      /\ wire' = wire /\ hist' = hist
  BY DEF Return
<1>2. gen'.open = gen.open /\ gen'.inbuf = gen.inbuf
  BY <1>0, <1>1, InvariantFacts, ArmedType
<1>3. /\ d \in Drv /\ SameFlags(drv, d) /\ Held(d, Running)
  BY <1>0, InvariantFacts, WatchedType
<1> HIDE DEF d
<1>4. SameFlags(drv, e)
  <2>1. CASE Top.kind = "timer"
    <3> DEFINE less == SubSeq(frames, 1, Len(frames) - 1)
    <3>1. /\ less \in Seq(Frame)
          /\ Cardinality(Timers(frames))
               = Cardinality(Timers(less)) + One(Top.kind = "timer")
      BY <1>0, <1>1, InvariantFacts, TimersPop DEF Top
    <3>2. One(Top.kind = "timer") = 1 /\ Running = Cardinality(Timers(frames))
      BY <2>1 DEF One, Running, TimerFrames, Timers
    <3>3. Cardinality(Timers(less)) \in Nat
      BY <3>1, TimersFinite
    <3> HIDE DEF less
    <3>4. d.refs > 0
      BY <1>3, <3>1, <3>2, <3>3 DEF Held
    <3>5. SameFlags(d, TimerDone(d))
      BY <1>3, <3>4, TimerDoneType
    <3>6. QED
      BY <1>3, <2>1, <3>5 DEF SameFlags
  <2>2. CASE Top.kind # "timer"
    BY <1>3, <2>2
  <2>3. QED
    BY <2>1, <2>2
<1> HIDE DEF e
<1>5. SameSession(drv, drv')
  BY <1>1, <1>4, SameFlagsSession
<1>6. ssl' \in {ssl, SslShutdown(ssl)}
  BY <1>1 DEF Clean
<1>7. /\ ssl'.hs = ssl.hs /\ ssl'.got = ssl.got /\ ssl'.pend = ssl.pend /\ ssl'.tx = ssl.tx
      /\ ssl'.failed = ssl.failed
  BY <1>0, <1>6, InvariantFacts, SslShutdownType, ShutdownKept
<1>8. QED
  BY <1>1, <1>2, <1>5, <1>7, StillMaps

\* Nothing happens to a session and its channel that a step leaves alone.
LEMMA UntouchedMaps ==
    ASSUME StreamInv, IInv', drv' = drv, ssl' = ssl, gen' = gen, hist' = hist,
           Pending(wire'.in) <= Pending(wire.in), Pending(wire'.in) \in Nat, Settled'
    PROVE  Refines
<1>1. SameSession(drv, drv')
  BY DEF SameSession, SameEnd
<1>2. QED
  BY <1>1, QuietMaps

\* A record arrives at the socket.
LEMMA ReceivePending ==
    ASSUME wire \in Wire, NEW record \in Record, Receive(record)
    PROVE  Pending(wire'.in) = Pending(wire.in) + UnitsOf(record)
<1>1. wire.in \in Seq(Record) /\ wire'.in = Append(wire.in, record)
  BY DEF Receive, Wire
<1>2. Pending(wire'.in) = Pending(Append(wire.in, record))
  BY <1>1
<1>3. QED
  BY <1>1, <1>2, PendingAppend

\* The peer sends m more units, or the connection changes otherwise.
LEMMA SettledOutside ==
    ASSUME StreamInv, IInv', drv' = drv, ssl' = ssl, gen' = gen, NEW m \in Nat,
           hist'.rx = hist.rx, hist'.sent = hist.sent + m, Orderly(ssl, wire'),
           wire'.end = wire.end \/ wire'.end # "open",
           Intact(ssl, wire') => /\ Intact(ssl, wire)
                                 /\ Pending(wire'.in) = Pending(wire.in) + m
    PROVE  Settled'
<1>1. /\ Fresh(drv, ssl) /\ EndSeen(drv, ssl, wire)
      /\ gen.open /\ Intact(ssl, wire) =>
           hist.rx + gen.inbuf + ssl.pend + Pending(wire.in) = hist.sent
  BY DEF StreamInv, Settled, Accounted
<1>2. EndSeen(drv, ssl, wire')
  BY <1>1 DEF EndSeen
<1>3. ASSUME gen.open, Intact(ssl, wire')
      PROVE  hist.rx + gen.inbuf + ssl.pend + Pending(wire'.in) = hist'.sent
  <2> DEFINE before == Pending(wire.in)
             after  == Pending(wire'.in)
             p == ssl.pend
             a == hist.rx
             k == gen.inbuf
             sent == hist.sent
  <2>1. a \in Nat /\ k \in Nat /\ p \in Nat /\ before \in Nat /\ sent \in Nat
    BY StreamFacts DEF StreamInv
  <2>2. a + k + p + before = sent /\ after = before + m /\ hist'.sent = sent + m
    BY <1>1, <1>3
  <2> HIDE DEF before, after, p, a, k, sent
  <2>3. a + k + p + after = hist'.sent
    BY <2>1, <2>2
  <2>4. QED
    BY <2>3 DEF after, p, a, k
<1>4. /\ Orderly(ssl, wire)' <=> Orderly(ssl', wire')
      /\ Fresh(drv, ssl)' <=> Fresh(drv', ssl')
      /\ EndSeen(drv, ssl, wire)' <=> EndSeen(drv', ssl', wire')
      /\ Accounted' <=> (gen'.open /\ Intact(ssl', wire') =>
           hist'.rx + gen'.inbuf + ssl'.pend + Pending(wire'.in) = hist'.sent)
  BY DEF Orderly, Fresh, EndSeen, Is, Accounted, Intact, Pending, DataRecords
<1>5. QED
  BY <1>1, <1>2, <1>3, <1>4 DEF Settled

\* A record arrives: nothing was sent after close_notify.
LEMMA ReceiveOrderly ==
    ASSUME wire \in Wire, Orderly(ssl, wire), NEW record \in Record, Receive(record),
           wire.end = "open", wire.peer # "done"
    PROVE  /\ Orderly(ssl, wire') /\ wire'.end = wire.end
           /\ Intact(ssl, wire') => Intact(ssl, wire)
<1> DEFINE q == wire.in
           k == Len(q) + 1
           p == IF record \in {"hs", "data"} THEN "data" ELSE "done"
<1>1. /\ wire'.in = Append(q, record) /\ wire'.end = wire.end
      /\ wire'.peer = p
  BY DEF Receive, Wire
<1>2. /\ q \in Seq(Record) /\ DOMAIN q = 1..Len(q) /\ Len(q) \in Nat
      /\ DOMAIN wire'.in = 1..k /\ Len(wire'.in) = k /\ wire'.in[k] = record
      /\ \A i \in 1..Len(q) : wire'.in[i] = q[i]
  <2>1. q \in Seq(Record)
    BY DEF Wire
  <2> HIDE DEF q
  <2>2. QED
    BY <1>1, <2>1
<1>3. ~ssl.got /\ \A i \in DOMAIN q : q[i] # "close_notify"
  BY DEF Orderly
<1>4. record = "close_notify" => p = "done"
  OBVIOUS
<1> HIDE DEF q, k, p
<1>5. ASSUME NEW i \in DOMAIN wire'.in, wire'.in[i] = "close_notify"
      PROVE  i = Len(wire'.in) /\ wire'.peer = "done"
  <2>1. i \in 1..Len(q) \/ i = k
    BY <1>2 DEF k
  <2>2. i \notin 1..Len(q)
    BY <1>2, <1>3, <1>5
  <2>3. i = k /\ record = "close_notify"
    BY <1>2, <1>5, <2>1, <2>2
  <2>4. QED
    BY <1>1, <1>2, <1>4, <2>3
<1>6. Orderly(ssl, wire')
  BY <1>3, <1>5 DEF Orderly
<1>7. Intact(ssl, wire') => Intact(ssl, wire)
  BY <1>3 DEF Intact
<1>8. QED
  BY <1>1, <1>6, <1>7

\* The peer sends data, a step PeerSends.
LEMMA PeerDataMaps ==
    ASSUME StreamInv, IInv', PeerData
    PROVE  Refines
<1> DEFINE n == hist.sent + RecordUnits
<1>0. IInv /\ Unfinished(drv, ssl) /\ Arrived /\ Orderly(ssl, wire)
  BY DEF StreamInv, Settled
<1>1. /\ Receive("data") /\ wire.end = "open" /\ wire.peer # "done" /\ hist' = [hist EXCEPT !.sent = n]
      /\ drv' = drv /\ ssl' = ssl /\ gen' = gen
  BY DEF PeerData
<1>2. RecordUnits \in Nat /\ n \in Nat
  BY <1>0, EngineAssumption, StreamFacts
<1> HIDE DEF n
<1>3. /\ hist'.sent = n /\ hist'.rx = hist.rx /\ hist'.wr = hist.wr
      /\ hist'.lost = hist.lost
  BY <1>0, <1>1, InvariantFacts DEF Hist
<1>4. Pending(wire'.in) = Pending(wire.in) + RecordUnits
  <2>1. "data" \in Record /\ UnitsOf("data") = RecordUnits
    BY DEF Record, UnitsOf
  <2>2. QED
    BY <1>0, <1>1, <2>1, InvariantFacts, ReceivePending
<1>5. hist.rx + gen.inbuf + ssl.pend + Pending(wire'.in) <= n
  BY <1>0, <1>2, <1>4, StreamFacts DEF Arrived, n
<1>6. Arrived'
  <2>1. hist'.rx + gen'.inbuf + ssl'.pend + Pending(wire'.in) <= hist'.sent
    BY <1>1, <1>3, <1>5
  <2>2. QED
    BY <2>1 DEF Arrived, Pending, DataRecords
<1>7. n >= hist.sent
  BY <1>0, <1>2, StreamFacts DEF n
<1>8. Stream!PeerSends
  BY <1>1, <1>3, <1>7, IsPrime DEF Stream!PeerSends
<1>9. Settled'
  <2>1. "data" \in Record
    BY DEF Record
  <2>2. /\ Orderly(ssl, wire') /\ wire'.end = wire.end
        /\ Intact(ssl, wire') => Intact(ssl, wire)
    BY <1>0, <1>1, <2>1, InvariantFacts, ReceiveOrderly
  <2>3. hist'.sent = hist.sent + RecordUnits
    BY <1>3 DEF n
  <2>4. QED
    BY <1>1, <1>2, <1>3, <1>4, <2>2, <2>3, SettledOutside
<1>10. QED
  BY <1>0, <1>1, <1>6, <1>8, <1>9 DEF Refines, Stream!Next

\* The peer's other records, the loss of the connection and the send buffer do not
\* concern the stream.
LEMMA EnvironmentMaps ==
    ASSUME StreamInv, IInv', Environment
    PROVE  Refines
<1>0. /\ IInv /\ wire \in Wire /\ Pending(wire.in) \in Nat
      /\ Orderly(ssl, wire)
      /\ 0 \in Nat /\ hist.sent = hist.sent + 0 /\ Pending(wire.in) = Pending(wire.in) + 0
  BY InvariantFacts, StreamFacts DEF StreamInv, Settled
<1>1. CASE PeerHandshake \/ PeerEnds
  <2>1. PICK record \in Record : Receive(record) /\ record # "data"
    BY <1>1 DEF PeerHandshake, PeerEnds, Record
  <2>a. wire.end = "open" /\ wire.peer # "done"
    BY <1>1 DEF PeerHandshake, PeerEnds
  <2>2. Pending(wire'.in) = Pending(wire.in)
    <3>1. Pending(wire'.in) = Pending(wire.in) + UnitsOf(record)
      BY <1>0, <2>1, ReceivePending
    <3>2. UnitsOf(record) = 0
      BY <2>1 DEF UnitsOf
    <3>3. QED
      BY <1>0, <3>1, <3>2
  <2>3. drv' = drv /\ ssl' = ssl /\ gen' = gen /\ hist' = hist
    BY <1>1 DEF PeerHandshake, PeerEnds
  <2>4. Pending(wire'.in) <= Pending(wire.in) /\ Pending(wire'.in) \in Nat
    BY <1>0, <2>2
  <2>5. /\ Orderly(ssl, wire') /\ wire'.end = wire.end
        /\ Intact(ssl, wire') => Intact(ssl, wire)
    BY <1>0, <2>1, <2>a, ReceiveOrderly
  <2>6. Settled'
    BY <1>0, <2>2, <2>3, <2>5, SettledOutside
  <2>7. QED
    BY <2>3, <2>4, <2>6, UntouchedMaps
<1>2. CASE PeerData
  BY <1>2, PeerDataMaps
<1>3. CASE Disconnect \/ Drain
  <2>1. drv' = drv /\ ssl' = ssl /\ gen' = gen /\ hist' = hist
    BY <1>3 DEF Disconnect, Drain
  <2>2. wire'.in = wire.in \/ wire'.in = <<>>
    BY <1>0, <1>3 DEF Disconnect, Drain, Wire
  <2>3. Pending(wire'.in) = Pending(wire.in) \/ Pending(wire'.in) = 0
    BY <2>2, PendingType
  <2>4. Pending(wire'.in) <= Pending(wire.in) /\ Pending(wire'.in) \in Nat
    BY <1>0, <2>3
  <2>5. /\ wire'.peer = wire.peer
        /\ \/ wire'.in = wire.in
           \/ wire'.in = <<>> /\ wire'.end = "reset"
        /\ wire'.end = wire.end \/ (wire.end = "open" /\ wire'.end # "open")
    BY <1>0, <1>3 DEF Disconnect, Drain, Wire
  <2>6. Orderly(ssl, wire')
    BY <1>0, <2>5 DEF Orderly
  <2>7. Intact(ssl, wire') => Intact(ssl, wire) /\ wire'.in = wire.in
    BY <1>0, <2>5 DEF Intact, Orderly
  <2>8. Settled'
    BY <1>0, <2>1, <2>5, <2>6, <2>7, SettledOutside
  <2>9. QED
    BY <2>1, <2>4, <2>8, UntouchedMaps
<1>4. QED
  BY <1>1, <1>2, <1>3 DEF Environment

-----------------------------------------------------------------------------
(* The refinement.                                                         *)

\* A channel that ImportObjCmd has just made is an empty stream that is not yet
\* established.
LEMMA StreamInit ==
    ASSUME Init
    PROVE  StreamInv /\ Stream!Init
<1>1. IInv
  BY InitInvariant
<1>2. Is(drv, "INIT") /\ ~Is(drv, "EOF") /\ ~Is(drv, "FATAL_ERROR")
  BY DEF Init, NewDrv, Is
<1>3. Unfinished(drv, ssl)
  BY <1>2 DEF Unfinished, Turn, Init, NewSsl
<1>4. Arrived
  BY PendingType DEF Arrived, Init, NewSsl
<1>5. Stream!Init
  BY <1>2 DEF Stream!Init, Init, NewSsl
<1>6. Settled
  <2>1. /\ ssl.pend = 0 /\ ssl.got = FALSE /\ wire.in = <<>> /\ hist.rx = 0 /\ hist.sent = 0
        /\ gen.inbuf = 0
    BY DEF Init, NewSsl
  <2>2. Orderly(ssl, wire)
    BY <2>1 DEF Orderly
  <2>3. Accounted
    BY <2>1, PendingType DEF Accounted
  <2>4. QED
    BY <1>2, <2>1, <2>2, <2>3 DEF Settled, Fresh, EndSeen
<1>7. QED
  BY <1>1, <1>3, <1>4, <1>5, <1>6 DEF StreamInv

\* Every step of the specification keeps the invariant and is a step of the stream,
\* or none.
LEMMA StreamStep ==
    ASSUME StreamInv, [Next]_vars
    PROVE  StreamInv' /\ [Stream!Next]_(Stream!vars)
<1>1. IInv'
  BY NextStep DEF StreamInv
<1>2. CASE Next
  <2>1. Refines
    <3>1. CASE Script
      BY <1>1, <3>1, ReadBufferedMaps, ReadDriverMaps, WriteMaps, FileeventMaps,
         FconfigureMaps, HandshakeMaps, CloseMaps, UnimportMaps DEF Script
    <3>2. CASE Flush
      BY <1>1, <3>2, FlushEmptyMaps, FlushUnitMaps DEF Flush
    <3>3. CASE Event
      BY <1>1, <3>3, SocketEventMaps, TimerFireMaps, GenericTimerMaps, ReturnMaps DEF Event
    <3>4. CASE Environment
      BY <1>1, <3>4, EnvironmentMaps
    <3>5. QED
      BY <1>2, <3>1, <3>2, <3>3, <3>4 DEF Next
  <2>2. Unfinished(drv, ssl)' = Unfinished(drv', ssl')
    BY DEF Unfinished, Turn, Receives, Is
  <2>3. QED
    BY <1>1, <2>1, <2>2 DEF Refines, StreamInv
<1>3. CASE UNCHANGED vars
  <2>1. /\ drv' = drv /\ ssl' = ssl /\ wire' = wire /\ gen' = gen /\ hist' = hist
    BY <1>3 DEF vars
  <2>2. Unfinished(drv, ssl)' /\ Arrived'
    BY <2>1 DEF StreamInv, Unfinished, Turn, Receives, Is, Arrived, Pending, DataRecords
  <2>3. UNCHANGED Stream!vars
    BY <2>1, IsPrime DEF Stream!vars
  <2>4. Settled'
    BY <1>3 DEF vars, StreamInv, Settled, Orderly, Fresh, EndSeen, Is, Accounted, Intact,
                Pending, DataRecords
  <2>5. QED
    BY <1>1, <2>2, <2>3, <2>4 DEF StreamInv
<1>4. QED
  BY <1>2, <1>3

\* The driver under Tcl's generic layer implements the stream: TlsInputProc,
\* TlsOutputProc, TlsNotifyProc and TlsCloseProc, in whatever order Tcl, the script and
\* the peer make them run, move nothing before the handshake, invent, repeat and drop
\* nothing without a failure, and never come back from an end or a failure.
THEOREM Implements == Spec => ImplementsStream
<1>1. Init => StreamInv /\ Stream!Init
  BY StreamInit
<1>2. StreamInv /\ [Next]_vars => StreamInv' /\ [Stream!Next]_(Stream!vars)
  BY StreamStep
<1>3. QED
  BY <1>1, <1>2, PTL DEF Spec, ImplementsStream, Stream!Spec

-----------------------------------------------------------------------------
(* The end of the input as the script is told it.                          *)

\* TlsInputProc answers 0 only with TLS_TCL_EOF or TLS_TCL_FATAL_ERROR set.
EofKnown == gen.eof => Is(drv, "EOF") \/ Is(drv, "FATAL_ERROR")

\* The end of FlushChannel.
LEMMA FlushedEof ==
    ASSUME NEW g \in Gen, NEW d, NEW s, Flushed(g, d, s)
    PROVE  gen'.eof = g.eof
<1> DEFINE h == [g EXCEPT !.flush = FALSE]
<1>1. gen' = [h EXCEPT !.bg = FALSE]
  BY DEF Flushed
<1>2. h \in Gen /\ h.eof = g.eof
  BY FlushSet, EofFields
<1> HIDE DEF h
<1>3. QED
  BY <1>1, <1>2, EofFields

\* The commands that do not read.
LEMMA ScriptEof ==
    ASSUME IInv, Script, ~ReadDriver
    PROVE  gen'.eof = gen.eof
<1>0. gen \in Gen /\ gen.inbuf \in Nat /\ gen.outbuf \in Nat /\ gen.bg \in BOOLEAN
  BY InvariantFacts
<1>1. CASE ReadBuffered
  <2> DEFINE g == [gen EXCEPT !.inbuf = @ - 1]
  <2>1. gen.inbuf - 1 \in Nat /\ gen' = Armed(g)
    BY <1>0, <1>1 DEF ReadBuffered
  <2>2. g \in Gen /\ g.eof = gen.eof
    BY <1>0, <2>1, InbufSet, EofFields
  <2> HIDE DEF g
  <2>3. QED
    BY <2>1, <2>2, EofFields
<1>2. CASE Write
  <2> DEFINE n == gen.outbuf + 1
             g == [gen EXCEPT !.outbuf = n]
  <2>1. n \in Nat /\ gen' = [gen EXCEPT !.outbuf = n, !.flush = ~gen.bg]
    BY <1>0, <1>2 DEF Write
  <2>2. PICK b \in BOOLEAN : gen' = [g EXCEPT !.flush = b]
    BY <2>1
  <2> HIDE DEF n
  <2>3. g \in Gen /\ g.eof = gen.eof
    BY <1>0, <2>1, OutbufSet, EofFields
  <2> HIDE DEF g
  <2>4. QED
    BY <2>2, <2>3, EofFields
<1>3. CASE Fileevent
  <2>1. PICK mask \in Interests : gen' = Armed([gen EXCEPT !.interest = mask])
    BY <1>3 DEF Fileevent
  <2> DEFINE g == [gen EXCEPT !.interest = mask]
  <2>2. g \in Gen
    BY <1>0, ChannelAssumption DEF Gen
  <2>3. g.eof = gen.eof
    BY <1>0, EofFields
  <2> HIDE DEF g
  <2>4. QED
    BY <2>1, <2>2, <2>3, EofFields DEF g
<1>4. CASE Fconfigure \/ Handshake
  BY <1>4 DEF Fconfigure, Handshake
<1>5. CASE Close
  <2> DEFINE g == Abandoned(gen)
  <2>1. gen' = g \/ gen' = [g EXCEPT !.flush = ~gen.bg]
    BY <1>5 DEF Close
  <2>2. g \in Gen /\ g.eof = gen.eof
    BY <1>0, AbandonedType, EofFields
  <2> HIDE DEF g
  <2>3. QED
    BY <2>1, <2>2, EofFields
<1>6. CASE Unimport
  <2> DEFINE g == Abandoned(gen)
  <2>1. gen' = [g EXCEPT !.plain = TRUE]
    BY <1>6 DEF Unimport
  <2>2. g \in Gen /\ g.eof = gen.eof
    BY <1>0, AbandonedType, EofFields
  <2> HIDE DEF g
  <2>3. QED
    BY <2>1, <2>2, EofFields
<1>7. QED
  BY <1>1, <1>2, <1>3, <1>4, <1>5, <1>6 DEF Script

\* FlushChannel.
LEMMA FlushEof ==
    ASSUME IInv, Flush
    PROVE  gen'.eof = gen.eof
<1>0. gen \in Gen /\ gen.inbuf \in Nat /\ gen.outbuf \in Nat /\ gen.bg \in BOOLEAN
      /\ drv \in Drv /\ ssl \in Ssl /\ wire \in Wire
  BY InvariantFacts
<1>1. CASE FlushEmpty
  BY <1>0, <1>1, FlushedEof DEF FlushEmpty
<1>2. CASE FlushUnit
  <2>1. PICK again \in Again :
          \E r \in {TlsOutputProc(drv, ssl, wire, again)} :
            FlushTaken(r) \/ FlushBlocked(r) \/ FlushFailed(r)
    BY <1>2 DEF FlushUnit
  <2> DEFINE r == TlsOutputProc(drv, ssl, wire, again)
  <2>2. FlushTaken(r) \/ FlushBlocked(r) \/ FlushFailed(r)
    BY <2>1, Zenon
  <2>3. UnitAnswer(r) /\ gen.outbuf > 0
    BY <1>0, <1>2, <2>1, AgainType, InvariantFacts, OutputProcType DEF UnitAnswer, FlushUnit
  <2> HIDE DEF r
  <2>4. CASE FlushTaken(r)
    <3> DEFINE n == gen.outbuf - r.n
               g == [gen EXCEPT !.outbuf = n]
    <3>1. r.n \in {0, 1} /\ n \in Nat
      BY <1>0, <2>3, <2>4 DEF FlushTaken, UnitAnswer
    <3>2. PICK b \in BOOLEAN : gen' = [g EXCEPT !.flush = b]
      BY <2>4 DEF FlushTaken
    <3> HIDE DEF n
    <3>3. g \in Gen /\ g.eof = gen.eof
      BY <1>0, <3>1, OutbufSet, EofFields
    <3> HIDE DEF g
    <3>4. QED
      BY <3>2, <3>3, EofFields
  <2>5. CASE FlushBlocked(r)
    <3> DEFINE h == [gen EXCEPT !.flush = FALSE]
               g == [h EXCEPT !.bg = TRUE]
    <3>1. gen' = Armed(g)
      BY <2>5 DEF FlushBlocked
    <3>2. h \in Gen /\ h.eof = gen.eof
      BY <1>0, FlushSet, EofFields
    <3> HIDE DEF h
    <3>3. g \in Gen /\ g.eof = gen.eof
      BY <3>2, BgSet, EofFields
    <3> HIDE DEF g
    <3>4. QED
      BY <3>1, <3>3, EofFields
  <2>6. CASE FlushFailed(r)
    <3> DEFINE g == [gen EXCEPT !.outbuf = 0]
    <3>1. Flushed(g, r.drv, r.ssl)
      BY <2>6 DEF FlushFailed
    <3>2. g \in Gen /\ g.eof = gen.eof
      BY <1>0, OutbufSet, EofFields
    <3> HIDE DEF g
    <3>3. QED
      BY <3>1, <3>2, FlushedEof
  <2>7. QED
    BY <2>2, <2>4, <2>5, <2>6
<1>3. QED
  BY <1>1, <1>2 DEF Flush

\* Events.
LEMMA EventEof ==
    ASSUME IInv, Event
    PROVE  gen'.eof = gen.eof
<1>0. gen \in Gen
  BY InvariantFacts
<1>1. ASSUME NEW kind, NEW mask, Enter(kind, mask) PROVE gen'.eof = gen.eof
  <2>1. PICK b \in BOOLEAN : gen' = [gen EXCEPT !.flush = b]
    BY <1>1 DEF Enter
  <2>2. QED
    BY <1>0, <2>1, EofFields
<1>2. CASE SocketEvent
  <2>1. Enter("event", drv.watch \cap Ready) \/ gen' = gen
    BY <1>2, Zenon DEF SocketEvent
  <2>2. QED
    BY <1>1, <2>1
<1>3. CASE TimerFire
  <2>1. gen' = gen \/ \E mask : Enter("timer", mask)
    BY <1>3 DEF TimerFire
  <2>2. QED
    BY <1>1, <2>1
<1>4. CASE GenericTimer
  <2>1. Enter("event", {"R"}) \/ gen' = [gen EXCEPT !.gtimer = FALSE]
    BY <1>4 DEF GenericTimer
  <2>2. QED
    BY <1>0, <1>1, <2>1, EofFields
<1>5. CASE Return
  <2>1. gen' = Armed(gen) \/ gen' = gen
    BY <1>5 DEF Return
  <2>2. QED
    BY <1>0, <2>1, EofFields
<1>6. QED
  BY <1>2, <1>3, <1>4, <1>5 DEF Event

\* Every step keeps it: the flags are never taken back.
LEMMA EofStep ==
    ASSUME StreamInv, EofKnown, [Next]_vars
    PROVE  EofKnown'
<1>1. IInv /\ IInv' /\ FinalStep
  BY NextStep DEF StreamInv
<1>2. CASE ReadDriver
  <2>1. gen'.eof => gen.eof \/ Is(drv', "EOF") \/ Is(drv', "FATAL_ERROR")
    BY <1>1, <1>2, ReadDriverMaps
  <2>2. QED
    BY <1>1, <2>1, IsPrime DEF EofKnown, FinalStep
<1>3. CASE gen'.eof = gen.eof
  BY <1>1, <1>3 DEF EofKnown, FinalStep
<1>4. CASE Environment \/ UNCHANGED vars
  BY <1>3, <1>4 DEF Environment, PeerHandshake, PeerData, PeerEnds, Disconnect, Drain, vars
<1>5. QED
  BY <1>1, <1>2, <1>3, <1>4, ScriptEof, FlushEof, EventEof DEF Next

\* After close_notify nothing is left to be read, and all that was sent went to the
\* script or to Tcl's buffer.
LEMMA EndIsJustified ==
    ASSUME StreamInv, EofKnown
    PROVE  EofJustified
<1>1. /\ Orderly(ssl, wire) /\ EndSeen(drv, ssl, wire) /\ Accounted
  BY DEF StreamInv, Settled
<1>2. gen.eof => ssl.got \/ wire.end # "open" \/ Is(drv, "FATAL_ERROR")
  BY <1>1 DEF EofKnown, EndSeen
<1>3. ASSUME ssl.got, gen.open PROVE hist.rx + gen.inbuf = hist.sent
  <2>1. ssl.pend = 0 /\ wire.in = <<>>
    BY <1>1, <1>3 DEF Orderly
  <2>2. Pending(wire.in) = 0
    BY <2>1, PendingType
  <2>3. hist.rx + gen.inbuf + ssl.pend + Pending(wire.in) = hist.sent
    BY <1>1, <1>3 DEF Accounted, Intact
  <2>4. QED
    BY <2>1, <2>2, <2>3, StreamFacts DEF StreamInv
<1>4. QED
  BY <1>2, <1>3 DEF EofJustified

\* TlsInputProc and the BIO answer EOF only for an end that was there: EAGAIN is never
\* taken for it, and after the peer's close_notify the script has, or finds in Tcl's
\* buffer, every unit that the peer sent.
THEOREM EofIsJustified == Spec => []EofJustified
<1>1. Init => StreamInv /\ EofKnown
  BY StreamInit DEF Init, EofKnown
<1>2. StreamInv /\ EofKnown /\ [Next]_vars => StreamInv' /\ EofKnown'
  BY StreamStep, EofStep
<1>3. StreamInv /\ EofKnown => EofJustified
  BY EndIsJustified
<1>4. QED
  BY <1>1, <1>2, <1>3, PTL DEF Spec

-----------------------------------------------------------------------------
(* What tls::handshake tells a non-blocking channel.                       *)

\* HandshakeObjCmd answers 1 on a non-blocking channel only when Tls_WaitForConnect
\* cleared TLS_TCL_INIT.
LEMMA OneMeansDone ==
    ASSUME NEW d \in Drv, NEW s \in Ssl, NEW w \in Wire, NEW again \in BOOLEAN
    PROVE  LET h == Tls_WaitForConnect(d, s, w, TRUE, again)
           IN  Is(d, "ASYNC") /\ HandshakeResult(d, h) = "1" => ~Is(h.drv, "INIT")
<1> DEFINE h == Tls_WaitForConnect(d, s, w, TRUE, again)
           a == DoHandshake(s, w, again)
<1>1. Waited(d, s, h)
  BY WaitForConnectType
<1>2. h.ret = 0 => h.err = "EAGAIN"
  <2>1. a.rc \in Codes
    BY DoHandshakeType DEF Answers
  <2>2. CASE Is(d, "INIT") /\ ~Is(d, "FATAL_ERROR")
    <3>1. h = HandshakeAnswer(d, a)
      BY <2>2 DEF Tls_WaitForConnect
    <3> HIDE DEF a, h
    <3>2. CASE a.rc \in {"WANT_READ", "WANT_WRITE", "WANT_CLIENT_HELLO_CB"}
      BY <3>1, <3>2 DEF HandshakeAnswer
    <3>3. CASE a.rc = "NONE"
      BY <3>1, <3>3 DEF HandshakeAnswer
    <3>4. CASE a.rc \in {"SSL", "ZERO_RETURN"}
      BY <3>1, <3>4 DEF HandshakeAnswer
    <3>5. CASE a.rc = "SYSCALL"
      BY <3>1, <3>5 DEF HandshakeAnswer
    <3>6. QED
      BY <2>1, <3>2, <3>3, <3>4, <3>5 DEF Codes
  <2>3. CASE ~Is(d, "INIT")
    BY <2>3 DEF Tls_WaitForConnect
  <2>4. CASE Is(d, "INIT") /\ Is(d, "FATAL_ERROR")
    BY <2>4 DEF Tls_WaitForConnect
  <2>5. QED
    BY <2>2, <2>3, <2>4
<1> HIDE DEF h
<1>3. h.ret \in {-1, 0, 1} /\ (h.ret = 1 => ~Is(h.drv, "INIT"))
  BY <1>1 DEF Waited
<1>4. ASSUME Is(d, "ASYNC"), HandshakeResult(d, h) = "1"
      PROVE  ~Is(h.drv, "INIT")
  <2>1. h.ret >= 0 /\ ~(h.ret <= 0 /\ h.err = "EAGAIN")
    BY <1>3, <1>4 DEF HandshakeResult
  <2>2. h.ret # 0
    BY <1>2, <2>1
  <2>3. QED
    BY <1>3, <2>1, <2>2
<1>5. QED
  BY <1>4 DEF h

\* Only HandshakeObjCmd says that the handshake is done, and TLS_TCL_INIT is never
\* set again.
LEMMA HandshakeTruthStep ==
    ASSUME StreamInv, HandshakeOneMeansDone, [Next]_vars
    PROVE  HandshakeOneMeansDone'
<1>0. IInv
  BY DEF StreamInv
<1>1. ~Is(drv, "INIT") => ~Is(drv', "INIT")
  <2>1. [Stream!Next]_(Stream!vars)
    BY StreamStep
  <2>2. CASE Stream!Next
    BY <2>2, IsPrime
       DEF Stream!Next, Stream!PeerSends, Stream!Establish, Stream!Input, Stream!Take,
           Stream!Accept, Stream!Output, Stream!Stop, Stream!Close, Stream!Established
  <2>3. CASE UNCHANGED Stream!vars
    BY <2>3, IsPrime DEF Stream!vars
  <2>4. QED
    BY <2>1, <2>2, <2>3
<1>2. hist \in Hist
  BY <1>0, InvariantFacts
<1>3. CASE hist'.ok = hist.ok
  BY <1>1, <1>3, IsPrime DEF HandshakeOneMeansDone
<1>4. CASE Handshake
  <2>1. PICK again \in Again :
          \E h \in {Tls_WaitForConnect(drv, ssl, wire, TRUE, again)} :
            /\ drv' = h.drv
            /\ hist' = [hist EXCEPT !.ok =
                          @ \/ (Is(drv, "ASYNC") /\ HandshakeResult(drv, h) = "1")]
    BY <1>4 DEF Handshake
  <2> DEFINE h == Tls_WaitForConnect(drv, ssl, wire, TRUE, again)
             one == Is(drv, "ASYNC") /\ HandshakeResult(drv, h) = "1"
  <2>2. again \in BOOLEAN
    BY <2>1, AgainType
  <2>3. drv' = h.drv /\ hist' = [hist EXCEPT !.ok = @ \/ one]
    BY <2>1
  <2>4. one => ~Is(drv', "INIT")
    BY <1>0, <2>2, <2>3, InvariantFacts, OneMeansDone
  <2> HIDE DEF one, h
  <2>5. hist'.ok = (hist.ok \/ one)
    BY <1>2, <2>3 DEF Hist
  <2>6. QED
    BY <1>1, <2>4, <2>5, IsPrime DEF HandshakeOneMeansDone
<1>5. ASSUME Next, ~Handshake PROVE hist'.ok = hist.ok
  <2>1. CASE ReadBuffered \/ Write
    BY <1>2, <2>1 DEF ReadBuffered, Write, Hist
  <2>2. CASE ReadDriver
    <3>1. PICK m : hist' = [hist EXCEPT !.rx = m]
      BY <2>2 DEF ReadDriver
    <3>2. QED
      BY <1>2, <3>1 DEF Hist
  <2>3. CASE Fileevent \/ Fconfigure \/ Close \/ Unimport \/ FlushEmpty \/ Event
    BY <2>3 DEF Fileevent, Fconfigure, Close, Unimport, FlushEmpty, Event, SocketEvent,
                TimerFire, GenericTimer, Return
  <2>4. CASE FlushUnit
    <3>1. hist' = hist \/ hist' = [hist EXCEPT !.lost = @ + gen.outbuf]
      BY <2>4 DEF FlushUnit, FlushTaken, FlushBlocked, FlushFailed
    <3>2. QED
      BY <1>2, <3>1 DEF Hist
  <2>5. CASE Environment
    BY <1>2, <2>5 DEF Environment, PeerHandshake, PeerData, PeerEnds, Disconnect, Drain, Hist
  <2>6. QED
    BY <1>5, <2>1, <2>2, <2>3, <2>4, <2>5 DEF Next, Script, Flush
<1>6. CASE UNCHANGED vars
  BY <1>3, <1>6 DEF vars
<1>7. QED
  BY <1>3, <1>4, <1>5, <1>6

\* tls::handshake returns 1 on a non-blocking channel, of a client or of a server and also
\* after a client hello callback that asked to be called again, only when the handshake is
\* complete (HandshakeObjCmd).
THEOREM HandshakeTruthful == Spec => []HandshakeOneMeansDone
<1>1. Init => StreamInv /\ HandshakeOneMeansDone
  BY StreamInit DEF Init, HandshakeOneMeansDone
<1>2. StreamInv /\ [Next]_vars => StreamInv'
  BY StreamStep
<1>3. StreamInv /\ HandshakeOneMeansDone /\ [Next]_vars => HandshakeOneMeansDone'
  BY HandshakeTruthStep
<1>4. QED
  BY <1>1, <1>2, <1>3, PTL DEF Spec

=============================================================================
