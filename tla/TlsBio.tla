------------------------------- MODULE TlsBio -------------------------------
(***************************************************************************)
(* The BIO that connects OpenSSL to the Tcl channel below the TLS channel  *)
(* (generic/tlsBIO.c).  OpenSSL reads and writes TLS records through this  *)
(* BIO; the BIO turns what Tcl_ReadRaw / Tcl_WriteRaw answer into a BIO    *)
(* result, the retry flags and BIO_FLAGS_IN_EOF.                           *)
(*                                                                         *)
(* The channel below is a record `wire':                                   *)
(*   in    the records the peer sent and nobody has read yet               *)
(*   end   whether the peer's side is "open", at "eof" or "reset"          *)
(*   room  how many more records the send buffer takes                     *)
(*   peer  what the peer still has to say ("hs", then "data", then "done") *)
(***************************************************************************)
EXTENDS Integers, Sequences

\* TLS records of the peer: its handshake flight, application data, a record
\* that makes the SSL library fail (fatal alert, bad certificate, bad MAC) and
\* the close_notify alert.
Record == {"hs", "data", "bad", "close_notify"}

Ends == {"open", "eof", "reset"}

Wire == [in: Seq(Record), end: Ends, room: Nat, peer: {"hs", "data", "done"}]

Errno == {"none", "EAGAIN", "EWOULDBLOCK", "EINPROGRESS", "EALREADY", "EPROTO",
          "EINTR", "ECONNRESET", "ECONNABORTED", "EPIPE", "ENOTCONN"}

\* The error codes after which an operation is tried again; ENOTCONN is left
\* out on purpose.
BIOShouldRetry(code) ==
    code \in {"EWOULDBLOCK", "EINPROGRESS", "EALREADY", "EAGAIN", "EPROTO", "EINTR"}

\* What Tcl_ReadRaw, Tcl_Eof, Tcl_GetErrno and Tcl_InputBlocked say of the
\* channel below.
ReadRaw(wire) ==
    CASE wire.in # <<>> ->
           [ret |-> 1, eof |-> FALSE, errno |-> "none", blocked |-> FALSE]
      [] wire.in = <<>> /\ wire.end = "open" ->
           [ret |-> -1, eof |-> FALSE, errno |-> "EAGAIN", blocked |-> TRUE]
      [] wire.in = <<>> /\ wire.end = "eof" ->
           [ret |-> 0, eof |-> TRUE, errno |-> "none", blocked |-> FALSE]
      [] OTHER ->
           [ret |-> -1, eof |-> FALSE, errno |-> "ECONNRESET", blocked |-> FALSE]

\* What Tcl_WriteRaw says: a full send buffer blocks, a reset connection fails.
WriteRaw(wire) ==
    CASE wire.end = "reset" -> [ret |-> -1, eof |-> FALSE, errno |-> "EPIPE"]
      [] wire.end # "reset" /\ wire.room = 0 ->
           [ret |-> -1, eof |-> FALSE, errno |-> "EAGAIN"]
      [] OTHER -> [ret |-> 1, eof |-> FALSE, errno |-> "none"]

\* The BIO's read method: its result, the retry-read flag, BIO_FLAGS_IN_EOF and
\* the errno it leaves.
BioInput(raw) ==
    [ret   |-> raw.ret,
     retry |-> \/ raw.ret = 0 /\ ~raw.eof /\ raw.blocked
               \/ raw.ret < 0 /\ BIOShouldRetry(raw.errno),
     inEof |-> raw.ret = 0 /\ raw.eof,
     errno |-> IF raw.ret = 0 /\ raw.eof THEN "ECONNRESET" ELSE raw.errno]

\* The BIO's write method.  A write of nothing without an EOF is tried again.
BioOutput(raw) ==
    [ret   |-> raw.ret,
     retry |-> \/ raw.ret = 0 /\ ~raw.eof
               \/ raw.ret < 0 /\ BIOShouldRetry(raw.errno),
     inEof |-> raw.ret = 0 /\ raw.eof,
     errno |-> IF raw.ret = 0 /\ raw.eof THEN "ECONNRESET" ELSE raw.errno]

=============================================================================
