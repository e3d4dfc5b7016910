------------------------------ MODULE TlsClaims ------------------------------
(***************************************************************************)
(* Statements that comments and documentation make about the channel and   *)
(* that its code does not keep.  Each is checked by a run of its own that  *)
(* ends in a counterexample.                                               *)
(***************************************************************************)
EXTENDS TlsChannel

\* tls::unimport flushes "any pending data" before the layer is removed (comment
\* in UnimportObjCmd).  With a background flush scheduled Tcl_Flush does nothing.
UnimportFlushes == gen.plain => gen.outbuf = 0

\* TlsOutputProc returns "the number of bytes written or -1 on error" (its
\* comment), so FlushChannel of a non-blocking channel comes to an end.  After the
\* peer's close_notify a write that cannot be done is SSL_ERROR_ZERO_RETURN, or the
\* ECONNRESET of Tls_WaitForConnect, and is answered with 0 bytes and no error:
\* FlushChannel offers the same bytes for ever.
FlushEnds == gen.flush ~> ~gen.flush

=============================================================================
