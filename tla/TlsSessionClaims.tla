--------------------------- MODULE TlsSessionClaims ---------------------------
(***************************************************************************)
(* Statements that comments and documentation make about imports and their *)
(* callbacks and that the code does not keep.  Each is checked by a run of *)
(* its own that ends in a counterexample.                                  *)
(***************************************************************************)
EXTENDS TlsSession

\* A -validatecommand that returns an "empty string" makes "no change to
\* certificate validation" (comment of VerifyCallback): with -require a certificate
\* that is not valid still ends the handshake.  EvalCallback answers 1 to a result
\* that is no integer, and that accepts the certificate.
EmptyKeepsVerdict ==
    hs.at = "done" /\ hs.quiet /\ Conn.conf.mandatory => ~hs.bad

\* tls::import channel -model other makes "this channel share the same SSL_CTX
\* structure as the specified channel" (doc/tls.n): the new layer is that of the
\* channel that was named.  ImportObjCmd looks the model up in the variable that
\* held that channel, and stacks the layer on the model.
NamedGetsLayer ==
    job.at \in LateSteps \cup {"restore", "register"} =>
        Stacked(job.named) /\ Top(job.named) = job.st

=============================================================================
