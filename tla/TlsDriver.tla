------------------------------ MODULE TlsDriver ------------------------------
(***************************************************************************)
(* The procedures of the TLS channel driver (generic/tlsIO.c) as operators *)
(* on the State structure of one channel.  Each takes the structures it    *)
(* reads and returns them as it leaves them, together with its C result.   *)
(*                                                                         *)
(* The State structure is a record `drv':                                  *)
(*   flags  the TLS_TCL_ flags that are set                                *)
(*   want   directions OpenSSL asked to wait for                           *)
(*   watch  watchMask, which is also what the channel below is told to     *)
(*          watch                                                          *)
(*   timer  whether a timer handler is pending                             *)
(*   refs   Tcl_Preserve calls not yet matched by Tcl_Release              *)
(*   life   "live", "closing" once Tcl_EventuallyFree had to wait, "freed" *)
(*                                                                         *)
(* TLS_TCL_CALLBACK is not among the flags: no statement of the source     *)
(* sets it (tls.c:415 is commented out), so its tests always fail.         *)
(* TLS_TCL_FASTPATH and TLS_TCL_DEBUG are build options that are off.      *)
(***************************************************************************)
EXTENDS TlsEngine

Flag == {"INIT", "ASYNC", "FATAL_ERROR", "EOF", "CLOSED"}
Direction == {"R", "W"}
Life == {"live", "closing", "freed"}

Drv == [flags: SUBSET Flag, want: SUBSET Direction, watch: SUBSET Direction,
        timer: BOOLEAN, refs: Nat, life: Life]

\* What tls::import leaves behind: a handshake to be done, in the blocking mode
\* of the channel below.
NewDrv(async) ==
    [flags |-> {"INIT"} \cup (IF async THEN {"ASYNC"} ELSE {}),
     want |-> {}, watch |-> {}, timer |-> FALSE, refs |-> 0, life |-> "live"]

Is(drv, flag) == flag \in drv.flags
Raise(drv, flags) == [drv EXCEPT !.flags = @ \cup flags]
Want(drv, rc) ==
    [drv EXCEPT !.want = @ \cup (CASE rc = "WANT_READ" -> {"R"}
                                   [] rc = "WANT_WRITE" -> {"W"}
                                   [] OTHER -> {})]

-----------------------------------------------------------------------------
\* Tcl_Preserve, Tcl_Release and Tcl_EventuallyFree: the structure is freed when
\* that was asked for and nobody holds it.
Preserve(drv) == [drv EXCEPT !.refs = @ + 1]

Release(drv) ==
    [drv EXCEPT !.refs = @ - 1,
                !.life = IF @ = "closing" /\ drv.refs = 1 THEN "freed" ELSE @]

EventuallyFree(drv) ==
    [drv EXCEPT !.life = IF drv.refs = 0 THEN "freed" ELSE "closing"]

\* Mutant: a deleted timer keeps its reference.
DeleteTimerKept(drv) == [drv EXCEPT !.timer = FALSE]

\* A pending timer holds a reference; deleting it gives the reference back.
DeleteTimer(drv) ==
    IF drv.timer THEN Release([drv EXCEPT !.timer = FALSE]) ELSE drv

\* Mutant: the timer is created without Tcl_Preserve.
CreateTimerUnheld(drv) == [drv EXCEPT !.timer = TRUE]

CreateTimer(drv) == [Preserve(drv) EXCEPT !.timer = TRUE]

\* Tls_Clean: BIO_free of the f_ssl BIO calls SSL_shutdown.
Clean(drv, ssl) == IF drv.life = "freed" THEN SslShutdown(ssl) ELSE ssl

-----------------------------------------------------------------------------
\* Non-blocking or blocking mode.
TlsBlockModeProc(drv, async) ==
    [drv EXCEPT !.flags = IF async THEN @ \cup {"ASYNC"} ELSE @ \ {"ASYNC"}]

\* Mutant: a pending timer is not deleted when the channel is closed.
TlsCloseProcTimerLeft(drv, ssl) ==
    LET notify == ~Is(drv, "INIT") /\ ~Is(drv, "FATAL_ERROR")
        last   == EventuallyFree(IF notify THEN Raise(drv, {"CLOSED"}) ELSE drv)
    IN  [drv |-> last, ssl |-> Clean(last, IF notify THEN SslShutdown(ssl) ELSE ssl)]

\* Sends close_notify unless there is no session or it failed, deletes the timer
\* and has the structure freed as soon as nobody holds it.
TlsCloseProc(drv, ssl) ==
    LET notify == ~Is(drv, "INIT") /\ ~Is(drv, "FATAL_ERROR")
        shut   == IF notify THEN SslShutdown(ssl) ELSE ssl
        marked == IF notify THEN Raise(drv, {"CLOSED"}) ELSE drv
        last   == EventuallyFree(DeleteTimer(marked))
    IN  [drv |-> last, ssl |-> Clean(last, shut)]

\* What a handshake attempt makes of an errno that comes from the system.
Aborted(errno) == IF errno = "ECONNRESET" THEN "ECONNABORTED" ELSE errno

\* Mutant: TLS_TCL_INIT is cleared whatever the handshake answered.
HandshakeAnswerAnyway(drv, h) ==
    [ret |-> IF h.rc = "NONE" THEN 1 ELSE 0, err |-> "EAGAIN",
     drv |-> [drv EXCEPT !.flags = @ \ {"INIT"}], ssl |-> h.ssl, wire |-> h.wire, rc |-> h.rc]

\* What Tls_WaitForConnect makes of the answer h of the handshake call.
HandshakeAnswer(drv, h) ==
    LET result(ret, err, d) ==
            [ret |-> ret, err |-> err, drv |-> d, ssl |-> h.ssl, wire |-> h.wire, rc |-> h.rc]
        failed == Raise(drv, {"FATAL_ERROR", "EOF"})
    IN  CASE h.rc = "NONE" -> result(1, "none", [drv EXCEPT !.flags = @ \ {"INIT"}])
          [] h.rc = "SSL" -> result(-1, "ECONNABORTED", failed)
          [] h.rc = "SYSCALL" /\ h.n = 0 -> result(-1, "ECONNRESET", Raise(drv, {"EOF"}))
          [] h.rc = "SYSCALL" /\ h.n # 0 -> result(-1, Aborted(h.errno), failed)
          [] h.rc = "ZERO_RETURN" -> result(-1, "ECONNRESET", Raise(drv, {"EOF"}))
          [] OTHER -> result(0, "EAGAIN", Want(drv, h.rc))

\* Tls_WaitForConnect: 1 if the session is up, 0 to try again, -1 on failure.
\* (Its caller decides whether an earlier failure is permanent.)  A blocking channel
\* tries up to ten times more, 50 ms apart, and gives up with 0 and EAGAIN like a
\* non-blocking one: this is its last try, and the earlier ones are calls of their
\* own that came back with 0, since each leaves what such a call leaves.
Tls_WaitForConnect(drv, ssl, wire, permanent, again) ==
    LET early(ret, err) ==
            [ret |-> ret, err |-> err, drv |-> drv, ssl |-> ssl, wire |-> wire, rc |-> "NONE"]
    IN  IF ~Is(drv, "INIT") THEN early(1, "none")
        ELSE IF Is(drv, "FATAL_ERROR")
        THEN early(-1, IF permanent THEN "ECONNABORTED" ELSE "ECONNRESET")
        ELSE HandshakeAnswer(drv, DoHandshake(ssl, wire, again))

-----------------------------------------------------------------------------
\* The session as an input or output procedure leaves it, its result n, the
\* errno it reports, and the code of the last SSL call.
IoResult(n, err, drv, ssl, wire, rc) ==
    [n |-> n, err |-> err, drv |-> drv, ssl |-> ssl, wire |-> wire, rc |-> rc]

\* Mutant: -1 with EAGAIN is not told from the 0 of an EOF.
InputAnswerZero(drv, r) ==
    IoResult(IF r.n > 0 THEN r.n ELSE 0, "none", drv, r.ssl, r.wire, r.rc)

\* What the input procedure makes of the answer r of BIO_read.
InputAnswer(drv, r) ==
    LET result(n, err, d) == IoResult(n, err, d, r.ssl, r.wire, r.rc) IN
    CASE r.rc = "NONE" -> result(r.n, "none", drv)
      [] r.rc = "SSL" /\ r.eof -> result(0, "none", Raise(drv, {"EOF"}))
      [] r.rc = "SSL" /\ ~r.eof -> result(-1, "ECONNABORTED", Raise(drv, {"FATAL_ERROR", "EOF"}))
      [] r.rc \in {"WANT_READ", "WANT_WRITE"} -> result(-1, "EAGAIN", Want(drv, r.rc))
      [] r.rc = "SYSCALL" /\ r.n = 0 -> result(0, "none", Raise(drv, {"EOF"}))
      [] r.rc = "SYSCALL" /\ r.n # 0 ->
           result(-1, r.errno, Raise(drv, {"FATAL_ERROR", "EOF"}))
      [] r.rc = "ZERO_RETURN" -> result(0, "none", Raise(drv, {"EOF"}))
      [] OTHER -> result(0, "none", drv)

\* Mutant: TLS_TCL_FATAL_ERROR and TLS_TCL_EOF do not stop the input.
TlsInputProcUnchecked(drv, ssl, wire, size, again) ==
    LET h == Tls_WaitForConnect(drv, ssl, wire, FALSE, again) IN
    IF h.ret = 1 THEN InputAnswer(h.drv, SslRead(h.ssl, h.wire, size))
    ELSE IoResult(-1, h.err, h.drv, h.ssl, h.wire, h.rc)

\* TlsInputProc: reads at most `size' units; n = 0 means EOF.
TlsInputProc(drv, ssl, wire, size, again) ==
    LET h == Tls_WaitForConnect(drv, ssl, wire, FALSE, again) IN
    IF Is(drv, "FATAL_ERROR") \/ Is(drv, "EOF") THEN IoResult(0, "none", drv, ssl, wire, "NONE")
    ELSE IF h.ret = 1 THEN InputAnswer(h.drv, SslRead(h.ssl, h.wire, size))
    ELSE IF h.ret = -1 /\ h.err = "ECONNRESET"
    THEN IoResult(0, "none", Raise(h.drv, {"EOF"}), h.ssl, h.wire, h.rc)
    ELSE IoResult(-1, h.err, h.drv, h.ssl, h.wire, h.rc)

\* Mutant: a record OpenSSL kept for the retry is reported as written.
OutputAnswerTaken(drv, r) == IoResult(1, "none", drv, r.ssl, r.wire, r.rc)

\* Mutant: a failed write does not raise TLS_TCL_FATAL_ERROR.
OutputAnswerSoft(drv, r) ==
    IoResult(r.n, IF r.rc \in {"WANT_READ", "WANT_WRITE"} THEN "EAGAIN" ELSE r.errno,
             Raise(drv, IF r.rc = "SYSCALL" THEN {"EOF"} ELSE {}), r.ssl, r.wire, r.rc)

\* What the output procedure makes of the answer r of BIO_write.
OutputAnswer(drv, r) ==
    LET result(n, err, d) == IoResult(n, err, d, r.ssl, r.wire, r.rc) IN
    CASE r.rc = "NONE" -> result(r.n, "none", drv)
      [] r.rc = "SSL" -> result(-1, "ECONNABORTED", Raise(drv, {"FATAL_ERROR", "EOF"}))
      [] r.rc \in {"WANT_READ", "WANT_WRITE"} -> result(-1, "EAGAIN", Want(drv, r.rc))
      [] r.rc = "SYSCALL" /\ r.n = 0 -> result(0, "none", Raise(drv, {"EOF"}))
      [] r.rc = "SYSCALL" /\ r.n # 0 ->
           result(-1, r.errno, Raise(drv, {"FATAL_ERROR", "EOF"}))
      [] r.rc = "ZERO_RETURN" -> result(0, "none", Raise(drv, {"EOF"}))
      [] OTHER -> result(0, "none", drv)

\* Mutant: TLS_TCL_FATAL_ERROR does not stop the output.
TlsOutputProcUnchecked(drv, ssl, wire, again) ==
    LET h == Tls_WaitForConnect(drv, ssl, wire, TRUE, again) IN
    IF h.ret = 1 THEN OutputAnswer(h.drv, SslWrite(h.ssl, h.wire))
    ELSE IoResult(-1, h.err, h.drv, h.ssl, h.wire, h.rc)

\* TlsOutputProc for one unit.  TLS_TCL_EOF does not stop it.
TlsOutputProc(drv, ssl, wire, again) ==
    LET h == Tls_WaitForConnect(drv, ssl, wire, TRUE, again) IN
    IF Is(drv, "FATAL_ERROR") THEN IoResult(-1, "ECONNABORTED", drv, ssl, wire, "NONE")
    ELSE IF h.ret = 1 THEN OutputAnswer(h.drv, SslWrite(h.ssl, h.wire))
    ELSE IF h.ret = -1 /\ h.err = "ECONNRESET"
    THEN IoResult(0, "none", Raise(h.drv, {"EOF"}), h.ssl, h.wire, h.rc)
    ELSE IoResult(-1, h.err, h.drv, h.ssl, h.wire, h.rc)

-----------------------------------------------------------------------------
\* TlsWatchProc: after a failure nothing is watched and a pending timer is left
\* alone; otherwise the interest is passed down and the timer is renewed while
\* reading is of interest.
TlsWatchProc(drv, mask) ==
    IF Is(drv, "FATAL_ERROR") THEN [drv EXCEPT !.watch = {}]
    ELSE LET idle == DeleteTimer([drv EXCEPT !.watch = mask])
         IN  IF "R" \in mask THEN CreateTimer(idle) ELSE idle

\* Mutant: what OpenSSL has decrypted already (BIO_pending) is not looked at.
TimerMaskWant(drv, inBuffered, outBuffered) == drv.want

\* The events the timer handler reports: what OpenSSL wanted, and what the
\* buffers hold.
TimerMask(drv, inBuffered, outBuffered) ==
    drv.want \cup (IF outBuffered /\ ~Is(drv, "EOF") THEN {"W"} ELSE {})
             \cup (IF inBuffered /\ ~Is(drv, "CLOSED") THEN {"R"} ELSE {})

\* Mutant: the timer's reference is not given back.
TimerDoneKept(drv) == [drv EXCEPT !.want = {}]

\* The end of the timer handler, after Tcl_NotifyChannel came back.
TimerDone(drv) == Release([drv EXCEPT !.want = {}])

\* TlsNotifyProc for an event below: the timer is deleted, a handshake is tried,
\* and the event is passed up (`up') unless the handshake is to be continued.
TlsNotifyProc(drv, ssl, wire, again) ==
    LET h == Tls_WaitForConnect(DeleteTimer(drv), ssl, wire, TRUE, again)
    IN  [up |-> ~(h.ret < 1 /\ h.err = "EAGAIN"),
         drv |-> h.drv, ssl |-> h.ssl, wire |-> h.wire, rc |-> h.rc]

\* Mutant: a handshake in progress is not told from a finished one.
HandshakeResultAtOnce(drv, h) == IF h.ret < 0 THEN "error" ELSE "1"

\* The result of tls::handshake.
HandshakeResult(drv, h) ==
    IF h.ret <= 0 /\ Is(drv, "ASYNC") /\ h.err = "EAGAIN" THEN "0"
    ELSE IF h.ret < 0 THEN "error"
    ELSE "1"

=============================================================================
