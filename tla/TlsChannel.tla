----------------------------- MODULE TlsChannel -----------------------------
(***************************************************************************)
(* One TLS channel stacked on a socket: the driver of tlsIO.c called by    *)
(* Tcl's generic I/O layer, by the event loop and by a script, over a      *)
(* connection to a peer that may answer, stay silent, close cleanly, vanish*)
(* or send something wrong.                                                *)
(*                                                                         *)
(* Tcl is single threaded, but the driver is re-entered: an event handler  *)
(* is a script, and a script that runs the event loop (update, vwait) lets *)
(* further events in before the first handler came back.  `frames' is the  *)
(* C stack of the handlers that are running.                               *)
(***************************************************************************)
EXTENDS TlsDriver, FiniteSets

CONSTANTS
    MaxUnits,    \* bound: units of application data the peer sends
    MaxWrites,   \* bound: units the script writes
    MaxFrames,   \* bound: nested event handlers
    SendBuffer,  \* capacity of the socket's send buffer, in records
    Ops,         \* the script commands of this instance
    Interests,   \* the fileevent settings the script uses
    Modes,       \* blocking modes: a subset of BOOLEAN, TRUE is non-blocking
    Eager        \* TRUE: a readable handler reads before it returns

AllOps == {"read", "write", "fileevent", "fconfigure", "handshake", "close", "unimport"}

ASSUME ChannelAssumption ==
    /\ MaxUnits \in Nat /\ MaxWrites \in Nat /\ MaxFrames \in Nat
    /\ SendBuffer \in Nat \ {0}
    /\ Ops \subseteq AllOps
    /\ Interests \subseteq SUBSET Direction
    /\ Modes \subseteq BOOLEAN /\ Modes # {}
    /\ Eager \in BOOLEAN

VARIABLES
    drv,     \* the State structure
    ssl,     \* the SSL object
    wire,    \* the channel below and the peer
    gen,     \* the channel as Tcl's generic layer keeps it
    frames,  \* the event handlers that are running, the innermost last
    hist     \* history: what was sent, received, written and promised

vars == <<drv, ssl, wire, gen, frames, hist>>

(***************************************************************************)
(* The generic layer's part of the channel:                                *)
(*   open      the script may still use it as a TLS channel                *)
(*   interest  directions of the script's fileevents                       *)
(*   inbuf     decrypted units the script has not taken yet                *)
(*   outbuf    units written by the script and not taken by the driver     *)
(*   flush     FlushChannel is running: nothing else of this process is    *)
(*   bg        BG_FLUSH_SCHEDULED: the rest waits for a writable event     *)
(*   gtimer    Tcl's own timer for input left in inbuf                     *)
(*   eof       a read reported EOF                                         *)
(*   plain     the TLS layer was removed by tls::unimport                  *)
(* and the history:                                                        *)
(*   sent, rx  units sent by the peer, units handed to the script          *)
(*   wr, lost  units written by the script, units Tcl dropped after errors *)
(*   ok        tls::handshake returned 1 on a non-blocking channel         *)
(***************************************************************************)
Gen == [open: BOOLEAN, interest: SUBSET Direction, inbuf: Nat, outbuf: Nat,
        flush: BOOLEAN, bg: BOOLEAN, gtimer: BOOLEAN, eof: BOOLEAN, plain: BOOLEAN]

Hist == [sent: Nat, rx: Nat, wr: Nat, lost: Nat, ok: BOOLEAN]

\* A running handler: called by TlsChannelHandlerTimer or by an event; `read'
\* while its readable script is still to read.
Frame == [kind: {"timer", "event"}, read: BOOLEAN]

TypeOK ==
    /\ drv \in Drv
    /\ ssl \in Ssl
    /\ wire \in Wire
    /\ gen \in Gen
    /\ frames \in Seq(Frame)
    /\ hist \in Hist

Init ==
    /\ \E async \in Modes : drv = NewDrv(async)
    /\ ssl = NewSsl
    /\ wire = [in |-> <<>>, end |-> "open", room |-> SendBuffer, peer |-> "hs"]
    /\ gen = [open |-> TRUE, interest |-> {}, inbuf |-> 0, outbuf |-> 0, flush |-> FALSE,
              bg |-> FALSE, gtimer |-> FALSE, eof |-> FALSE, plain |-> FALSE]
    /\ frames = <<>>
    /\ hist = [sent |-> 0, rx |-> 0, wr |-> 0, lost |-> 0, ok |-> FALSE]

-----------------------------------------------------------------------------
\* The answers the client hello callback of a server may give: to be called
\* again or not.
Again == IF Server THEN BOOLEAN ELSE {FALSE}

\* UpdateInterest of Tcl's generic layer: input that is already buffered is
\* reported by Tcl's own timer, and not watched for.
Buffered(g) == "R" \in g.interest /\ g.inbuf > 0

WatchMask(g) ==
    (g.interest \cup (IF g.bg THEN {"W"} ELSE {})) \ (IF Buffered(g) THEN {"R"} ELSE {})

Armed(g) == [g EXCEPT !.gtimer = @ \/ Buffered(g)]

\* The generic layer calls the watch procedure of a channel that still exists.
Watched(d, g) == IF d.life = "live" THEN TlsWatchProc(d, WatchMask(g)) ELSE d

\* The script has the processor and the channel.
ScriptRuns(op) == op \in Ops /\ gen.open /\ ~gen.flush

Top == frames[Len(frames)]

\* The innermost handler did its reading.
HandledRead == IF frames = <<>> THEN frames ELSE [frames EXCEPT ![Len(frames)].read = FALSE]

-----------------------------------------------------------------------------
(* Script commands.                                                        *)

\* read: from the buffer while it holds something, otherwise through the
\* driver; afterwards the interest is renewed.
ReadBuffered ==
    /\ ScriptRuns("read") /\ gen.inbuf > 0
    /\ LET g == [gen EXCEPT !.inbuf = @ - 1]
       IN  /\ gen' = Armed(g)
           /\ drv' = Watched(drv, g)
    /\ hist' = [hist EXCEPT !.rx = @ + 1]
    /\ frames' = HandledRead
    /\ UNCHANGED <<ssl, wire>>

ReadDriver ==
    /\ ScriptRuns("read") /\ gen.inbuf = 0
    /\ \E size \in 1..RecordUnits, again \in Again :
         \E r \in {TlsInputProc(drv, ssl, wire, size, again)} :
           LET g == [gen EXCEPT !.inbuf = IF r.n > 0 THEN r.n - 1 ELSE 0,
                                !.eof = @ \/ r.n = 0]
           IN  /\ gen' = Armed(g)
               /\ drv' = Watched(r.drv, g)
               /\ ssl' = r.ssl
               /\ wire' = r.wire
               /\ hist' = [hist EXCEPT !.rx = IF r.n > 0 THEN @ + 1 ELSE @]
    /\ frames' = HandledRead

\* puts and flush: the unit is queued, and flushed at once unless a background
\* flush is scheduled already.
Write ==
    /\ ScriptRuns("write") /\ hist.wr < MaxWrites
    /\ gen' = [gen EXCEPT !.outbuf = @ + 1, !.flush = ~gen.bg]
    /\ hist' = [hist EXCEPT !.wr = @ + 1]
    /\ UNCHANGED <<drv, ssl, wire, frames>>

\* fileevent: the interest changes and is passed to the driver.
Fileevent ==
    /\ ScriptRuns("fileevent")
    /\ \E mask \in Interests :
         LET g == [gen EXCEPT !.interest = mask]
         IN  /\ mask # gen.interest
             /\ gen' = Armed(g)
             /\ drv' = Watched(drv, g)
    /\ UNCHANGED <<ssl, wire, frames, hist>>

\* fconfigure -blocking.
Fconfigure ==
    /\ ScriptRuns("fconfigure")
    /\ \E async \in Modes :
         /\ async # Is(drv, "ASYNC")
         /\ drv' = TlsBlockModeProc(drv, async)
    /\ UNCHANGED <<ssl, wire, gen, frames, hist>>

\* tls::handshake.
Handshake ==
    /\ ScriptRuns("handshake")
    /\ \E again \in Again :
         \E h \in {Tls_WaitForConnect(drv, ssl, wire, TRUE, again)} :
           /\ drv' = h.drv
           /\ ssl' = h.ssl
           /\ wire' = h.wire
           /\ hist' = [hist EXCEPT !.ok = @ \/ (Is(drv, "ASYNC") /\ HandshakeResult(drv, h) = "1")]
    /\ UNCHANGED <<gen, frames>>

\* The channel without its script: no fileevents and no input any more.
Abandoned(g) ==
    [g EXCEPT !.open = FALSE, !.interest = {}, !.inbuf = 0, !.gtimer = FALSE]

\* close: queued output is flushed first, in the background if it has to be.
Close ==
    /\ ScriptRuns("close")
    /\ LET g == Abandoned(gen)
           d == Watched(drv, g)
           c == TlsCloseProc(d, ssl)
       IN  IF gen.outbuf = 0
           THEN gen' = g /\ drv' = c.drv /\ ssl' = c.ssl
           ELSE gen' = [g EXCEPT !.flush = ~gen.bg] /\ drv' = d /\ UNCHANGED ssl
    /\ UNCHANGED <<wire, frames, hist>>

\* tls::unimport: the channel is unstacked, which closes the TLS layer only.
\* Tcl_Flush of a channel with a scheduled background flush does nothing.
Unimport ==
    /\ ScriptRuns("unimport")
    /\ LET c == TlsCloseProc(drv, ssl)
       IN  drv' = c.drv /\ ssl' = c.ssl
    /\ gen' = [Abandoned(gen) EXCEPT !.plain = TRUE]
    /\ UNCHANGED <<wire, frames, hist>>

-----------------------------------------------------------------------------
(* FlushChannel: hands the queued units to the driver one after the other, *)
(* until they are gone, the driver blocks, or it fails.                    *)

\* Nothing is queued any more: a scheduled flush is taken off, and a channel
\* that its script closed is closed now.
Flushed(g, d, s) ==
    LET done == [g EXCEPT !.flush = FALSE, !.bg = FALSE]
        e    == IF g.bg THEN TlsWatchProc(d, g.interest) ELSE d
        c    == TlsCloseProc(e, s)
    IN  /\ gen' = done
        /\ drv' = IF g.open THEN e ELSE c.drv
        /\ ssl' = IF g.open THEN s ELSE c.ssl

FlushEmpty ==
    /\ gen.flush /\ gen.outbuf = 0
    /\ Flushed(gen, drv, ssl)
    /\ UNCHANGED <<wire, frames, hist>>

\* The answer r of the output procedure to one unit.  A background flush that
\* wrote the last unit ends; the next writable event finds nothing to write.
FlushTaken(r) ==
    /\ r.n >= 0
    /\ gen' = [gen EXCEPT !.outbuf = @ - r.n, !.flush = ~(gen.bg /\ gen.outbuf = r.n)]
    /\ drv' = r.drv /\ ssl' = r.ssl
    /\ UNCHANGED hist

FlushBlocked(r) ==
    /\ r.n < 0 /\ r.err = "EAGAIN"
    /\ LET g == [gen EXCEPT !.flush = FALSE, !.bg = TRUE]
       IN  /\ gen' = Armed(g)
           /\ drv' = IF gen.bg THEN r.drv ELSE Watched(r.drv, g)
    /\ ssl' = r.ssl
    /\ UNCHANGED hist

FlushFailed(r) ==
    /\ r.n < 0 /\ r.err # "EAGAIN"
    /\ Flushed([gen EXCEPT !.outbuf = 0], r.drv, r.ssl)
    /\ hist' = [hist EXCEPT !.lost = @ + gen.outbuf]

FlushUnit ==
    /\ gen.flush /\ gen.outbuf > 0
    /\ \E again \in Again :
         \E r \in {TlsOutputProc(drv, ssl, wire, again)} :
           /\ FlushTaken(r) \/ FlushBlocked(r) \/ FlushFailed(r)
           /\ wire' = r.wire
    /\ UNCHANGED frames

-----------------------------------------------------------------------------
(* Events.  Tcl_NotifyChannel runs a background flush if the channel is    *)
(* writable, then the scripts; the frame stays until they are done.        *)

\* The event loop runs, at the top level or inside a handler.
EventLoop == Len(frames) < MaxFrames /\ ~gen.flush /\ drv.life = "live"

Enter(kind, mask) ==
    /\ frames' = Append(frames, [kind |-> kind, read |-> "R" \in mask \cap gen.interest])
    /\ gen' = [gen EXCEPT !.flush = gen.bg /\ "W" \in mask]

\* The socket is ready in a direction that is watched.
Ready ==
    (IF wire.in # <<>> \/ wire.end # "open" THEN {"R"} ELSE {})
    \cup (IF wire.room > 0 \/ wire.end = "reset" THEN {"W"} ELSE {})

SocketEvent ==
    /\ EventLoop
    /\ drv.watch \cap Ready # {}
    /\ \E again \in Again :
         \E r \in {TlsNotifyProc(drv, ssl, wire, again)} :
           /\ drv' = r.drv /\ ssl' = r.ssl /\ wire' = r.wire
           /\ IF r.up THEN Enter("event", drv.watch \cap Ready) ELSE UNCHANGED <<frames, gen>>
    /\ UNCHANGED hist

\* TlsChannelHandlerTimer: the timer is gone but its reference is kept until
\* the handlers are done.  An empty mask makes Tcl_NotifyChannel do nothing.
TimerFire ==
    /\ EventLoop
    /\ drv.timer
    /\ LET mask == TimerMask(drv, gen.inbuf > 0 \/ ssl.pend > 0, gen.outbuf > 0)
           d == [drv EXCEPT !.timer = FALSE]
       IN  IF mask = {}
           THEN drv' = TimerDone(d) /\ UNCHANGED <<frames, gen>>
           ELSE drv' = d /\ Enter("timer", mask)
    /\ UNCHANGED <<ssl, wire, hist>>

\* Tcl's own timer (ChannelTimerProc).
GenericTimer ==
    /\ EventLoop
    /\ gen.gtimer
    /\ IF Buffered(gen)
       THEN Enter("event", {"R"}) /\ UNCHANGED drv
       ELSE LET g == [gen EXCEPT !.gtimer = FALSE]
            IN  gen' = g /\ drv' = Watched(drv, g) /\ UNCHANGED frames
    /\ UNCHANGED <<ssl, wire, hist>>

\* The handlers of the innermost event are done: the interest is renewed if the
\* channel still exists, and a timer handler gives its reference back.
Return ==
    /\ frames # <<>> /\ ~gen.flush
    /\ Eager /\ gen.open => ~Top.read
    /\ LET d == Watched(drv, gen)
           e == IF Top.kind = "timer" THEN TimerDone(d) ELSE d
       IN  /\ drv' = e
           /\ ssl' = IF drv.life = "closing" THEN Clean(e, ssl) ELSE ssl
    /\ gen' = IF drv.life = "live" THEN Armed(gen) ELSE gen
    /\ frames' = SubSeq(frames, 1, Len(frames) - 1)
    /\ UNCHANGED <<wire, hist>>

-----------------------------------------------------------------------------
(* The peer and the network.                                               *)

Receive(record) == wire' = [wire EXCEPT !.in = Append(@, record),
                                        !.peer = IF record \in {"hs", "data"} THEN "data" ELSE "done"]

PeerHandshake ==
    /\ wire.end = "open" /\ wire.peer = "hs"
    /\ Receive("hs")
    /\ UNCHANGED <<drv, ssl, gen, frames, hist>>

PeerData ==
    /\ wire.end = "open" /\ wire.peer = "data"
    /\ hist.sent + RecordUnits <= MaxUnits
    /\ Receive("data")
    /\ hist' = [hist EXCEPT !.sent = @ + RecordUnits]
    /\ UNCHANGED <<drv, ssl, gen, frames>>

PeerEnds ==
    /\ wire.end = "open" /\ wire.peer # "done"
    /\ \E record \in {"bad", "close_notify"} : Receive(record)
    /\ UNCHANGED <<drv, ssl, gen, frames, hist>>

\* The peer's side of the socket goes away; a reset may lose what was not read.
Disconnect ==
    /\ wire.end = "open"
    /\ \/ wire' = [wire EXCEPT !.end = "eof"]
       \/ \E in \in {wire.in, <<>>} : wire' = [wire EXCEPT !.end = "reset", !.in = in]
    /\ UNCHANGED <<drv, ssl, gen, frames, hist>>

\* The network takes a record from the send buffer.
Drain ==
    /\ wire.room < SendBuffer /\ wire.end # "reset"
    /\ wire' = [wire EXCEPT !.room = @ + 1]
    /\ UNCHANGED <<drv, ssl, gen, frames, hist>>

-----------------------------------------------------------------------------
Script == ReadBuffered \/ ReadDriver \/ Write \/ Fileevent \/ Fconfigure
          \/ Handshake \/ Close \/ Unimport
Flush == FlushEmpty \/ FlushUnit
Event == SocketEvent \/ TimerFire \/ GenericTimer \/ Return
Environment == PeerHandshake \/ PeerData \/ PeerEnds \/ Disconnect \/ Drain

Next == Script \/ Flush \/ Event \/ Environment

Spec == Init /\ [][Next]_vars

-----------------------------------------------------------------------------
(* Safety.                                                                 *)

\* The references held on the State structure are exactly those of a pending
\* timer and of the timer handlers that are running.
TimerFrames == {i \in DOMAIN frames : frames[i].kind = "timer"}

RefsBalanced == drv.refs = (IF drv.timer THEN 1 ELSE 0) + Cardinality(TimerFrames)

\* The State structure is freed only when no timer is pending and no timer
\* handler of it is running, and a closed channel is not kept longer than that:
\* TlsCloseProc deletes the timer and TlsChannelHandlerTimer releases last.
StateLifetime ==
    /\ drv.life = "freed" => ~drv.timer /\ TimerFrames = {}
    /\ drv.life = "closing" => ~drv.timer /\ TimerFrames # {}

\* TLS_TCL_INIT is cleared only by a completed handshake, and no application
\* data passes in either direction before: TlsInputProc and TlsOutputProc go
\* through Tls_WaitForConnect first.
DataAfterHandshake ==
    /\ ~Is(drv, "INIT") => ssl.hs = 2
    /\ hist.rx + gen.inbuf > 0 \/ ssl.tx > 0 => ~Is(drv, "INIT")

\* Every unit the script wrote is on the wire once, still queued, or dropped
\* after an error was reported: an output procedure that answers EAGAIN has not
\* taken the unit, and a record kept for the retry is not written twice.
OutputExactlyOnce == hist.wr = ssl.tx + gen.outbuf + hist.lost

\* A read reports EOF only if the connection did end: EAGAIN is never mistaken
\* for EOF by TlsInputProc or by the BIO.  After a clean end (close_notify) the
\* script got everything the peer sent.
EofJustified ==
    gen.eof => /\ ssl.got \/ wire.end # "open" \/ Is(drv, "FATAL_ERROR")
               /\ ssl.got /\ gen.open => hist.rx + gen.inbuf = hist.sent

\* tls::handshake on a non-blocking channel returns 1 only when the handshake is complete,
\* whatever drove it before (HandshakeObjCmd).  A blocking channel is told 1 too early when
\* the retries of Tls_WaitForConnect are used up, or when the client hello callback of a
\* server asks to be called again: HandshakeObjCmd looks at EAGAIN only under TLS_TCL_ASYNC.
HandshakeOneMeansDone == hist.ok => ~Is(drv, "INIT")

\* TLS_TCL_FATAL_ERROR and TLS_TCL_EOF are never taken back: after a fatal error
\* the session is not used any more, except that freeing it calls SSL_shutdown,
\* and after EOF nothing more is read from it.
FinalStep ==
    /\ Is(drv, "FATAL_ERROR") => /\ Is(drv, "FATAL_ERROR")'
                                 /\ ssl' \in {ssl, SslShutdown(ssl)}
                                 /\ ssl' # ssl => drv'.life = "freed"
    /\ Is(drv, "EOF") => Is(drv, "EOF")' /\ ssl'.pend = ssl.pend

\* No step of TlsInputProc, TlsOutputProc, TlsNotifyProc or TlsCloseProc takes a
\* failure or an EOF back.
FailureIsFinal == [][FinalStep]_vars

-----------------------------------------------------------------------------
\* The stream the script sees.
Stream == INSTANCE TlsStream WITH
    up <- ~Is(drv, "INIT"),
    stage <- IF Is(drv, "FATAL_ERROR") THEN "failed" ELSE IF Is(drv, "EOF") THEN "ended"
             ELSE "running",
    open <- gen.open, sent <- hist.sent, ready <- gen.inbuf, rx <- hist.rx,
    wr <- hist.wr, tx <- ssl.tx, lost <- hist.lost

\* The driver under Tcl's generic layer implements that stream: nothing moves
\* before the handshake, nothing is invented, repeated or dropped without a
\* failure, and an end or a failure is for good.
ImplementsStream == Stream!Spec

-----------------------------------------------------------------------------
(* Liveness.                                                               *)

\* The script that was called for a readable channel reads.
HandlerReads == frames # <<>> /\ Top.read /\ (ReadBuffered \/ ReadDriver)

\* The event loop serves each source that stays or keeps becoming ready (timers
\* and sockets are both looked at in every round of Tcl_DoOneEvent), handlers
\* come to their end, FlushChannel is a loop, and the network takes what is in
\* the send buffer.  Nothing is assumed of the peer or of the other commands, and
\* nothing of a call that the channel below may block.
NonBlocked == Is(drv, "ASYNC")

Fairness ==
    /\ SF_vars(NonBlocked /\ SocketEvent) /\ SF_vars(TimerFire) /\ SF_vars(GenericTimer)
    /\ WF_vars(NonBlocked /\ HandlerReads) /\ WF_vars(Return)
    /\ WF_vars(NonBlocked /\ Flush) /\ WF_vars(Drain)

FairSpec == Spec /\ Fairness

\* Everything the peer sent reaches a script that watches for it, also what
\* OpenSSL has decrypted already and no socket event will announce, unless the
\* session ends first.
Delivery ==
    (hist.rx < hist.sent /\ "R" \in gen.interest)
        ~> (hist.rx = hist.sent \/ Is(drv, "EOF") \/ "R" \notin gen.interest)

\* The State of a channel that its script closed is freed, also when the close
\* came from a handler of the channel's own timer or left output to be flushed in
\* the background.  Only output that cannot be written may keep it: the handshake
\* is not complete, or TLS_TCL_FATAL_ERROR or TLS_TCL_EOF is set.
ClosedIsFreed ==
    ~gen.open ~> \/ drv.life = "freed"
                 \/ gen.outbuf > 0 /\ (Is(drv, "INIT") \/ Is(drv, "FATAL_ERROR") \/ Is(drv, "EOF"))

=============================================================================
