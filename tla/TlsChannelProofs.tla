--------------------------- MODULE TlsChannelProofs ---------------------------
(***************************************************************************)
(* Theorems about every instance of TlsChannel: any number of nested       *)
(* handlers, any amount of data, any script, any peer.                     *)
(***************************************************************************)
EXTENDS TlsChannel, TlsDriverProofs, FiniteSetTheorems

-----------------------------------------------------------------------------
(* The timer handlers that are running.                                    *)

Timers(fs) == {i \in DOMAIN fs : fs[i].kind = "timer"}
Running == Cardinality(TimerFrames)
One(b) == IF b THEN 1 ELSE 0

\* There are finitely many handlers called by TlsChannelHandlerTimer.
LEMMA TimersFinite ==
    ASSUME NEW fs \in Seq(Frame)
    PROVE  /\ IsFiniteSet(Timers(fs))
           /\ Cardinality(Timers(fs)) \in Nat
           /\ Cardinality(Timers(fs)) = 0 <=> Timers(fs) = {}
<1>1. Len(fs) \in Nat /\ DOMAIN fs = 1..Len(fs)
  OBVIOUS
<1>2. IsFiniteSet(1..Len(fs))
  BY <1>1, FS_Interval
<1>3. Timers(fs) \in SUBSET (1..Len(fs))
  BY <1>1 DEF Timers
<1>4. IsFiniteSet(Timers(fs))
  BY <1>2, <1>3, FS_Subset
<1>5. QED
  BY <1>4, FS_CardinalityType, FS_EmptySet

\* Calling a handler adds it.
LEMMA TimersAppend ==
    ASSUME NEW fs \in Seq(Frame), NEW f \in Frame
    PROVE  Cardinality(Timers(Append(fs, f)))
             = Cardinality(Timers(fs)) + One(f.kind = "timer")
<1> DEFINE n == Len(fs) + 1
           new == Append(fs, f)
<1>1. /\ Len(fs) \in Nat /\ DOMAIN fs = 1..Len(fs) /\ DOMAIN new = 1..n
      /\ new[n] = f /\ \A i \in 1..Len(fs) : new[i] = fs[i]
  OBVIOUS
<1>2. IsFiniteSet(Timers(fs)) /\ Cardinality(Timers(fs)) \in Nat
  BY TimersFinite
<1>3. n \notin Timers(fs)
  BY <1>1 DEF Timers
<1>4. 1..n = (1..Len(fs)) \cup {n}
  BY <1>1
<1> HIDE DEF n, new
<1>5. CASE f.kind = "timer"
  <2>1. Timers(new) = Timers(fs) \cup {n}
    BY <1>1, <1>4, <1>5 DEF Timers
  <2>2. QED
    BY <1>2, <1>3, <1>5, <2>1, FS_AddElement DEF One, new
<1>6. CASE f.kind # "timer"
  <2>1. Timers(new) = Timers(fs)
    BY <1>1, <1>4, <1>6 DEF Timers
  <2>2. QED
    BY <1>2, <1>6, <2>1 DEF One, new
<1>7. QED
  BY <1>5, <1>6

\* The return of the innermost handler removes it.
LEMMA TimersPop ==
    ASSUME NEW fs \in Seq(Frame), fs # <<>>
    PROVE  LET less == SubSeq(fs, 1, Len(fs) - 1)
           IN  /\ less \in Seq(Frame)
               /\ Cardinality(Timers(fs))
                    = Cardinality(Timers(less)) + One(fs[Len(fs)].kind = "timer")
<1> DEFINE n == Len(fs)
           less == SubSeq(fs, 1, n - 1)
<1>1. n \in Nat /\ n >= 1 /\ DOMAIN fs = 1..n
  OBVIOUS
<1>2. less \in Seq(Frame) /\ DOMAIN less = 1..(n - 1) /\ \A i \in 1..(n - 1) : less[i] = fs[i]
  BY <1>1
<1>3. 1..n = (1..(n - 1)) \cup {n} /\ n \notin 1..(n - 1)
  BY <1>1
<1>4. IsFiniteSet(Timers(less)) /\ Cardinality(Timers(less)) \in Nat
  BY <1>2, TimersFinite
<1> HIDE DEF n, less
<1>5. n \notin Timers(less)
  BY <1>2, <1>3 DEF Timers
<1>6. CASE fs[n].kind = "timer"
  <2>1. Timers(fs) = Timers(less) \cup {n}
    BY <1>1, <1>2, <1>3, <1>6 DEF Timers
  <2>2. QED
    BY <1>2, <1>4, <1>5, <1>6, <2>1, FS_AddElement DEF One, less, n
<1>7. CASE fs[n].kind # "timer"
  <2>1. Timers(fs) = Timers(less)
    BY <1>1, <1>2, <1>3, <1>7 DEF Timers
  <2>2. QED
    BY <1>2, <1>4, <1>7, <2>1 DEF One, less, n
<1>8. QED
  BY <1>6, <1>7

\* A handler that has read is still the same handler.
LEMMA TimersRead ==
    ASSUME NEW fs \in Seq(Frame), fs # <<>>
    PROVE  LET new == [fs EXCEPT ![Len(fs)].read = FALSE]
           IN  new \in Seq(Frame) /\ Timers(new) = Timers(fs)
<1> DEFINE n == Len(fs)
           f == [fs[n] EXCEPT !.read = FALSE]
           new == [fs EXCEPT ![n] = f]
<1>1. n \in Nat /\ n \in DOMAIN fs /\ fs[n] \in Frame
  OBVIOUS
<1>2. f \in Frame /\ f.kind = fs[n].kind
  BY <1>1 DEF Frame
<1> HIDE DEF f
<1>3. new \in Seq(Frame) /\ DOMAIN new = DOMAIN fs
      /\ \A i \in DOMAIN fs : new[i] = IF i = n THEN f ELSE fs[i]
  BY <1>1, <1>2
<1>4. Timers(new) = Timers(fs)
  BY <1>2, <1>3 DEF Timers
<1>5. QED
  BY <1>3, <1>4 DEF f

-----------------------------------------------------------------------------
(* The inductive invariant.                                                *)

\* The generic layer calls the driver only while the channel is not closed.
InUse == gen.open \/ gen.flush => drv.life = "live"

\* Data moved only over an established session.
DataMoved == hist.rx + gen.inbuf > 0 \/ ssl.tx > 0 => ~Is(drv, "INIT")

IInv ==
    /\ TypeOK
    /\ Held(drv, Running) /\ Alive(drv, Running)
    /\ InUse
    /\ Secured(drv, ssl) /\ DataMoved
    /\ OutputExactlyOnce

\* The inductive invariant implies the safety properties of the channel.
LEMMA InvariantParts ==
    ASSUME IInv
    PROVE  /\ RefsBalanced /\ StateLifetime /\ DataAfterHandshake
           /\ Running \in Nat
<1>1. frames \in Seq(Frame) /\ TimerFrames = Timers(frames)
  BY DEF IInv, TypeOK, TimerFrames, Timers
<1>2. Running \in Nat /\ (Running = 0 <=> TimerFrames = {})
  BY <1>1, TimersFinite DEF Running
<1>3. QED
  BY <1>2 DEF IInv, Held, Alive, Secured, DataMoved, RefsBalanced, StateLifetime,
              DataAfterHandshake, Running

\* A channel that ImportObjCmd has just made satisfies the invariant.
LEMMA InitInvariant ==
    ASSUME Init
    PROVE  IInv
<1>1. TypeOK
  <2>1. ASSUME NEW async \in BOOLEAN PROVE NewDrv(async) \in Drv
    BY DEF NewDrv, Drv, Flag, Direction, Life
  <2>2. drv \in Drv /\ Modes \subseteq BOOLEAN
    BY <2>1, ChannelAssumption DEF Init
  <2>3. ssl \in Ssl /\ gen \in Gen /\ frames \in Seq(Frame) /\ hist \in Hist
    BY DEF Init, NewSsl, Ssl, Gen, Hist, Direction
  <2>4. wire \in Wire
    BY ChannelAssumption DEF Init, Wire, Ends
  <2>5. QED
    BY <2>2, <2>3, <2>4 DEF TypeOK
<1>2. Timers(<<>>) = {} /\ frames = <<>>
  BY DEF Timers, Init
<1>3. Running = 0
  BY <1>2, FS_EmptySet DEF Running, TimerFrames, Timers
<1>4. drv.refs = 0 /\ ~drv.timer /\ drv.life = "live" /\ Is(drv, "INIT")
  BY DEF Init, NewDrv, Is
<1>5. QED
  BY <1>1, <1>3, <1>4
     DEF IInv, Held, Alive, InUse, Secured, DataMoved, OutputExactlyOnce, Init, NewSsl

-----------------------------------------------------------------------------
(* The generic layer's operators.                                          *)

\* One field of the channel is set.
LEMMA OutbufSet ==
    ASSUME NEW g \in Gen, NEW n \in Nat
    PROVE  LET new == [g EXCEPT !.outbuf = n]
           IN  /\ new \in Gen /\ new.open = g.open /\ new.flush = g.flush /\ new.bg = g.bg
               /\ new.inbuf = g.inbuf /\ new.outbuf = n
  BY DEF Gen

\* The buffered input changes.
LEMMA InbufSet ==
    ASSUME NEW g \in Gen, NEW n \in Nat
    PROVE  LET new == [g EXCEPT !.inbuf = n]
           IN  /\ new \in Gen /\ new.open = g.open /\ new.flush = g.flush /\ new.bg = g.bg
               /\ new.inbuf = n /\ new.outbuf = g.outbuf
  BY DEF Gen

\* FlushChannel begins or ends.
LEMMA FlushSet ==
    ASSUME NEW g \in Gen, NEW b \in BOOLEAN
    PROVE  LET new == [g EXCEPT !.flush = b]
           IN  /\ new \in Gen /\ new.open = g.open /\ new.flush = b /\ new.bg = g.bg
               /\ new.inbuf = g.inbuf /\ new.outbuf = g.outbuf
  BY DEF Gen

\* BG_FLUSH_SCHEDULED is set or cleared.
LEMMA BgSet ==
    ASSUME NEW g \in Gen, NEW b \in BOOLEAN
    PROVE  LET new == [g EXCEPT !.bg = b]
           IN  /\ new \in Gen /\ new.open = g.open /\ new.flush = g.flush /\ new.bg = b
               /\ new.inbuf = g.inbuf /\ new.outbuf = g.outbuf
  BY DEF Gen

\* A read reports EOF.
LEMMA EofSet ==
    ASSUME NEW g \in Gen, NEW b \in BOOLEAN
    PROVE  LET new == [g EXCEPT !.eof = b]
           IN  /\ new \in Gen /\ new.open = g.open /\ new.flush = g.flush /\ new.bg = g.bg
               /\ new.inbuf = g.inbuf /\ new.outbuf = g.outbuf
  BY DEF Gen

\* Tcl's own timer for buffered input is set.
LEMMA ArmedType ==
    ASSUME NEW g \in Gen
    PROVE  LET new == Armed(g)
           IN  /\ new \in Gen /\ new.open = g.open /\ new.flush = g.flush
               /\ new.inbuf = g.inbuf /\ new.outbuf = g.outbuf
  BY DEF Armed, Buffered, Gen

\* The script gives the channel up, by close or tls::unimport.
LEMMA AbandonedType ==
    ASSUME NEW g \in Gen
    PROVE  LET new == Abandoned(g)
           IN  /\ new \in Gen /\ new.open = FALSE /\ new.flush = g.flush
               /\ new.inbuf = 0 /\ new.outbuf = g.outbuf
  BY DEF Abandoned, Gen

\* TlsWatchProc, called by the generic layer, keeps the balance of references: it
\* replaces a pending timer or sets one, and takes a reference with it.
LEMMA WatchedType ==
    ASSUME NEW d \in Drv, NEW g \in Gen, NEW k \in Nat, Held(d, k), Alive(d, k)
    PROVE  LET new == Watched(d, g)
           IN  /\ new \in Drv /\ SameFlags(d, new) /\ Held(new, k) /\ Alive(new, k)
               /\ new.life = d.life
<1>1. CASE d.life = "live"
  <2>1. WatchMask(g) \in SUBSET Direction
    BY DEF WatchMask, Gen, Direction
  <2>2. Watched(d, g) = TlsWatchProc(d, WatchMask(g))
    BY <1>1 DEF Watched
  <2>3. QED
    BY <1>1, <2>1, <2>2, WatchProcType DEF Alive
<1>2. CASE d.life # "live"
  BY <1>2 DEF Watched, SameFlags
<1>3. QED
  BY <1>1, <1>2

\* What a session with the same flags keeps.
LEMMA SameFlagsIs ==
    ASSUME NEW d, NEW e, SameFlags(d, e), NEW f
    PROVE  Is(e, f) = Is(d, f)
  BY DEF SameFlags, Is

\* A handler that reads stays on the stack.
LEMMA HandledReadType ==
    ASSUME frames \in Seq(Frame)
    PROVE  HandledRead \in Seq(Frame) /\ Timers(HandledRead) = Timers(frames)
  BY TimersRead DEF HandledRead

-----------------------------------------------------------------------------
(* Each action keeps the invariant and takes no failure back.              *)

\* What the proofs use of a state that satisfies the invariant.
LEMMA InvariantFacts ==
    ASSUME IInv
    PROVE  /\ drv \in Drv /\ ssl \in Ssl /\ wire \in Wire /\ gen \in Gen
           /\ frames \in Seq(Frame) /\ hist \in Hist
           /\ Running \in Nat /\ Held(drv, Running) /\ Alive(drv, Running)
           /\ Secured(drv, ssl)
           /\ gen.inbuf \in Nat /\ gen.outbuf \in Nat /\ ssl.tx \in Nat /\ ssl.pend \in Nat
           /\ hist.rx \in Nat /\ hist.wr \in Nat /\ hist.lost \in Nat
           /\ gen.open \in BOOLEAN /\ gen.bg \in BOOLEAN /\ gen.flush \in BOOLEAN
<1>1. /\ drv \in Drv /\ ssl \in Ssl /\ wire \in Wire /\ gen \in Gen
      /\ frames \in Seq(Frame) /\ hist \in Hist
      /\ Running \in Nat /\ Held(drv, Running) /\ Alive(drv, Running)
      /\ Secured(drv, ssl)
  BY InvariantParts DEF IInv, TypeOK
<1>2. /\ gen.inbuf \in Nat /\ gen.outbuf \in Nat /\ gen.open \in BOOLEAN
      /\ gen.bg \in BOOLEAN /\ gen.flush \in BOOLEAN
  BY <1>1 DEF Gen
<1>3. ssl.tx \in Nat /\ ssl.pend \in Nat
  BY <1>1 DEF Ssl
<1>4. hist.rx \in Nat /\ hist.wr \in Nat /\ hist.lost \in Nat
  BY <1>1 DEF Hist
<1>5. QED
  BY <1>1, <1>2, <1>3, <1>4

\* The number of running timer handlers depends on the timer frames only.
LEMMA RunningSame ==
    ASSUME Timers(frames') = Timers(frames)
    PROVE  Running' = Running
  BY DEF Running, TimerFrames, Timers

\* What a step has to show to keep the invariant: an established session stays
\* established, so that data that has moved stays legitimate.
LEMMA StepInvariant ==
    ASSUME IInv,
           drv' \in Drv, ssl' \in Ssl, wire' \in Wire, gen' \in Gen,
           frames' \in Seq(Frame), hist' \in Hist,
           Held(drv', Running'), Alive(drv', Running'),
           Keeps(drv, drv'), Secured(drv', ssl'), InUse', OutputExactlyOnce',
           hist'.rx + gen'.inbuf > 0 \/ ssl'.tx > 0 =>
               hist.rx + gen.inbuf > 0 \/ ssl.tx > 0 \/ ~Is(drv', "INIT")
    PROVE  IInv'
<1>1. TypeOK'
  BY DEF TypeOK
<1>2. DataMoved'
  BY DEF IInv, DataMoved, Keeps, Is
<1>3. QED
  BY <1>1, <1>2 DEF IInv

\* Two structures with the same flags are one session.
LEMMA SameFlagsKeeps ==
    ASSUME NEW d, NEW e, SameFlags(d, e), NEW s, Secured(d, s)
    PROVE  Keeps(d, e) /\ Secured(e, s)
  BY SameFlagsIs DEF Keeps, Secured

\* A step that leaves the SSL object alone and only raises flags.
LEMMA FinalSame ==
    ASSUME Keeps(drv, drv'), ssl' = ssl
    PROVE  FinalStep
<1>1. \A f : Is(drv, f)' = Is(drv', f)
  BY DEF Is
<1>2. QED
  BY <1>1 DEF FinalStep, Keeps

\* TlsBlockModeProc changes only TLS_TCL_ASYNC.
LEMMA BlockModeType ==
    ASSUME NEW d \in Drv, NEW async
    PROVE  LET new == TlsBlockModeProc(d, async)
           IN  /\ new \in Drv /\ Holds(d, new) /\ Keeps(d, new)
               /\ Is(new, "INIT") = Is(d, "INIT")
  BY DEF TlsBlockModeProc, Drv, Holds, Keeps, Is, Flag

\* A read that the buffer serves.
LEMMA ReadBufferedStep ==
    ASSUME IInv, ReadBuffered
    PROVE  IInv' /\ FinalStep
<1> DEFINE g == [gen EXCEPT !.inbuf = @ - 1]
<1>1. /\ gen.open /\ ~gen.flush /\ gen.inbuf > 0
      /\ gen' = Armed(g) /\ drv' = Watched(drv, g)
      /\ hist' = [hist EXCEPT !.rx = @ + 1] /\ frames' = HandledRead
      /\ ssl' = ssl /\ wire' = wire
  BY DEF ReadBuffered, ScriptRuns
<1>a. gen.inbuf - 1 \in Nat
  BY <1>1, InvariantFacts
<1>2. g \in Gen /\ g.open /\ g.inbuf = gen.inbuf - 1 /\ g.outbuf = gen.outbuf
  BY <1>1, <1>a, InvariantFacts, InbufSet
<1> HIDE DEF g
<1>3. gen' \in Gen /\ gen'.open /\ gen'.inbuf = gen.inbuf - 1 /\ gen'.outbuf = gen.outbuf
  BY <1>1, <1>2, ArmedType
<1>4. /\ drv' \in Drv /\ SameFlags(drv, drv') /\ Held(drv', Running)
      /\ Alive(drv', Running) /\ drv'.life = drv.life
  BY <1>1, <1>2, InvariantFacts, WatchedType
<1>5. frames' \in Seq(Frame) /\ Running' = Running
  BY <1>1, InvariantFacts, HandledReadType, RunningSame
<1>6. /\ hist' \in Hist /\ hist'.rx = hist.rx + 1 /\ hist'.wr = hist.wr
      /\ hist'.lost = hist.lost
  BY <1>1, InvariantFacts DEF Hist
<1>7. Keeps(drv, drv') /\ Secured(drv', ssl')
  BY <1>1, <1>4, InvariantFacts, SameFlagsKeeps
<1>8. InUse' /\ OutputExactlyOnce'
  BY <1>1, <1>3, <1>4, <1>6 DEF IInv, InUse, OutputExactlyOnce
<1>9. hist'.rx + gen'.inbuf > 0 \/ ssl'.tx > 0 =>
          hist.rx + gen.inbuf > 0 \/ ssl.tx > 0 \/ ~Is(drv', "INIT")
  BY <1>1, <1>3, <1>6, InvariantFacts DEF Hist, Gen
<1>10. QED
  BY <1>1, <1>3, <1>4, <1>5, <1>6, <1>7, <1>8, <1>9, InvariantFacts, StepInvariant, FinalSame

\* A step that disturbs neither the driver nor the data.
LEMMA QuietStep ==
    ASSUME IInv, wire' \in Wire, gen' \in Gen, hist' \in Hist,
           drv' = drv, ssl' = ssl, frames' = frames,
           hist'.rx = hist.rx, gen'.inbuf = gen.inbuf,
           gen'.open \/ gen'.flush => gen.open \/ gen.flush,
           OutputExactlyOnce'
    PROVE  IInv' /\ FinalStep
<1>1. Running' = Running
  BY RunningSame DEF Timers
<1>2. Keeps(drv, drv')
  BY DEF Keeps
<1>3. InUse'
  BY DEF IInv, InUse
<1>4. QED
  BY <1>1, <1>2, <1>3, InvariantFacts, StepInvariant, FinalSame

\* puts: the unit is queued, so that it is counted once.
LEMMA WriteStep ==
    ASSUME IInv, Write
    PROVE  IInv' /\ FinalStep
<1>1. /\ gen.open
      /\ gen' = [gen EXCEPT !.outbuf = @ + 1, !.flush = ~gen.bg]
      /\ hist' = [hist EXCEPT !.wr = @ + 1]
      /\ drv' = drv /\ ssl' = ssl /\ wire' = wire /\ frames' = frames
  BY DEF Write, ScriptRuns
<1> DEFINE n == gen.outbuf + 1
           g == [gen EXCEPT !.outbuf = n]
<1>a. n \in Nat /\ gen \in Gen
  BY InvariantFacts
<1>b. PICK b \in BOOLEAN : gen' = [g EXCEPT !.flush = b]
  BY <1>1
<1> HIDE DEF n
<1>c. g \in Gen /\ g.inbuf = gen.inbuf /\ g.outbuf = n
  BY <1>a, OutbufSet
<1> HIDE DEF g
<1>2. gen' \in Gen /\ gen'.inbuf = gen.inbuf /\ gen'.outbuf = gen.outbuf + 1
  BY <1>b, <1>c, FlushSet DEF n
<1>3. /\ hist' \in Hist /\ hist'.rx = hist.rx /\ hist'.wr = hist.wr + 1
      /\ hist'.lost = hist.lost
  BY <1>1, InvariantFacts DEF Hist
<1>4. OutputExactlyOnce'
  BY <1>1, <1>2, <1>3, InvariantFacts DEF IInv, OutputExactlyOnce
<1>5. QED
  BY <1>1, <1>2, <1>3, <1>4, InvariantFacts, QuietStep

\* fileevent: TlsWatchProc is called with the new interest.
LEMMA FileeventStep ==
    ASSUME IInv, Fileevent
    PROVE  IInv' /\ FinalStep
<1>1. PICK mask \in Interests :
        /\ gen' = Armed([gen EXCEPT !.interest = mask])
        /\ drv' = Watched(drv, [gen EXCEPT !.interest = mask])
  BY DEF Fileevent
<1>2. /\ ssl' = ssl /\ wire' = wire /\ frames' = frames /\ hist' = hist
      /\ gen.open
  BY DEF Fileevent, ScriptRuns
<1> DEFINE g == [gen EXCEPT !.interest = mask]
<1>3. g \in Gen /\ g.inbuf = gen.inbuf /\ g.outbuf = gen.outbuf
  BY InvariantFacts, ChannelAssumption DEF Gen
<1> HIDE DEF g
<1>4. gen' \in Gen /\ gen'.inbuf = gen.inbuf /\ gen'.outbuf = gen.outbuf
  BY <1>1, <1>3, ArmedType DEF g
<1>5. /\ drv' \in Drv /\ SameFlags(drv, drv') /\ Held(drv', Running)
      /\ Alive(drv', Running) /\ drv'.life = drv.life
  BY <1>1, <1>3, InvariantFacts, WatchedType DEF g
<1>6. Running' = Running
  BY <1>2, RunningSame DEF Timers
<1>7. Keeps(drv, drv') /\ Secured(drv', ssl')
  BY <1>2, <1>5, InvariantFacts, SameFlagsKeeps
<1>8. InUse' /\ OutputExactlyOnce'
  BY <1>2, <1>4, <1>5 DEF IInv, InUse, OutputExactlyOnce
<1>9. QED
  BY <1>2, <1>4, <1>5, <1>6, <1>7, <1>8, InvariantFacts, StepInvariant, FinalSame

\* fconfigure -blocking: TlsBlockModeProc.
LEMMA FconfigureStep ==
    ASSUME IInv, Fconfigure
    PROVE  IInv' /\ FinalStep
<1>1. PICK async \in Modes : drv' = TlsBlockModeProc(drv, async)
  BY DEF Fconfigure
<1>2. ssl' = ssl /\ wire' = wire /\ gen' = gen /\ frames' = frames /\ hist' = hist
  BY DEF Fconfigure
<1>3. drv' \in Drv /\ Holds(drv, drv') /\ Keeps(drv, drv')
      /\ Is(drv', "INIT") = Is(drv, "INIT")
  BY <1>1, InvariantFacts, BlockModeType
<1>4. Running' = Running
  BY <1>2, RunningSame DEF Timers
<1>5. Held(drv', Running) /\ Alive(drv', Running) /\ Secured(drv', ssl')
  BY <1>2, <1>3, InvariantFacts DEF Holds, Held, Alive, Secured
<1>6. InUse' /\ OutputExactlyOnce'
  BY <1>2, <1>3 DEF IInv, InUse, OutputExactlyOnce, Holds
<1>7. QED
  BY <1>2, <1>3, <1>4, <1>5, <1>6, InvariantFacts, StepInvariant, FinalSame

\* A step of FinalStep, given what the driver made of the flags.
LEMMA FinalFrom ==
    ASSUME Keeps(drv, drv'),
           Is(drv, "FATAL_ERROR") => /\ ssl' \in {ssl, SslShutdown(ssl)}
                                     /\ ssl' # ssl => drv'.life = "freed",
           Is(drv, "EOF") => ssl'.pend = ssl.pend
    PROVE  FinalStep
<1>1. \A f : Is(drv, f)' = Is(drv', f)
  BY DEF Is
<1>2. QED
  BY <1>1 DEF FinalStep, Keeps

\* The answers of the client hello callback are Booleans.
LEMMA AgainType == Again \subseteq BOOLEAN
<1>1. CASE Server
  BY <1>1 DEF Again
<1>2. CASE ~Server
  BY <1>2 DEF Again
<1>3. QED
  BY <1>1, <1>2

\* A read through TlsInputProc.
LEMMA ReadDriverStep ==
    ASSUME IInv, ReadDriver
    PROVE  IInv' /\ FinalStep
<1>0. \E size \in 1..RecordUnits, again \in Again :
        \E r \in {TlsInputProc(drv, ssl, wire, size, again)} :
          LET g == [gen EXCEPT !.inbuf = IF r.n > 0 THEN r.n - 1 ELSE 0,
                               !.eof = @ \/ r.n = 0]
          IN  /\ gen' = Armed(g)
              /\ drv' = Watched(r.drv, g)
              /\ ssl' = r.ssl
              /\ wire' = r.wire
              /\ hist' = [hist EXCEPT !.rx = IF r.n > 0 THEN @ + 1 ELSE @]
  BY ZenonT(60) DEF ReadDriver
<1>1. PICK size \in 1..RecordUnits, again \in Again :
        \E r \in {TlsInputProc(drv, ssl, wire, size, again)} :
          LET g == [gen EXCEPT !.inbuf = IF r.n > 0 THEN r.n - 1 ELSE 0,
                               !.eof = @ \/ r.n = 0]
          IN  /\ gen' = Armed(g)
              /\ drv' = Watched(r.drv, g)
              /\ ssl' = r.ssl
              /\ wire' = r.wire
              /\ hist' = [hist EXCEPT !.rx = IF r.n > 0 THEN @ + 1 ELSE @]
  BY <1>0, ZenonT(60)
<1>2. gen.open /\ ~gen.flush /\ gen.inbuf = 0 /\ frames' = HandledRead
  BY DEF ReadDriver, ScriptRuns
<1> DEFINE r == TlsInputProc(drv, ssl, wire, size, again)
           n == IF r.n > 0 THEN r.n - 1 ELSE 0
           m == IF r.n > 0 THEN hist.rx + 1 ELSE hist.rx
           h == [gen EXCEPT !.inbuf = n]
           g == [h EXCEPT !.eof = @ \/ r.n = 0]
<1>3. /\ gen' = Armed(g) /\ drv' = Watched(r.drv, g)
      /\ ssl' = r.ssl /\ wire' = r.wire /\ hist' = [hist EXCEPT !.rx = m]
  BY <1>1
<1>a. size \in Nat \ {0}
  <2>1. RecordUnits \in Nat /\ size \in 1..RecordUnits
    BY <1>1, EngineAssumption
  <2>2. QED
    BY <2>1
<1>4. again \in BOOLEAN /\ size \in Nat \ {0}
  BY <1>1, <1>a, AgainType
<1>5. /\ Moved(drv, ssl, r)
      /\ r.n > 0 => ~Is(r.drv, "INIT")
      /\ Is(drv, "EOF") => r.ssl = ssl
      /\ r.ssl.tx = ssl.tx
  BY <1>4, InvariantFacts, InputProcType
<1> HIDE DEF r
<1>6. n \in Nat /\ m \in Nat /\ m >= hist.rx
      /\ (m + n > 0 => hist.rx > 0 \/ r.n > 0)
  BY <1>5, InvariantFacts DEF Moved
<1> HIDE DEF n, m
<1>7. h \in Gen /\ h.open /\ h.outbuf = gen.outbuf /\ h.inbuf = n
  BY <1>2, <1>6, InvariantFacts, InbufSet
<1> HIDE DEF h
<1>8. g \in Gen /\ g.open /\ g.outbuf = gen.outbuf /\ g.inbuf = n
  <2>1. PICK b \in BOOLEAN : g = [h EXCEPT !.eof = b]
    OBVIOUS
  <2>2. QED
    BY <1>7, <2>1, EofSet
<1> HIDE DEF g
<1>9. gen' \in Gen /\ gen'.open /\ gen'.outbuf = gen.outbuf /\ gen'.inbuf = n
  BY <1>3, <1>8, ArmedType
<1>10. /\ drv' \in Drv /\ SameFlags(r.drv, drv') /\ Held(drv', Running)
       /\ Alive(drv', Running) /\ drv'.life = drv.life
  <2>1. r.drv \in Drv /\ Held(r.drv, Running) /\ Alive(r.drv, Running)
        /\ r.drv.life = drv.life
    BY <1>5, InvariantFacts DEF Moved, Holds, Held, Alive
  <2>2. QED
    BY <1>3, <1>8, <2>1, InvariantFacts, WatchedType
<1>11. frames' \in Seq(Frame) /\ Running' = Running
  BY <1>2, InvariantFacts, HandledReadType, RunningSame
<1>12. /\ hist' \in Hist /\ hist'.rx = m /\ hist'.wr = hist.wr /\ hist'.lost = hist.lost
  BY <1>3, <1>6, InvariantFacts DEF Hist
<1>13. \A f : Is(drv', f) = Is(r.drv, f)
  BY <1>10, SameFlagsIs
<1>14. Keeps(drv, drv') /\ Secured(drv', ssl')
  BY <1>3, <1>5, <1>13, InvariantFacts DEF Moved, Keeps, Secured
<1>15. InUse' /\ OutputExactlyOnce'
  BY <1>2, <1>3, <1>5, <1>9, <1>10, <1>12 DEF IInv, InUse, OutputExactlyOnce
<1>16. hist'.rx + gen'.inbuf > 0 \/ ssl'.tx > 0 =>
           hist.rx + gen.inbuf > 0 \/ ssl.tx > 0 \/ ~Is(drv', "INIT")
  BY <1>2, <1>3, <1>5, <1>6, <1>9, <1>12, <1>13, InvariantFacts
<1>17. FinalStep
  BY <1>3, <1>5, <1>14, FinalFrom DEF Moved
<1>18. ssl' \in Ssl /\ wire' \in Wire
  BY <1>3, <1>5 DEF Moved
<1>19. QED
  BY <1>9, <1>10, <1>11, <1>12, <1>14, <1>15, <1>16, <1>17, <1>18, StepInvariant

\* tls::handshake: Tls_WaitForConnect, called by HandshakeObjCmd.
LEMMA HandshakeStep ==
    ASSUME IInv, Handshake
    PROVE  IInv' /\ FinalStep
<1>1. PICK again \in Again :
        \E h \in {Tls_WaitForConnect(drv, ssl, wire, TRUE, again)} :
          /\ drv' = h.drv /\ ssl' = h.ssl /\ wire' = h.wire
          /\ hist' = [hist EXCEPT !.ok = @ \/ (Is(drv, "ASYNC") /\ HandshakeResult(drv, h) = "1")]
  BY DEF Handshake
<1>2. gen' = gen /\ frames' = frames /\ gen.open
  BY DEF Handshake, ScriptRuns
<1> DEFINE h == Tls_WaitForConnect(drv, ssl, wire, TRUE, again)
<1>3. drv' = h.drv /\ ssl' = h.ssl /\ wire' = h.wire
  BY <1>1
<1>4. /\ hist' \in Hist /\ hist'.rx = hist.rx /\ hist'.wr = hist.wr
      /\ hist'.lost = hist.lost
  <2>1. PICK b \in BOOLEAN : hist' = [hist EXCEPT !.ok = b]
    BY <1>1
  <2>2. QED
    BY <2>1, InvariantFacts DEF Hist
<1>5. Waited(drv, ssl, h)
  BY <1>1, AgainType, InvariantFacts, WaitForConnectType
<1> HIDE DEF h
<1>6. /\ drv' \in Drv /\ ssl' \in Ssl /\ wire' \in Wire
      /\ Holds(drv, drv') /\ Keeps(drv, drv') /\ Secured(drv', ssl')
      /\ ssl'.tx = ssl.tx /\ ssl'.pend = ssl.pend
      /\ Is(drv, "FATAL_ERROR") => ssl' = ssl
  BY <1>3, <1>5, InvariantFacts DEF Waited, SameData
<1>7. Running' = Running
  BY <1>2, RunningSame DEF Timers
<1>8. Held(drv', Running) /\ Alive(drv', Running)
  BY <1>6, InvariantFacts DEF Holds, Held, Alive
<1>9. InUse' /\ OutputExactlyOnce'
  BY <1>2, <1>4, <1>6 DEF IInv, InUse, OutputExactlyOnce, Holds
<1>10. FinalStep
  BY <1>6, FinalFrom
<1>11. QED
  BY <1>2, <1>4, <1>6, <1>7, <1>8, <1>9, <1>10, InvariantFacts, StepInvariant

\* close: TlsCloseProc, or a flush first.
LEMMA CloseStep ==
    ASSUME IInv, Close
    PROVE  IInv' /\ FinalStep
<1> DEFINE g == Abandoned(gen)
           d == Watched(drv, g)
           c == TlsCloseProc(d, ssl)
<1>1. /\ gen.open /\ ~gen.flush
      /\ wire' = wire /\ frames' = frames /\ hist' = hist
      /\ IF gen.outbuf = 0
         THEN gen' = g /\ drv' = c.drv /\ ssl' = c.ssl
         ELSE gen' = [g EXCEPT !.flush = ~gen.bg] /\ drv' = d /\ ssl' = ssl
  BY DEF Close, ScriptRuns
<1>2. Running' = Running
  BY <1>1, RunningSame DEF Timers
<1>3. g \in Gen /\ g.open = FALSE /\ g.flush = FALSE /\ g.inbuf = 0 /\ g.outbuf = gen.outbuf
  BY <1>1, InvariantFacts, AbandonedType
<1> HIDE DEF g
<1>4. /\ d \in Drv /\ SameFlags(drv, d) /\ Held(d, Running)
      /\ Alive(d, Running) /\ d.life = drv.life
  BY <1>3, InvariantFacts, WatchedType
<1> HIDE DEF d
<1>5. drv.life = "live"
  BY <1>1 DEF IInv, InUse
<1>6. \A f : Is(d, f) = Is(drv, f)
  BY <1>4, SameFlagsIs
<1>7. CASE gen.outbuf = 0
  <2>1. gen' = g /\ drv' = c.drv /\ ssl' = c.ssl
    BY <1>1, <1>7
  <2>2. /\ c.drv \in Drv /\ Held(c.drv, Running) /\ Alive(c.drv, Running)
        /\ Keeps(d, c.drv) /\ Is(c.drv, "INIT") = Is(d, "INIT")
        /\ c.ssl \in Ssl /\ c.ssl.hs = ssl.hs /\ c.ssl.pend = ssl.pend
        /\ c.ssl.tx = ssl.tx
        /\ Is(d, "FATAL_ERROR") => /\ c.ssl \in {ssl, SslShutdown(ssl)}
                                   /\ c.ssl # ssl => c.drv.life = "freed"
    BY <1>4, <1>5, InvariantFacts, CloseProcType
  <2> HIDE DEF c
  <2>3. Keeps(drv, drv') /\ Secured(drv', ssl')
    BY <1>6, <2>1, <2>2, InvariantFacts DEF Keeps, Secured
  <2>4. InUse' /\ OutputExactlyOnce'
    BY <1>1, <1>3, <2>1, <2>2 DEF IInv, InUse, OutputExactlyOnce
  <2>5. FinalStep
    BY <1>6, <2>1, <2>2, <2>3, FinalFrom
  <2>6. hist'.rx + gen'.inbuf > 0 => hist.rx + gen.inbuf > 0
    BY <1>1, <1>3, <2>1, InvariantFacts
  <2>7. QED
    BY <1>1, <1>2, <1>3, <2>1, <2>2, <2>3, <2>4, <2>5, <2>6, InvariantFacts, StepInvariant
<1>8. CASE gen.outbuf # 0
  <2>1. drv' = d /\ ssl' = ssl
    BY <1>1, <1>8
  <2>2. PICK b \in BOOLEAN : gen' = [g EXCEPT !.flush = b]
    BY <1>1, <1>8
  <2>3. gen' \in Gen /\ gen'.inbuf = 0 /\ gen'.outbuf = gen.outbuf
    BY <1>3, <2>2, FlushSet
  <2>4. Keeps(drv, drv') /\ Secured(drv', ssl')
    BY <1>4, <2>1, InvariantFacts, SameFlagsKeeps
  <2>5. InUse' /\ OutputExactlyOnce'
    BY <1>1, <1>4, <1>5, <2>1, <2>3 DEF IInv, InUse, OutputExactlyOnce
  <2>6. hist'.rx + gen'.inbuf > 0 => hist.rx + gen.inbuf > 0
    BY <1>1, <2>3, InvariantFacts
  <2>7. QED
    BY <1>1, <1>2, <1>4, <2>1, <2>3, <2>4, <2>5, <2>6, InvariantFacts, StepInvariant, FinalSame
<1>9. QED
  BY <1>7, <1>8

\* tls::unimport: TlsCloseProc.
LEMMA UnimportStep ==
    ASSUME IInv, Unimport
    PROVE  IInv' /\ FinalStep
<1> DEFINE g == Abandoned(gen)
           c == TlsCloseProc(drv, ssl)
<1>1. /\ gen.open /\ ~gen.flush
      /\ wire' = wire /\ frames' = frames /\ hist' = hist
      /\ gen' = [g EXCEPT !.plain = TRUE] /\ drv' = c.drv /\ ssl' = c.ssl
  BY DEF Unimport, ScriptRuns
<1>2. Running' = Running
  BY <1>1, RunningSame DEF Timers
<1>3. g \in Gen /\ g.open = FALSE /\ g.flush = FALSE /\ g.inbuf = 0 /\ g.outbuf = gen.outbuf
  BY <1>1, InvariantFacts, AbandonedType
<1> HIDE DEF g
<1>4. gen' \in Gen /\ gen'.open = FALSE /\ gen'.flush = FALSE /\ gen'.inbuf = 0
      /\ gen'.outbuf = gen.outbuf
  BY <1>1, <1>3 DEF Gen
<1>5. drv.life = "live"
  BY <1>1 DEF IInv, InUse
<1>6. /\ c.drv \in Drv /\ Held(c.drv, Running) /\ Alive(c.drv, Running)
      /\ Keeps(drv, c.drv) /\ Is(c.drv, "INIT") = Is(drv, "INIT")
      /\ c.ssl \in Ssl /\ c.ssl.hs = ssl.hs /\ c.ssl.pend = ssl.pend
      /\ c.ssl.tx = ssl.tx
      /\ Is(drv, "FATAL_ERROR") => /\ c.ssl \in {ssl, SslShutdown(ssl)}
                                   /\ c.ssl # ssl => c.drv.life = "freed"
  BY <1>5, InvariantFacts, CloseProcType
<1> HIDE DEF c
<1>7. Keeps(drv, drv') /\ Secured(drv', ssl')
  BY <1>1, <1>6, InvariantFacts DEF Keeps, Secured
<1>8. InUse' /\ OutputExactlyOnce'
  BY <1>1, <1>4, <1>6 DEF IInv, InUse, OutputExactlyOnce
<1>9. FinalStep
  BY <1>1, <1>6, <1>7, FinalFrom
<1>10. hist'.rx + gen'.inbuf > 0 => hist.rx + gen.inbuf > 0
  BY <1>1, <1>4, InvariantFacts
<1>11. QED
  BY <1>1, <1>2, <1>4, <1>6, <1>7, <1>8, <1>9, <1>10, InvariantFacts, StepInvariant

\* The end of FlushChannel: the queue is empty or was discarded, and TlsCloseProc is
\* called for a channel its script closed.
LEMMA FlushedStep ==
    ASSUME IInv, gen.flush, NEW g \in Gen, NEW d \in Drv, NEW s \in Ssl,
           Held(d, Running), d.life = "live", Keeps(drv, d), Secured(d, s),
           Is(drv, "FATAL_ERROR") => s = ssl, s.pend = ssl.pend,
           Flushed(g, d, s)
    PROVE  /\ drv' \in Drv /\ ssl' \in Ssl /\ gen' \in Gen
           /\ gen'.inbuf = g.inbuf /\ gen'.outbuf = g.outbuf /\ ssl'.tx = s.tx
           /\ Is(drv', "INIT") = Is(d, "INIT")
           /\ Held(drv', Running) /\ Alive(drv', Running)
           /\ Keeps(drv, drv') /\ Secured(drv', ssl') /\ InUse' /\ FinalStep
<1> DEFINE h == [g EXCEPT !.flush = FALSE]
           e == IF g.bg THEN TlsWatchProc(d, g.interest) ELSE d
           c == TlsCloseProc(e, s)
<1>1. gen' = [h EXCEPT !.bg = FALSE]
  BY DEF Flushed
<1>2. /\ drv' = IF g.open THEN e ELSE c.drv
      /\ ssl' = IF g.open THEN s ELSE c.ssl
  BY DEF Flushed
<1>3. h \in Gen /\ h.open = g.open /\ h.inbuf = g.inbuf /\ h.outbuf = g.outbuf
      /\ h.flush = FALSE
  BY FlushSet
<1> HIDE DEF h
<1>4. gen' \in Gen /\ gen'.open = g.open /\ gen'.inbuf = g.inbuf /\ gen'.outbuf = g.outbuf
      /\ gen'.flush = FALSE
  BY <1>1, <1>3, BgSet
<1>5. /\ e \in Drv /\ SameFlags(d, e) /\ Held(e, Running) /\ e.life = "live"
  <2>1. g.interest \in SUBSET Direction
    BY DEF Gen
  <2>2. CASE g.bg
    BY <2>1, <2>2, InvariantFacts, WatchProcType
  <2>3. CASE ~g.bg
    BY <2>3 DEF SameFlags
  <2>4. QED
    BY <2>2, <2>3
<1> HIDE DEF e
<1>6. \A f : Is(e, f) = Is(d, f)
  BY <1>5, SameFlagsIs
<1>7. CASE g.open
  <2>1. drv' = e /\ ssl' = s
    BY <1>2, <1>7
  <2>2. Keeps(drv, drv') /\ Secured(drv', ssl') /\ Is(drv', "INIT") = Is(d, "INIT")
    BY <1>6, <2>1 DEF Keeps, Secured
  <2>3. FinalStep
    BY <2>1, <2>2, FinalFrom
  <2>4. Alive(drv', Running) /\ InUse'
    BY <1>5, <2>1 DEF Alive, InUse
  <2>5. QED
    BY <1>4, <1>5, <2>1, <2>2, <2>3, <2>4
<1>8. CASE ~g.open
  <2>1. drv' = c.drv /\ ssl' = c.ssl
    BY <1>2, <1>8
  <2>2. /\ c.drv \in Drv /\ Held(c.drv, Running) /\ Alive(c.drv, Running)
        /\ Keeps(e, c.drv) /\ Is(c.drv, "INIT") = Is(e, "INIT")
        /\ c.ssl \in Ssl /\ c.ssl.hs = s.hs /\ c.ssl.pend = s.pend
        /\ c.ssl.tx = s.tx
        /\ Is(e, "FATAL_ERROR") => /\ c.ssl \in {s, SslShutdown(s)}
                                   /\ c.ssl # s => c.drv.life = "freed"
    BY <1>5, InvariantFacts, CloseProcType
  <2> HIDE DEF c
  <2>3. Keeps(drv, drv') /\ Secured(drv', ssl') /\ Is(drv', "INIT") = Is(d, "INIT")
    BY <1>6, <2>1, <2>2 DEF Keeps, Secured
  <2>4. FinalStep
    BY <1>6, <2>1, <2>2, <2>3, FinalFrom DEF Keeps
  <2>5. InUse'
    BY <1>4, <1>8 DEF InUse
  <2>6. QED
    BY <1>4, <2>1, <2>2, <2>3, <2>4, <2>5
<1>9. QED
  BY <1>7, <1>8

\* FlushChannel with nothing queued.
LEMMA FlushEmptyStep ==
    ASSUME IInv, FlushEmpty
    PROVE  IInv' /\ FinalStep
<1>1. /\ gen.flush /\ Flushed(gen, drv, ssl)
      /\ wire' = wire /\ frames' = frames /\ hist' = hist
  BY DEF FlushEmpty
<1>2. drv.life = "live" /\ Keeps(drv, drv)
  BY <1>1 DEF IInv, InUse, Keeps
<1>3. /\ drv' \in Drv /\ ssl' \in Ssl /\ gen' \in Gen
      /\ gen'.inbuf = gen.inbuf /\ gen'.outbuf = gen.outbuf /\ ssl'.tx = ssl.tx
      /\ Held(drv', Running) /\ Alive(drv', Running)
      /\ Keeps(drv, drv') /\ Secured(drv', ssl') /\ InUse' /\ FinalStep
  BY <1>1, <1>2, InvariantFacts, FlushedStep
<1>4. Running' = Running
  BY <1>1, RunningSame DEF Timers
<1>5. OutputExactlyOnce'
  BY <1>1, <1>3 DEF IInv, OutputExactlyOnce
<1>6. QED
  BY <1>1, <1>3, <1>4, <1>5, InvariantFacts, StepInvariant

\* The answer of the output procedure to one unit of the queue.
UnitAnswer(r) ==
    /\ Moved(drv, ssl, r) /\ r.n \in {-1, 0, 1}
    /\ r.n = 1 => r.ssl.tx = ssl.tx + 1 /\ ~Is(r.drv, "INIT")
    /\ r.n # 1 => r.ssl.tx = ssl.tx
    /\ r.ssl.pend = ssl.pend

\* The driver took n units of the queue, 0 or 1.
LEMMA FlushTakenStep ==
    ASSUME IInv, gen.flush, gen.outbuf > 0, NEW r, UnitAnswer(r),
           FlushTaken(r), wire' = r.wire, frames' = frames
    PROVE  IInv' /\ FinalStep
<1> DEFINE n == gen.outbuf - r.n
           g == [gen EXCEPT !.outbuf = n]
<1>1. /\ r.n \in {0, 1}
      /\ drv' = r.drv /\ ssl' = r.ssl /\ hist' = hist
      /\ gen' = [gen EXCEPT !.outbuf = n, !.flush = ~(gen.bg /\ gen.outbuf = r.n)]
  BY DEF FlushTaken, UnitAnswer
<1>2. n \in Nat /\ gen \in Gen
  BY <1>1, InvariantFacts
<1>3. PICK b \in BOOLEAN : gen' = [g EXCEPT !.flush = b]
  BY <1>1
<1> HIDE DEF n
<1>4. g \in Gen /\ g.inbuf = gen.inbuf /\ g.outbuf = n
  BY <1>2, OutbufSet
<1> HIDE DEF g
<1>5. gen' \in Gen /\ gen'.inbuf = gen.inbuf /\ gen'.outbuf = n
  BY <1>3, <1>4, FlushSet
<1>6. /\ drv' \in Drv /\ ssl' \in Ssl /\ wire' \in Wire
      /\ Holds(drv, drv') /\ Keeps(drv, drv') /\ Secured(drv', ssl')
      /\ Is(drv, "FATAL_ERROR") => ssl' = ssl
  BY <1>1, InvariantFacts DEF Moved, UnitAnswer
<1>7. Running' = Running
  BY RunningSame DEF Timers
<1>8. Held(drv', Running) /\ Alive(drv', Running)
  BY <1>6, InvariantFacts DEF Holds, Held, Alive
<1>9. InUse'
  BY <1>6 DEF IInv, InUse, Holds
<1>10. OutputExactlyOnce'
  BY <1>1, <1>5, InvariantFacts DEF IInv, OutputExactlyOnce, UnitAnswer, n
<1>11. ssl'.tx > 0 => ssl.tx > 0 \/ ~Is(drv', "INIT")
  BY <1>1 DEF UnitAnswer
<1>12. FinalStep
  BY <1>1, <1>6, FinalFrom DEF UnitAnswer
<1>13. QED
  BY <1>1, <1>5, <1>6, <1>7, <1>8, <1>9, <1>10, <1>11, <1>12, InvariantFacts, StepInvariant

\* FlushChannel after EAGAIN of TlsOutputProc.
LEMMA FlushBlockedStep ==
    ASSUME IInv, gen.flush, NEW r, UnitAnswer(r),
           FlushBlocked(r), wire' = r.wire, frames' = frames
    PROVE  IInv' /\ FinalStep
<1> DEFINE h == [gen EXCEPT !.flush = FALSE]
           g == [h EXCEPT !.bg = TRUE]
<1>1. /\ r.n < 0 /\ ssl' = r.ssl /\ hist' = hist
      /\ gen' = Armed(g)
      /\ drv' = IF gen.bg THEN r.drv ELSE Watched(r.drv, g)
  BY DEF FlushBlocked
<1>2. h \in Gen /\ h.inbuf = gen.inbuf /\ h.outbuf = gen.outbuf
  BY InvariantFacts, FlushSet
<1> HIDE DEF h
<1>3. g \in Gen /\ g.inbuf = gen.inbuf /\ g.outbuf = gen.outbuf
  BY <1>2, BgSet
<1> HIDE DEF g
<1>4. gen' \in Gen /\ gen'.inbuf = gen.inbuf /\ gen'.outbuf = gen.outbuf
  BY <1>1, <1>3, ArmedType
<1>5. drv.life = "live"
  BY DEF IInv, InUse
<1>6. /\ r.drv \in Drv /\ Held(r.drv, Running) /\ Alive(r.drv, Running)
      /\ r.drv.life = "live"
  BY <1>5, InvariantFacts DEF UnitAnswer, Moved, Holds, Held, Alive
<1>7. /\ drv' \in Drv /\ SameFlags(r.drv, drv') /\ Held(drv', Running)
      /\ Alive(drv', Running) /\ drv'.life = "live"
  BY <1>1, <1>3, <1>6, InvariantFacts, WatchedType DEF SameFlags
<1>8. \A f : Is(drv', f) = Is(r.drv, f)
  BY <1>7, SameFlagsIs
<1>9. /\ Keeps(drv, drv') /\ Secured(drv', ssl') /\ ssl' \in Ssl /\ wire' \in Wire
      /\ ssl'.tx = ssl.tx
  BY <1>1, <1>8, InvariantFacts DEF UnitAnswer, Moved, Keeps, Secured
<1>10. Running' = Running
  BY RunningSame DEF Timers
<1>11. InUse' /\ OutputExactlyOnce'
  BY <1>1, <1>4, <1>7, <1>9 DEF IInv, InUse, OutputExactlyOnce
<1>12. FinalStep
  BY <1>1, <1>9, FinalFrom DEF UnitAnswer, Moved
<1>13. QED
  BY <1>1, <1>4, <1>7, <1>9, <1>10, <1>11, <1>12, InvariantFacts, StepInvariant

\* FlushChannel after any other error of TlsOutputProc.
LEMMA FlushFailedStep ==
    ASSUME IInv, gen.flush, NEW r, UnitAnswer(r),
           FlushFailed(r), wire' = r.wire, frames' = frames
    PROVE  IInv' /\ FinalStep
<1> DEFINE g == [gen EXCEPT !.outbuf = 0]
<1>1. /\ r.n < 0 /\ Flushed(g, r.drv, r.ssl)
      /\ hist' = [hist EXCEPT !.lost = @ + gen.outbuf]
  BY DEF FlushFailed
<1>2. g \in Gen /\ g.inbuf = gen.inbuf /\ g.outbuf = 0
  BY InvariantFacts, OutbufSet
<1> HIDE DEF g
<1>3. drv.life = "live"
  BY DEF IInv, InUse
<1>4. /\ r.drv \in Drv /\ r.ssl \in Ssl /\ Held(r.drv, Running) /\ r.drv.life = "live"
      /\ Keeps(drv, r.drv) /\ Secured(r.drv, r.ssl) /\ r.ssl.tx = ssl.tx
      /\ Is(drv, "FATAL_ERROR") => r.ssl = ssl
      /\ r.ssl.pend = ssl.pend /\ r.wire \in Wire
  BY <1>1, <1>3, InvariantFacts DEF UnitAnswer, Moved, Holds, Held
<1>5. /\ drv' \in Drv /\ ssl' \in Ssl /\ gen' \in Gen
      /\ gen'.inbuf = gen.inbuf /\ gen'.outbuf = 0 /\ ssl'.tx = ssl.tx
      /\ Held(drv', Running) /\ Alive(drv', Running)
      /\ Keeps(drv, drv') /\ Secured(drv', ssl') /\ InUse' /\ FinalStep
  BY <1>1, <1>2, <1>4, FlushedStep
<1>6. /\ hist' \in Hist /\ hist'.rx = hist.rx /\ hist'.wr = hist.wr
      /\ hist'.lost = hist.lost + gen.outbuf
  <2> DEFINE n == hist.lost + gen.outbuf
  <2>1. hist' = [hist EXCEPT !.lost = n] /\ n \in Nat /\ hist \in Hist
    BY <1>1, InvariantFacts
  <2> HIDE DEF n
  <2>2. /\ hist' \in Hist /\ hist'.rx = hist.rx /\ hist'.wr = hist.wr
        /\ hist'.lost = n
    BY <2>1 DEF Hist
  <2>3. QED
    BY <2>2 DEF n
<1>7. Running' = Running
  BY RunningSame DEF Timers
<1>8. OutputExactlyOnce'
  BY <1>5, <1>6, InvariantFacts DEF IInv, OutputExactlyOnce
<1>9. QED
  BY <1>4, <1>5, <1>6, <1>7, <1>8, InvariantFacts, StepInvariant

\* FlushChannel calls TlsOutputProc for one unit.
LEMMA FlushUnitStep ==
    ASSUME IInv, FlushUnit
    PROVE  IInv' /\ FinalStep
<1>1. PICK again \in Again :
        \E r \in {TlsOutputProc(drv, ssl, wire, again)} :
          /\ FlushTaken(r) \/ FlushBlocked(r) \/ FlushFailed(r)
          /\ wire' = r.wire
  BY DEF FlushUnit
<1>2. gen.flush /\ gen.outbuf > 0 /\ frames' = frames
  BY DEF FlushUnit
<1> DEFINE r == TlsOutputProc(drv, ssl, wire, again)
<1>3. /\ FlushTaken(r) \/ FlushBlocked(r) \/ FlushFailed(r)
      /\ wire' = r.wire
  BY <1>1, Zenon
<1>4. UnitAnswer(r)
  BY <1>1, AgainType, InvariantFacts, OutputProcType DEF UnitAnswer
<1> HIDE DEF r
<1>5. QED
  BY <1>2, <1>3, <1>4, FlushTakenStep, FlushBlockedStep, FlushFailedStep

\* A handler is called: its frame is added and a scheduled flush may run.
LEMMA EnterType ==
    ASSUME gen \in Gen, frames \in Seq(Frame), NEW kind \in {"timer", "event"}, NEW mask,
           Enter(kind, mask)
    PROVE  /\ gen' \in Gen /\ gen'.inbuf = gen.inbuf /\ gen'.outbuf = gen.outbuf
           /\ frames' \in Seq(Frame)
           /\ Running' = Running + One(kind = "timer")
<1>1. PICK f \in Frame : frames' = Append(frames, f) /\ f.kind = kind
  <2>1. \E b \in BOOLEAN : frames' = Append(frames, [kind |-> kind, read |-> b])
    <3> DEFINE b == "R" \in mask \cap gen.interest
    <3>1. b \in BOOLEAN /\ frames' = Append(frames, [kind |-> kind, read |-> b])
      BY DEF Enter
    <3> HIDE DEF b
    <3>2. QED
      BY <3>1
  <2>2. \A b \in BOOLEAN : [kind |-> kind, read |-> b] \in Frame
    BY <2>1 DEF Frame
  <2>3. QED
    BY <2>1, <2>2
<1>2. PICK b \in BOOLEAN : gen' = [gen EXCEPT !.flush = b]
  BY DEF Enter
<1>3. gen' \in Gen /\ gen'.inbuf = gen.inbuf /\ gen'.outbuf = gen.outbuf
  BY <1>2, FlushSet
<1>4. frames' \in Seq(Frame)
  BY <1>1
<1>5. Cardinality(Timers(frames')) = Cardinality(Timers(frames)) + One(kind = "timer")
  BY <1>1, TimersAppend
<1>6. Running' = Cardinality(Timers(frames')) /\ Running = Cardinality(Timers(frames))
  BY DEF Running, TimerFrames, Timers
<1>7. QED
  BY <1>3, <1>4, <1>5, <1>6

\* A socket event goes through TlsNotifyProc.
LEMMA SocketEventStep ==
    ASSUME IInv, SocketEvent
    PROVE  IInv' /\ FinalStep
<1>1. PICK again \in Again :
        \E r \in {TlsNotifyProc(drv, ssl, wire, again)} :
          /\ drv' = r.drv /\ ssl' = r.ssl /\ wire' = r.wire
          /\ IF r.up THEN Enter("event", drv.watch \cap Ready) ELSE UNCHANGED <<frames, gen>>
  BY DEF SocketEvent
<1>2. drv.life = "live" /\ hist' = hist
  BY DEF SocketEvent, EventLoop
<1> DEFINE r == TlsNotifyProc(drv, ssl, wire, again)
<1>3. /\ drv' = r.drv /\ ssl' = r.ssl /\ wire' = r.wire
      /\ Enter("event", drv.watch \cap Ready) \/ UNCHANGED <<frames, gen>>
  BY <1>1, Zenon
<1>4. /\ r.drv \in Drv /\ Held(r.drv, Running) /\ r.drv.life = "live"
      /\ r.ssl \in Ssl /\ r.wire \in Wire /\ r.rc \in Codes
      /\ Keeps(drv, r.drv) /\ SameData(ssl, r.ssl)
      /\ Is(drv, "FATAL_ERROR") => r.ssl = ssl
      /\ Secured(drv, ssl) => Secured(r.drv, r.ssl)
  BY <1>1, <1>2, AgainType, InvariantFacts, NotifyProcType
<1> HIDE DEF r
<1>5. /\ gen' \in Gen /\ gen'.inbuf = gen.inbuf /\ gen'.outbuf = gen.outbuf
      /\ frames' \in Seq(Frame) /\ Running' = Running
  <2>1. CASE Enter("event", drv.watch \cap Ready)
    <3>1. One("event" = "timer") = 0
      BY DEF One
    <3>2. QED
      BY <2>1, <3>1, InvariantFacts, EnterType
  <2>2. CASE UNCHANGED <<frames, gen>>
    BY <2>2, InvariantFacts, RunningSame DEF Timers
  <2>3. QED
    BY <1>3, <2>1, <2>2
<1>6. /\ drv' \in Drv /\ ssl' \in Ssl /\ wire' \in Wire /\ Held(drv', Running')
      /\ Keeps(drv, drv') /\ Secured(drv', ssl') /\ drv'.life = "live"
      /\ ssl'.tx = ssl.tx /\ ssl'.pend = ssl.pend
      /\ Is(drv, "FATAL_ERROR") => ssl' = ssl
  BY <1>3, <1>4, <1>5, InvariantFacts DEF SameData
<1>7. Alive(drv', Running') /\ InUse' /\ OutputExactlyOnce'
  BY <1>2, <1>5, <1>6 DEF IInv, Alive, InUse, OutputExactlyOnce
<1>8. FinalStep
  BY <1>6, FinalFrom
<1>9. QED
  BY <1>2, <1>5, <1>6, <1>7, <1>8, InvariantFacts, StepInvariant

\* TlsChannelHandlerTimer: its reference passes from the timer to the handler.
LEMMA TimerFireStep ==
    ASSUME IInv, TimerFire
    PROVE  IInv' /\ FinalStep
<1> DEFINE d == [drv EXCEPT !.timer = FALSE]
           mask == TimerMask(drv, gen.inbuf > 0 \/ ssl.pend > 0, gen.outbuf > 0)
<1>1. /\ drv.timer /\ drv.life = "live"
      /\ ssl' = ssl /\ wire' = wire /\ hist' = hist
      /\ \/ drv' = TimerDone(d) /\ frames' = frames /\ gen' = gen
         \/ drv' = d /\ Enter("timer", mask)
  BY DEF TimerFire, EventLoop
<1> HIDE DEF mask
<1>2. d \in Drv /\ SameFlags(drv, d) /\ d.refs = 1 + Running /\ ~d.timer /\ d.life = "live"
  BY <1>1, InvariantFacts, TimerSetType DEF Held
<1> HIDE DEF d
<1>3. /\ drv' \in Drv /\ SameFlags(drv, drv') /\ Held(drv', Running') /\ drv'.life = "live"
      /\ gen' \in Gen /\ gen'.inbuf = gen.inbuf /\ gen'.outbuf = gen.outbuf
      /\ frames' \in Seq(Frame)
  <2>1. CASE drv' = TimerDone(d) /\ frames' = frames /\ gen' = gen
    <3>1. Running' = Running
      BY <2>1, RunningSame DEF Timers
    <3>2. d.refs > 0
      BY <1>2, InvariantFacts
    <3>3. /\ drv' \in Drv /\ SameFlags(d, drv') /\ drv'.refs = d.refs - 1
          /\ drv'.timer = d.timer /\ drv'.life = "live"
      BY <1>2, <2>1, <3>2, TimerDoneType
    <3>4. Held(drv', Running')
      BY <1>2, <3>1, <3>3, InvariantFacts DEF Held
    <3>5. QED
      BY <1>2, <2>1, <3>3, <3>4, InvariantFacts DEF SameFlags
  <2>2. CASE drv' = d /\ Enter("timer", mask)
    <3>1. One("timer" = "timer") = 1
      BY DEF One
    <3>2. /\ gen' \in Gen /\ gen'.inbuf = gen.inbuf /\ gen'.outbuf = gen.outbuf
          /\ frames' \in Seq(Frame) /\ Running' = Running + 1
      BY <2>2, <3>1, InvariantFacts, EnterType
    <3>3. Held(drv', Running')
      BY <1>2, <2>2, <3>2, InvariantFacts DEF Held
    <3>4. QED
      BY <1>2, <2>2, <3>2, <3>3
  <2>3. QED
    BY <1>1, <2>1, <2>2
<1>4. Keeps(drv, drv') /\ Secured(drv', ssl')
  BY <1>1, <1>3, InvariantFacts, SameFlagsKeeps
<1>5. Alive(drv', Running') /\ InUse' /\ OutputExactlyOnce'
  BY <1>1, <1>3 DEF IInv, Alive, InUse, OutputExactlyOnce
<1>6. QED
  BY <1>1, <1>3, <1>4, <1>5, InvariantFacts, StepInvariant, FinalSame

\* Tcl's own timer (ChannelTimerProc) calls the handlers.
LEMMA GenericTimerStep ==
    ASSUME IInv, GenericTimer
    PROVE  IInv' /\ FinalStep
<1> DEFINE g == [gen EXCEPT !.gtimer = FALSE]
<1>1. /\ drv.life = "live"
      /\ ssl' = ssl /\ wire' = wire /\ hist' = hist
      /\ \/ Enter("event", {"R"}) /\ drv' = drv
         \/ gen' = g /\ drv' = Watched(drv, g) /\ frames' = frames
  BY DEF GenericTimer, EventLoop
<1>2. g \in Gen /\ g.inbuf = gen.inbuf /\ g.outbuf = gen.outbuf
  BY InvariantFacts DEF Gen
<1> HIDE DEF g
<1>3. /\ drv' \in Drv /\ SameFlags(drv, drv') /\ Held(drv', Running') /\ drv'.life = "live"
      /\ gen' \in Gen /\ gen'.inbuf = gen.inbuf /\ gen'.outbuf = gen.outbuf
      /\ frames' \in Seq(Frame)
  <2>1. CASE Enter("event", {"R"}) /\ drv' = drv
    <3>1. One("event" = "timer") = 0
      BY DEF One
    <3>2. /\ gen' \in Gen /\ gen'.inbuf = gen.inbuf /\ gen'.outbuf = gen.outbuf
          /\ frames' \in Seq(Frame) /\ Running' = Running
      BY <2>1, <3>1, InvariantFacts, EnterType
    <3>3. QED
      BY <1>1, <2>1, <3>2, InvariantFacts DEF SameFlags
  <2>2. CASE gen' = g /\ drv' = Watched(drv, g) /\ frames' = frames
    <3>1. Running' = Running
      BY <2>2, RunningSame DEF Timers
    <3>2. QED
      BY <1>1, <1>2, <2>2, <3>1, InvariantFacts, WatchedType
  <2>3. QED
    BY <1>1, <2>1, <2>2
<1>4. Keeps(drv, drv') /\ Secured(drv', ssl')
  BY <1>1, <1>3, InvariantFacts, SameFlagsKeeps
<1>5. Alive(drv', Running') /\ InUse' /\ OutputExactlyOnce'
  BY <1>1, <1>3 DEF IInv, Alive, InUse, OutputExactlyOnce
<1>6. QED
  BY <1>1, <1>3, <1>4, <1>5, InvariantFacts, StepInvariant, FinalSame

\* A timer handler that comes back gives up its reference, which may be the last.
LEMMA HandlerDoneType ==
    ASSUME NEW d \in Drv, NEW k \in Nat, Held(d, k + 1), Alive(d, k + 1)
    PROVE  LET e == TimerDone(d)
           IN  /\ e \in Drv /\ SameFlags(d, e) /\ Held(e, k) /\ Alive(e, k)
               /\ d.life = "live" => e.life = "live"
<1> DEFINE e == TimerDone(d)
<1>1. d.refs = (IF d.timer THEN 1 ELSE 0) + k + 1 /\ d.refs > 0 /\ d.life # "freed"
  BY DEF Held, Alive
<1>2. /\ e \in Drv /\ SameFlags(d, e) /\ e.refs = d.refs - 1 /\ e.timer = d.timer
      /\ e.life = IF d.life = "closing" /\ d.refs = 1 THEN "freed" ELSE d.life
  BY <1>1, TimerDoneType
<1> HIDE DEF e
<1>3. Held(e, k)
  BY <1>1, <1>2 DEF Held
<1>4. d.life = "closing" => ~d.timer
  BY DEF Alive
<1>5. Alive(e, k)
  BY <1>1, <1>2, <1>4 DEF Alive
<1>6. QED
  BY <1>2, <1>3, <1>5 DEF e

\* The handlers are done; TlsChannelHandlerTimer releases the State last.
LEMMA ReturnStep ==
    ASSUME IInv, Return
    PROVE  IInv' /\ FinalStep
<1> DEFINE d == Watched(drv, gen)
           e == IF Top.kind = "timer" THEN TimerDone(d) ELSE d
<1>1. /\ frames # <<>> /\ ~gen.flush
      /\ drv' = e /\ ssl' = IF drv.life = "closing" THEN Clean(e, ssl) ELSE ssl
      /\ gen' = IF drv.life = "live" THEN Armed(gen) ELSE gen
      /\ frames' = SubSeq(frames, 1, Len(frames) - 1)
      /\ wire' = wire /\ hist' = hist
  BY DEF Return
<1>2. /\ gen' \in Gen /\ gen'.open = gen.open /\ gen'.flush = FALSE
      /\ gen'.inbuf = gen.inbuf /\ gen'.outbuf = gen.outbuf
  <2>1. CASE drv.life = "live"
    BY <1>1, <2>1, InvariantFacts, ArmedType
  <2>2. CASE drv.life # "live"
    BY <1>1, <2>2, InvariantFacts
  <2>3. QED
    BY <2>1, <2>2
<1>3. frames' \in Seq(Frame) /\ Running = Running' + One(Top.kind = "timer")
  <2>1. /\ frames' \in Seq(Frame)
        /\ Cardinality(Timers(frames))
             = Cardinality(Timers(frames')) + One(Top.kind = "timer")
    BY <1>1, InvariantFacts, TimersPop DEF Top
  <2>2. Running' = Cardinality(Timers(frames')) /\ Running = Cardinality(Timers(frames))
    BY DEF Running, TimerFrames, Timers
  <2>3. QED
    BY <2>1, <2>2
<1>4. Running' \in Nat
  <2>1. Running' = Cardinality(Timers(frames'))
    BY DEF Running, TimerFrames, Timers
  <2>2. QED
    BY <1>3, <2>1, TimersFinite
<1>5. /\ d \in Drv /\ SameFlags(drv, d) /\ Held(d, Running) /\ Alive(d, Running)
      /\ d.life = drv.life
  BY InvariantFacts, WatchedType
<1> HIDE DEF d
<1>6. /\ e \in Drv /\ SameFlags(drv, e) /\ Held(e, Running') /\ Alive(e, Running')
      /\ drv.life = "live" => e.life = "live"
  <2>1. CASE Top.kind = "timer"
    <3>a. One(Top.kind = "timer") = 1
      BY <2>1 DEF One
    <3>1. Running = Running' + 1
      BY <1>3, <3>a
    <3>2. PICK k \in Nat : k = Running'
      BY <1>4
    <3>3. Held(d, k + 1) /\ Alive(d, k + 1)
      BY <1>5, <3>1, <3>2
    <3>4. e = TimerDone(d)
      BY <2>1
    <3> HIDE DEF e
    <3>5. /\ e \in Drv /\ SameFlags(d, e) /\ Held(e, k) /\ Alive(e, k)
          /\ d.life = "live" => e.life = "live"
      BY <1>5, <3>3, <3>4, HandlerDoneType
    <3>6. QED
      BY <1>5, <3>2, <3>5 DEF SameFlags
  <2>2. CASE Top.kind # "timer"
    <3>a. One(Top.kind = "timer") = 0
      BY <2>2 DEF One
    <3>1. Running = Running' /\ e = d
      BY <1>3, <1>4, <2>2, <3>a
    <3>2. QED
      BY <1>5, <3>1
  <2>3. QED
    BY <2>1, <2>2
<1> HIDE DEF e
<1>7. /\ ssl' \in {ssl, SslShutdown(ssl)}
      /\ ssl' # ssl => drv'.life = "freed"
  BY <1>1 DEF Clean
<1>8. ssl' \in Ssl /\ ssl'.hs = ssl.hs /\ ssl'.pend = ssl.pend /\ ssl'.tx = ssl.tx
  BY <1>7, InvariantFacts, SslShutdownType
<1>9. Keeps(drv, drv') /\ Secured(drv', ssl')
  BY <1>1, <1>6, <1>8, InvariantFacts, SameFlagsKeeps DEF Secured
<1>10. InUse' /\ OutputExactlyOnce'
  BY <1>1, <1>2, <1>6, <1>8 DEF IInv, InUse, OutputExactlyOnce
<1>11. FinalStep
  BY <1>7, <1>8, <1>9, FinalFrom
<1>12. QED
  BY <1>1, <1>2, <1>3, <1>6, <1>8, <1>9, <1>10, <1>11, InvariantFacts, StepInvariant

\* Whatever the peer and the network do, the channel below stays one.
LEMMA WireSets ==
    ASSUME NEW w \in Wire
    PROVE  /\ \A q \in Seq(Record) : [w EXCEPT !.in = q] \in Wire
           /\ \A p \in {"hs", "data", "done"} : [w EXCEPT !.peer = p] \in Wire
           /\ \A e \in Ends : [w EXCEPT !.end = e] \in Wire
           /\ \A n \in Nat : [w EXCEPT !.room = n] \in Wire
           /\ w.in \in Seq(Record) /\ w.room \in Nat
  BY DEF Wire

\* A record arrives at the socket.
LEMMA ReceiveType ==
    ASSUME wire \in Wire, NEW record \in Record, Receive(record)
    PROVE  wire' \in Wire
<1> DEFINE q == Append(wire.in, record)
           p == IF record \in {"hs", "data"} THEN "data" ELSE "done"
           w == [wire EXCEPT !.in = q]
<1>1. wire' = [w EXCEPT !.peer = p]
  BY DEF Receive
<1>a. wire.in \in Seq(Record)
  BY WireSets
<1>2. q \in Seq(Record) /\ p \in {"hs", "data", "done"}
  BY <1>a
<1> HIDE DEF q, p
<1>3. w \in Wire
  BY <1>2, WireSets
<1> HIDE DEF w
<1>4. QED
  BY <1>1, <1>2, <1>3, WireSets

\* The peer and the network touch neither the State nor the SSL object.
LEMMA EnvironmentStep ==
    ASSUME IInv, Environment
    PROVE  IInv' /\ FinalStep
<1>1. /\ drv' = drv /\ ssl' = ssl /\ gen' = gen /\ frames' = frames
      /\ hist' \in Hist /\ hist'.rx = hist.rx /\ hist'.wr = hist.wr /\ hist'.lost = hist.lost
  <2>1. CASE PeerData
    <3> DEFINE n == hist.sent + RecordUnits
    <3>1. hist' = [hist EXCEPT !.sent = n] /\ hist \in Hist
      BY <2>1, InvariantFacts DEF PeerData
    <3>2. n \in Nat
      BY <3>1, EngineAssumption DEF Hist
    <3> HIDE DEF n
    <3>3. QED
      BY <2>1, <3>1, <3>2 DEF PeerData, Hist
  <2>2. CASE PeerHandshake \/ PeerEnds \/ Disconnect \/ Drain
    BY <2>2, InvariantFacts DEF PeerHandshake, PeerEnds, Disconnect, Drain
  <2>3. QED
    BY <2>1, <2>2 DEF Environment
<1>2. wire' \in Wire
  <2>1. CASE PeerHandshake \/ PeerData \/ PeerEnds
    <3>1. PICK record \in Record : Receive(record)
      BY <2>1 DEF PeerHandshake, PeerData, PeerEnds, Record
    <3>2. QED
      BY <3>1, InvariantFacts, ReceiveType
  <2>2. CASE Disconnect
    <3>1. "eof" \in Ends /\ "reset" \in Ends /\ <<>> \in Seq(Record)
      BY DEF Ends
    <3>2. CASE wire' = [wire EXCEPT !.end = "eof"]
      BY <3>1, <3>2, InvariantFacts, WireSets
    <3>3. CASE \E in \in {wire.in, <<>>} : wire' = [wire EXCEPT !.end = "reset", !.in = in]
      <4> DEFINE w == [wire EXCEPT !.end = "reset"]
      <4>1. PICK q \in {wire.in, <<>>} : wire' = [w EXCEPT !.in = q]
        BY <3>3
      <4>2. w \in Wire /\ q \in Seq(Record)
        BY <3>1, <4>1, InvariantFacts, WireSets
      <4> HIDE DEF w
      <4>3. QED
        BY <4>1, <4>2, WireSets
    <3>4. QED
      BY <2>2, <3>2, <3>3 DEF Disconnect
  <2>3. CASE Drain
    <3> DEFINE n == wire.room + 1
    <3>a. wire.room \in Nat
      BY InvariantFacts, WireSets
    <3>1. wire' = [wire EXCEPT !.room = n] /\ n \in Nat
      BY <2>3, <3>a DEF Drain
    <3> HIDE DEF n
    <3>2. QED
      BY <3>1, InvariantFacts, WireSets
  <2>4. QED
    BY <2>1, <2>2, <2>3 DEF Environment
<1>3. OutputExactlyOnce'
  BY <1>1 DEF IInv, OutputExactlyOnce
<1>4. QED
  BY <1>1, <1>2, <1>3, InvariantFacts, QuietStep

-----------------------------------------------------------------------------
(* The theorems.                                                           *)

\* Every step of the specification, or none, keeps the invariant and takes no
\* failure back.
LEMMA NextStep ==
    ASSUME IInv, [Next]_vars
    PROVE  IInv' /\ FinalStep
<1>1. CASE Script
  BY <1>1, ReadBufferedStep, ReadDriverStep, WriteStep, FileeventStep, FconfigureStep,
     HandshakeStep, CloseStep, UnimportStep DEF Script
<1>2. CASE Flush
  BY <1>2, FlushEmptyStep, FlushUnitStep DEF Flush
<1>3. CASE Event
  BY <1>3, SocketEventStep, TimerFireStep, GenericTimerStep, ReturnStep DEF Event
<1>4. CASE Environment
  BY <1>4, EnvironmentStep
<1>5. CASE UNCHANGED vars
  <2>1. /\ drv' = drv /\ ssl' = ssl /\ wire' = wire /\ gen' = gen /\ frames' = frames
        /\ hist' = hist
    BY <1>5 DEF vars
  <2>2. OutputExactlyOnce'
    BY <2>1 DEF IInv, OutputExactlyOnce
  <2>3. QED
    BY <2>1, <2>2, InvariantFacts, QuietStep
<1>6. QED
  BY <1>1, <1>2, <1>3, <1>4, <1>5 DEF Next

\* Every reachable state satisfies the inductive invariant.
THEOREM Invariant == Spec => []IInv
<1>1. Init => IInv
  BY InitInvariant
<1>2. IInv /\ [Next]_vars => IInv'
  BY NextStep
<1>3. QED
  BY <1>1, <1>2, PTL DEF Spec

\* The structures keep their types.
THEOREM TypeCorrect == Spec => []TypeOK
<1>1. IInv => TypeOK
  BY DEF IInv
<1>2. QED
  BY <1>1, Invariant, PTL

\* The Tcl_Preserve and Tcl_Release calls of TlsWatchProc, TlsChannelHandlerTimer and
\* TlsCloseProc balance, however deep the handlers are nested.
THEOREM ReferencesBalanced == Spec => []RefsBalanced
<1>1. IInv => RefsBalanced
  BY InvariantParts
<1>2. QED
  BY <1>1, Invariant, PTL

\* The State that Tls_Free frees is used by no timer and no timer handler, and a closed
\* channel is freed as soon as the last of them is gone.
THEOREM LifetimeSafe == Spec => []StateLifetime
<1>1. IInv => StateLifetime
  BY InvariantParts
<1>2. QED
  BY <1>1, Invariant, PTL

\* TlsInputProc and TlsOutputProc move no application data before Tls_WaitForConnect
\* completed the handshake.
THEOREM NoEarlyData == Spec => []DataAfterHandshake
<1>1. IInv => DataAfterHandshake
  BY InvariantParts
<1>2. QED
  BY <1>1, Invariant, PTL

\* Of what the script writes, TlsOutputProc puts every unit on the wire once, leaves it
\* queued, or Tcl drops it after an error.
THEOREM WrittenOnce == Spec => []OutputExactlyOnce
<1>1. IInv => OutputExactlyOnce
  BY DEF IInv
<1>2. QED
  BY <1>1, Invariant, PTL

\* TLS_TCL_FATAL_ERROR and TLS_TCL_EOF, once set by tlsIO.c, are for good, and the SSL
\* object is not used again before it is freed.
THEOREM FailureKept == Spec => FailureIsFinal
<1>1. IInv /\ [Next]_vars => [FinalStep]_vars
  BY NextStep
<1>2. QED
  BY <1>1, Invariant, PTL DEF Spec, FailureIsFinal

=============================================================================
