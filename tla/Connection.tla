----------------------------- MODULE Connection -----------------------------
(***************************************************************************)
(* The connection lifecycle of ircevent (src/ircevent/irc.go): Connect and *)
(* Loop on the client's main goroutine, the three goroutines that serve    *)
(* one connection (readLoop, writeLoop, pingLoop), the helper goroutine    *)
(* readMsgLoop, and the calls Send, Quit and Reconnect made by any         *)
(* goroutine of the client or by a callback.                               *)
(*                                                                         *)
(* Each successful dial makes a new GENERATION: a socket, an `end' channel *)
(* and a `pwrite' channel.  gen is the generation the fields irc.end and   *)
(* irc.pwrite hold (0: both nil); a generation in `closed' has its end     *)
(* channel closed.  A critical section of stateMutex is one action.        *)
(* Messages are abstracted to what the lifecycle tells apart.              *)
(***************************************************************************)
EXTENDS Integers, FiniteSets

CONSTANTS
    Callers,      \* client goroutines other than the one in Connect and Loop
    CallbacksCall,\* do callbacks make calls, too?
    Calls,        \* which of Send, Quit and Reconnect the client calls
    Messages,     \* the kinds of messages the server sends
    MaxGen,       \* bound: number of successful dials
    QueueSize,    \* writeQueueSize, the capacity of pwrite
    PingModulus,  \* KeepAlive / Timeout, ticks between two keepalive PINGs
    Options,      \* the optional parts of registration that are configured
    LoopOnNilEnd  \* may the client call Loop when no dial ever succeeded?

ASSUME CallersAssumption == Callers \cap {"main", "reader", "pinger"} = {}
ASSUME CallbacksCallAssumption == CallbacksCall \in BOOLEAN
ASSUME CallsAssumption == Calls \subseteq {"Send", "Quit", "Reconnect"}
ASSUME MessagesAssumption == Messages \subseteq {"welcome", "pong", "ping", "other"}
ASSUME MaxGenAssumption == MaxGen \in Nat \ {0}
ASSUME QueueSizeAssumption == QueueSize \in Nat \ {0}
ASSUME PingModulusAssumption == PingModulus \in Nat \ {0}
ASSUME OptionsAssumption ==
    Options \subseteq {"WebIRC", "Password", "RequestCaps", "UseSASL", "SASLOptional"}
ASSUME LoopOnNilEndAssumption == LoopOnNilEnd \in BOOLEAN

VARIABLES
    running,    \* irc.running
    gen,        \* generation in irc.end and irc.pwrite
    closed,     \* generations whose end channel is closed
    socket,     \* generation of irc.socket, 0 for nil
    lastError,  \* irc.lastError is not nil
    quit,       \* irc.quit
    quitOld,    \* at least Timeout has passed since quitAt
    pingSent,   \* irc.pingSent
    registered, \* irc.registered
    welcome,    \* welcomeChan holds its token
    wg,         \* counter of irc.wg
    queue,      \* number of messages in the current pwrite
    sock,       \* state of the socket, by generation
    main,       \* position of the client's main goroutine
    err,        \* the error negotiateCaps is about to return is not nil
    inLoop,     \* main is inside Loop
    reconnected,\* Loop's lastReconnect is set
    rl, wl, pl, \* positions of readLoop, writeLoop and pingLoop
    rm,         \* position of readMsgLoop, by generation
    tick,       \* pingLoop's tick modulo PingModulus
    api,        \* the call each actor is inside
    snap,       \* generation of the (end, pwrite) pair read by sendInternal
    disconnects \* times the disconnect callbacks ran for this generation

stateVars == <<running, closed, lastError>>
callVars  == <<api, snap>>
chanVars  == <<queue, sock, rm>>
connVars  == <<gen, socket, registered, welcome, wg, disconnects>>
mainVars  == <<main, err, inLoop, reconnected>>
loopVars  == <<rl, wl, pl, tick>>
flagVars  == <<quit, quitOld, pingSent>>
vars == <<stateVars, callVars, chanVars, connVars, mainVars, loopVars, flagVars>>

Gens    == 1 .. MaxGen
Actors  == Callers \cup {"main", "reader", "pinger"}
Sending == {"webirc", "pass", "capls", "capend", "nick", "user"}
Negotiating == {"capwait", "saslwait"}
MainPCs == {"connect", "dial", "launch", "await", "cleanup", "cleanwait", "failed",
            "ready", "loopwait", "wgwait", "check", "sleep", "stopped"}
           \cup Sending \cup Negotiating

Negotiates == Options \cap {"RequestCaps", "UseSASL"} # {}

Init ==
    /\ running = FALSE /\ gen = 0 /\ closed = {} /\ socket = 0
    /\ lastError = FALSE /\ quit = FALSE /\ quitOld = FALSE /\ pingSent = FALSE
    /\ registered = FALSE /\ welcome = FALSE /\ wg = 0
    /\ queue = 0 /\ sock = [g \in Gens |-> "none"]
    /\ main = "connect" /\ err = FALSE /\ inLoop = FALSE /\ reconnected = FALSE
    /\ rl = "done" /\ wl = "done" /\ pl = "done" /\ rm = [g \in Gens |-> "done"] /\ tick = 0
    /\ api = [p \in Actors |-> "idle"] /\ snap = [p \in Actors |-> 0]
    /\ disconnects = 0

-----------------------------------------------------------------------------
(* Helpers under stateMutex                                                *)

\* Mutant: the running flag is not cleared.
CloseEndKeepsRunning ==
    UNCHANGED running /\ closed' = IF running THEN closed \cup {gen} ELSE closed

\* closeEndNoMutex: the running flag makes sure that end is closed once.
CloseEnd ==
    IF running
    THEN running' = FALSE /\ closed' = closed \cup {gen}
    ELSE UNCHANGED <<running, closed>>

\* setError: the first fatal error of a connection stops all its goroutines.
SetError ==
    IF lastError
    THEN UNCHANGED stateVars
    ELSE lastError' = TRUE /\ CloseEnd

\* The locked part of sendInternal: the pair (end, pwrite) of one generation is
\* read, or the call returns ClientDisconnected at once.  Whatever the actor does
\* next waits until api[p] is idle again.
BeginSend(p) ==
    IF running
    THEN /\ api' = [api EXCEPT ![p] = "send"]
         /\ snap' = [snap EXCEPT ![p] = gen]
    ELSE /\ api' = [api EXCEPT ![p] = "idle"]
         /\ UNCHANGED snap

-----------------------------------------------------------------------------
(* Calls that any goroutine, or a callback run by readLoop, may make.       *)

CanCall(p) ==
    /\ api[p] = "idle"
    /\ \/ p \in Callers
       \/ /\ p = "reader" /\ CallbacksCall
          /\ rl = "callback" \/ (rl = "exit" /\ registered)

Send(p) ==
    /\ CanCall(p)
    /\ BeginSend(p)
    /\ UNCHANGED <<stateVars, chanVars, connVars, mainVars, loopVars, flagVars>>

\* The select of sendInternal, first case: there is room in pwrite.  (For a pwrite
\* of the past, whose end is closed and which nobody drains, see SendAborted.)
SendQueued(p) ==
    /\ api[p] = "send" /\ snap[p] = gen /\ queue < QueueSize
    /\ queue' = queue + 1
    /\ api' = [api EXCEPT ![p] = "idle"] /\ snap' = [snap EXCEPT ![p] = 0]
    /\ UNCHANGED <<stateVars, sock, rm, connVars, mainVars, loopVars, flagVars>>

\* Mutant: the select has no case for end.
SendNeverAborted(p) == FALSE /\ SendQueued(p)

\* Second case: end is closed, ClientDisconnected is returned.
SendAborted(p) ==
    /\ api[p] = "send" /\ snap[p] \in closed
    /\ api' = [api EXCEPT ![p] = "idle"] /\ snap' = [snap EXCEPT ![p] = 0]
    /\ UNCHANGED <<stateVars, chanVars, connVars, mainVars, loopVars, flagVars>>

SendReturn(p) == SendQueued(p) \/ SendAborted(p)

\* Quit sets the flag under the lock and then sends QUIT.
Quit(p) ==
    /\ CanCall(p)
    /\ quit' = TRUE /\ quitOld' = FALSE
    /\ api' = [api EXCEPT ![p] = "quit"]
    /\ UNCHANGED <<stateVars, snap, chanVars, connVars, mainVars, loopVars, pingSent>>

QuitSend(p) ==
    /\ api[p] = "quit"
    /\ BeginSend(p)
    /\ UNCHANGED <<stateVars, chanVars, connVars, mainVars, loopVars, flagVars>>

\* Reconnect closes end, then offers a signal that only a sleeping Loop takes.
Reconnect(p) ==
    /\ CanCall(p)
    /\ CloseEnd
    /\ api' = [api EXCEPT ![p] = "reconnect"]
    /\ UNCHANGED <<lastError, snap, chanVars, connVars, mainVars, loopVars, flagVars>>

ReconnectSignal(p) ==
    /\ api[p] = "reconnect"
    /\ api' = [api EXCEPT ![p] = "idle"]
    /\ main' = IF main = "sleep" THEN "connect" ELSE main
    /\ UNCHANGED <<stateVars, snap, chanVars, connVars, err, inLoop, reconnected, loopVars,
                   flagVars>>

-----------------------------------------------------------------------------
(* readMsgLoop of generation g: reads lines, hands them to readLoop.        *)

ReadLine(g) ==
    /\ rm[g] = "read" /\ sock[g] = "open"
    /\ rm' = [rm EXCEPT ![g] = "line"]
    /\ UNCHANGED <<stateVars, callVars, queue, sock, connVars, mainVars, loopVars, flagVars>>

\* A read fails when the server closes the connection or the socket is closed.
ReadError(g) ==
    /\ rm[g] = "read"
    /\ rm' = [rm EXCEPT ![g] = "err"]
    /\ UNCHANGED <<stateVars, callVars, queue, sock, connVars, mainVars, loopVars, flagVars>>

\* Mutant: the send of a line on msgChan is not guarded by end.
ReadMsgLoopEndOnError(g) ==
    /\ rm[g] = "err" /\ g \in closed
    /\ rm' = [rm EXCEPT ![g] = "done"]
    /\ UNCHANGED <<stateVars, callVars, queue, sock, connVars, mainVars, loopVars, flagVars>>

\* With nobody left to take the line or the error, the goroutine waits for end.
ReadMsgLoopEnd(g) ==
    /\ rm[g] \in {"line", "err"} /\ g \in closed
    /\ rm' = [rm EXCEPT ![g] = "done"]
    /\ UNCHANGED <<stateVars, callVars, queue, sock, connVars, mainVars, loopVars, flagVars>>

-----------------------------------------------------------------------------
(* readLoop                                                                *)

\* 376 and 422: wake up Connect; welcomeChan has room for one token.
HandleRegistration == registered' = TRUE /\ welcome' = TRUE

\* PONG: the keepalive is answered.
RecordPong == pingSent' = FALSE

\* The base callback of the message, run before the client's own callbacks; PING is
\* answered with PONG.
BaseCallback(k) ==
    /\ IF k = "welcome" THEN HandleRegistration ELSE UNCHANGED <<registered, welcome>>
    /\ IF k = "pong" THEN RecordPong ELSE UNCHANGED pingSent
    /\ IF k = "ping" THEN BeginSend("reader") ELSE UNCHANGED callVars

ReaderMessage(k) ==
    /\ rl = "select" /\ rm[gen] = "line"
    /\ rm' = [rm EXCEPT ![gen] = "read"]
    /\ rl' = "callback"
    /\ BaseCallback(k)
    /\ UNCHANGED <<stateVars, queue, sock, gen, socket, wg, disconnects, mainVars,
                   wl, pl, tick, quit, quitOld>>

\* The client's callbacks return and readLoop selects again.
ReaderReturn ==
    /\ rl = "callback" /\ api["reader"] = "idle"
    /\ rl' = "select"
    /\ UNCHANGED <<stateVars, callVars, chanVars, connVars, mainVars, wl, pl, tick, flagVars>>

\* Mutant: only while the connection counts as running.
RunDisconnectCallbacksIfRunning ==
    /\ rl' = "exit"
    /\ disconnects' = IF registered /\ running THEN disconnects + 1 ELSE disconnects

\* The first deferred function: disconnect callbacks, if registration completed.
RunDisconnectCallbacks ==
    /\ rl' = "exit"
    /\ disconnects' = IF registered THEN disconnects + 1 ELSE disconnects

ReaderErr ==
    /\ rl = "select" /\ rm[gen] = "err"
    /\ rm' = [rm EXCEPT ![gen] = "done"]
    /\ SetError
    /\ RunDisconnectCallbacks
    /\ UNCHANGED <<callVars, queue, sock, gen, socket, registered, welcome, wg, mainVars,
                   wl, pl, tick, flagVars>>

ReaderStop ==
    /\ rl = "select" /\ gen \in closed
    /\ RunDisconnectCallbacks
    /\ UNCHANGED <<stateVars, callVars, chanVars, gen, socket, registered, welcome, wg,
                   mainVars, wl, pl, tick, flagVars>>

\* The other deferred function: wg.Done.
ReaderDone ==
    /\ rl = "exit" /\ api["reader"] = "idle"
    /\ rl' = "done" /\ wg' = wg - 1
    /\ UNCHANGED <<stateVars, callVars, chanVars, gen, socket, registered, welcome,
                   disconnects, mainVars, wl, pl, tick, flagVars>>

-----------------------------------------------------------------------------
(* writeLoop                                                               *)

WriterTake ==
    /\ wl = "select" /\ queue > 0
    /\ queue' = queue - 1
    /\ wl' = "write"
    /\ UNCHANGED <<stateVars, callVars, sock, rm, connVars, mainVars, rl, pl, tick, flagVars>>

WriterWrote ==
    /\ wl = "write"
    /\ wl' = "select"
    /\ UNCHANGED <<stateVars, callVars, chanVars, connVars, mainVars, rl, pl, tick, flagVars>>

\* Mutant: the error is not reported.
WriterErrIgnored ==
    /\ wl = "write"
    /\ wl' = "done" /\ wg' = wg - 1
    /\ UNCHANGED <<stateVars, callVars, chanVars, gen, socket, registered, welcome, disconnects,
                   mainVars, rl, pl, tick, flagVars>>

\* The write fails, or its deadline of Timeout expires.
WriterErr ==
    /\ wl = "write"
    /\ SetError
    /\ wl' = "done" /\ wg' = wg - 1
    /\ UNCHANGED <<callVars, chanVars, gen, socket, registered, welcome, disconnects,
                   mainVars, rl, pl, tick, flagVars>>

WriterStop ==
    /\ wl = "select" /\ gen \in closed
    /\ wl' = "done" /\ wg' = wg - 1
    /\ UNCHANGED <<stateVars, callVars, chanVars, gen, socket, registered, welcome,
                   disconnects, mainVars, rl, pl, tick, flagVars>>

-----------------------------------------------------------------------------
(* pingLoop; processTick decides under the lock and acts after releasing it. *)

\* Timeout passes after the (last) call of Quit.
QuitTimeout ==
    /\ quit /\ ~quitOld /\ quitOld' = TRUE
    /\ UNCHANGED <<stateVars, callVars, chanVars, connVars, mainVars, loopVars, quit, pingSent>>

\* Mutant: a server that ignores QUIT is not given up.
TickIgnoresQuit ==
    /\ pl = "select" /\ api["pinger"] = "idle"
    /\ tick' = (tick + 1) % PingModulus
    /\ pl' = IF pingSent THEN "fail" ELSE IF tick' = 0 THEN "ping" ELSE pl
    /\ pingSent' = (pingSent \/ tick' = 0)
    /\ UNCHANGED <<stateVars, callVars, chanVars, connVars, mainVars, rl, wl, quit, quitOld>>

\* A server that ignores QUIT and an unanswered PING are fatal; every PingModulus-th
\* tick sends the next PING.
Tick ==
    /\ pl = "select" /\ api["pinger"] = "idle"
    /\ tick' = (tick + 1) % PingModulus
    /\ IF (quit /\ quitOld) \/ pingSent
       THEN pl' = "fail" /\ UNCHANGED pingSent
       ELSE IF tick' = 0
            THEN pl' = "ping" /\ pingSent' = TRUE
            ELSE UNCHANGED <<pl, pingSent>>
    /\ UNCHANGED <<stateVars, callVars, chanVars, connVars, mainVars, rl, wl, quit, quitOld>>

\* After releasing the lock: PING, and NICK if the nick is not the preferred one.
PingerSend ==
    /\ pl \in {"ping", "nick"} /\ api["pinger"] = "idle"
    /\ BeginSend("pinger")
    /\ pl' \in IF pl = "ping" THEN {"nick", "select"} ELSE {"select"}
    /\ UNCHANGED <<stateVars, chanVars, connVars, mainVars, rl, wl, tick, flagVars>>

\* Mutant: wg.Done on the error path, on top of the deferred one.
PingerErrDone ==
    /\ pl = "fail"
    /\ SetError
    /\ pl' = "select" /\ wg' = wg - 1
    /\ UNCHANGED <<callVars, chanVars, gen, socket, registered, welcome, disconnects, mainVars,
                   rl, wl, tick, flagVars>>

PingerErr ==
    /\ pl = "fail"
    /\ SetError
    /\ pl' = "select"
    /\ UNCHANGED <<callVars, chanVars, connVars, mainVars, rl, wl, tick, flagVars>>

PingerStop ==
    /\ pl = "select" /\ api["pinger"] = "idle" /\ gen \in closed
    /\ pl' = "done" /\ wg' = wg - 1
    /\ UNCHANGED <<stateVars, callVars, chanVars, gen, socket, registered, welcome,
                   disconnects, mainVars, rl, wl, tick, flagVars>>

-----------------------------------------------------------------------------
(* Connect                                                                 *)

\* Steps of main that only change its position.
GoTo(pc) ==
    /\ main' = pc
    /\ UNCHANGED <<stateVars, callVars, chanVars, connVars, err, inLoop, reconnected, loopVars,
                   flagVars>>

ConnectHasQuit ==
    /\ main = "connect" /\ quit /\ GoTo("failed")

\* Mutant: lastError survives into the next connection.
ConnectResetKeepsError ==
    /\ main = "connect" /\ ~quit
    /\ running' = FALSE /\ socket' = 0 /\ pingSent' = FALSE
    /\ err' = FALSE
    /\ main' \in {"dial", "failed"}
    /\ UNCHANGED <<closed, lastError, callVars, chanVars, gen, registered, welcome, wg,
                   disconnects, inLoop, reconnected, loopVars, quit, quitOld>>

\* The first critical section: reset, and refuse an invalid configuration.
ConnectReset ==
    /\ main = "connect" /\ ~quit
    /\ running' = FALSE /\ socket' = 0 /\ lastError' = FALSE /\ pingSent' = FALSE
    /\ err' = FALSE
    /\ main' \in {"dial", "failed"}
    /\ UNCHANGED <<closed, callVars, chanVars, gen, registered, welcome, wg, disconnects,
                   inLoop, reconnected, loopVars, quit, quitOld>>

DialFailed ==
    /\ main = "dial" /\ GoTo("failed")

\* The dial succeeds and the second critical section makes a new generation.
Dialed ==
    /\ main = "dial" /\ gen < MaxGen
    /\ gen' = gen + 1 /\ socket' = gen + 1 /\ running' = TRUE
    /\ queue' = 0
    /\ sock' = [sock EXCEPT ![gen + 1] = "open"]
    /\ wg' = wg + 3
    /\ welcome' = FALSE /\ registered' = FALSE /\ disconnects' = 0
    /\ main' = "launch"
    /\ UNCHANGED <<closed, lastError, callVars, rm, err, inLoop, reconnected, loopVars,
                   flagVars>>

\* The messages of registration that are configured, in order; capls is followed by
\* the negotiation, which ends with capend.
NextMessage(pc) ==
    LET AfterPass   == IF Negotiates THEN "capls" ELSE "nick"
        AfterWebIRC == IF "Password" \in Options THEN "pass" ELSE AfterPass
    IN  CASE pc = "launch" -> IF "WebIRC" \in Options THEN "webirc" ELSE AfterWebIRC
          [] pc = "webirc" -> AfterWebIRC
          [] pc = "pass"   -> AfterPass
          [] pc = "capls"  -> "capwait"
          [] pc = "capend" -> IF err THEN "cleanup" ELSE "nick"
          [] pc = "nick"   -> "user"
          [] pc = "user"   -> "await"

\* The three go statements; readLoop starts readMsgLoop.
Launch ==
    /\ main = "launch"
    /\ rl' = "select" /\ wl' = "select" /\ pl' = "select" /\ tick' = 0
    /\ rm' = [rm EXCEPT ![gen] = "read"]
    /\ main' = NextMessage("launch")
    /\ UNCHANGED <<stateVars, callVars, queue, sock, connVars, err, inLoop, reconnected,
                   flagVars>>

Register ==
    /\ main \in Sending /\ api["main"] = "idle"
    /\ main' = NextMessage(main)
    /\ BeginSend("main")
    /\ UNCHANGED <<stateVars, chanVars, connVars, err, inLoop, reconnected, loopVars, flagVars>>

\* negotiateCaps: every capability is answered, or CAPTimeout passes; with SASL
\* configured, AUTHENTICATE follows if `sasl' was acknowledged.
CapsAnswered ==
    /\ main = "capwait" /\ api["main"] = "idle"
    /\ \/ "UseSASL" \in Options /\ main' = "saslwait" /\ BeginSend("main") /\ UNCHANGED err
       \/ "UseSASL" \in Options /\ main' = "capend" /\ UNCHANGED callVars
          /\ err' = ("SASLOptional" \notin Options)
       \/ main' = "capend" /\ UNCHANGED <<callVars, err>>
    /\ UNCHANGED <<stateVars, chanVars, connVars, inLoop, reconnected, loopVars, flagVars>>

\* negotiateCaps returns e, after the deferred CAP END.
EndNegotiation(e) ==
    /\ api["main"] = "idle"
    /\ main' = "capend" /\ err' = e
    /\ UNCHANGED <<stateVars, callVars, chanVars, connVars, inLoop, reconnected, loopVars,
                   flagVars>>

SASLAnswered ==
    main = "saslwait" /\ \E e \in {FALSE, "SASLOptional" \notin Options} : EndNegotiation(e)

\* SASL is abandoned after CAPTimeout.
SASLTimedOut == main = "saslwait" /\ EndNegotiation("SASLOptional" \notin Options)

NegotiationDisconnected == main \in Negotiating /\ gen \in closed /\ EndNegotiation(TRUE)

\* Connect returns nil, to the client or to Loop.
Welcomed ==
    /\ main = "await" /\ api["main"] = "idle" /\ welcome
    /\ welcome' = FALSE
    /\ main' = IF inLoop THEN "loopwait" ELSE "ready"
    /\ UNCHANGED <<stateVars, callVars, chanVars, gen, socket, registered, wg, disconnects,
                   err, inLoop, reconnected, loopVars, flagVars>>

\* The timeout, or end is closed; both go to the deferred clean-up.
NotWelcomed ==
    /\ main = "await" /\ api["main"] = "idle"
    /\ GoTo("cleanup")

CleanUp ==
    /\ main = "cleanup" /\ api["main"] = "idle"
    /\ CloseEnd
    /\ main' = "cleanwait"
    /\ UNCHANGED <<lastError, callVars, chanVars, connVars, err, inLoop, reconnected,
                   loopVars, flagVars>>

-----------------------------------------------------------------------------
(* Loop and waitForStop                                                    *)

\* waitForStop, first line; a nil channel (gen = 0) is never ready.
EndClosed ==
    /\ main = "loopwait" /\ gen \in closed
    /\ GoTo("wgwait")

\* Mutant: the goroutines are not waited for.
StoppedEarly ==
    /\ main \in {"wgwait", "cleanwait"}
    /\ sock' = [g \in Gens |-> IF g = socket THEN "closed" ELSE sock[g]]
    /\ main' = IF main = "wgwait" THEN "check" ELSE "failed"
    /\ UNCHANGED <<stateVars, callVars, queue, rm, connVars, err, inLoop, reconnected,
                   loopVars, flagVars>>

\* The rest of waitForStop, in Loop or in the clean-up of Connect.
Stopped ==
    /\ main \in {"wgwait", "cleanwait"} /\ wg = 0
    /\ sock' = [g \in Gens |-> IF g = socket THEN "closed" ELSE sock[g]]
    /\ main' = IF main = "wgwait" THEN "check" ELSE "failed"
    /\ UNCHANGED <<stateVars, callVars, queue, rm, connVars, err, inLoop, reconnected,
                   loopVars, flagVars>>

\* Loop after waitForStop: return, sleep until ReconnectFreq has passed since the last
\* reconnection (if there was one, and it has not passed yet), or reconnect.
CheckQuit ==
    /\ main = "check"
    /\ \/ quit /\ main' = "stopped" /\ UNCHANGED reconnected
       \/ ~quit /\ reconnected /\ main' = "sleep" /\ UNCHANGED reconnected
       \/ ~quit /\ main' = "connect" /\ reconnected' = TRUE
    /\ UNCHANGED <<stateVars, callVars, chanVars, connVars, err, inLoop, loopVars, flagVars>>

SleepTimer ==
    /\ main = "sleep" /\ GoTo("connect")

\* Loop logs the error of Connect and starts over.
LoopAgain ==
    /\ main = "failed" /\ inLoop /\ GoTo("loopwait")

-----------------------------------------------------------------------------
(* The client's main goroutine outside Connect and Loop                    *)

CallLoop ==
    /\ ~inLoop
    /\ \/ main = "ready"
       \/ main = "failed" /\ (gen # 0 \/ LoopOnNilEnd)
    /\ inLoop' = TRUE /\ main' = "loopwait"
    /\ UNCHANGED <<stateVars, callVars, chanVars, connVars, err, reconnected, loopVars,
                   flagVars>>

CallConnect ==
    /\ main = "failed" /\ ~inLoop /\ GoTo("connect")

-----------------------------------------------------------------------------
\* What the client's main goroutine does by itself, without waiting for a server.
MainStep ==
    \/ ConnectHasQuit \/ ConnectReset \/ DialFailed \/ Dialed \/ Launch \/ Register
    \/ SASLTimedOut \/ NegotiationDisconnected \/ NotWelcomed \/ CleanUp
    \/ EndClosed \/ Stopped \/ CheckQuit \/ SleepTimer \/ LoopAgain

\* The calls the client makes.  It calls Quit once: each further call would move
\* quitAt, and a client that never stops calling Quit postpones serverDidNotQuit.
Call(p) ==
    \/ "Send" \in Calls /\ Send(p)
    \/ "Quit" \in Calls /\ ~quit /\ Quit(p)
    \/ "Reconnect" \in Calls /\ Reconnect(p)

Finish(p) == QuitSend(p) \/ ReconnectSignal(p)

Reader == (\E k \in Messages : ReaderMessage(k)) \/ ReaderReturn \/ ReaderErr \/ ReaderStop
          \/ ReaderDone

Writer == WriterTake \/ WriterWrote \/ WriterErr \/ WriterStop

Pinger == Tick \/ PingerSend \/ PingerErr \/ PingerStop

ReadMsgLoop(g) == ReadLine(g) \/ ReadError(g) \/ ReadMsgLoopEnd(g)

\* Loop has returned.
Terminated == main = "stopped" /\ UNCHANGED vars

Next ==
    \/ MainStep \/ CapsAnswered \/ SASLAnswered \/ Welcomed \/ CallLoop \/ CallConnect
    \/ \E p \in Actors : Call(p) \/ SendReturn(p) \/ Finish(p)
    \/ Reader \/ Writer \/ Pinger
    \/ \E g \in Gens : ReadMsgLoop(g)
    \/ QuitTimeout \/ Terminated

\* Steps the Go runtime and the timers cannot postpone for ever.  A select with
\* several ready cases picks one at random, so a goroutine that keeps coming back to
\* it with end closed leaves in the end: strong fairness.  Nothing is assumed of the
\* server, nor of the client but that it calls Loop and that its callbacks return.
Fairness ==
    /\ WF_vars(MainStep \/ (main = "ready" /\ CallLoop)) /\ WF_vars(QuitTimeout)
    /\ \A p \in Actors : WF_vars(SendReturn(p))
    /\ \A p \in Callers \cup {"reader"} : WF_vars(Finish(p))
    /\ WF_vars(ReaderReturn \/ ReaderDone) /\ SF_vars(ReaderStop \/ PingerStop)
    /\ WF_vars(Writer) /\ WF_vars(Pinger)
    /\ \A g \in Gens : WF_vars(ReadMsgLoopEnd(g) \/ (sock[g] = "closed" /\ ReadError(g)))

SafetySpec == Init /\ [][Next]_vars
Spec == SafetySpec /\ Fairness

-----------------------------------------------------------------------------
(* Safety                                                                  *)

\* The types of the fields of Connection and of the goroutines' positions.
TypeFlags ==
    /\ running \in BOOLEAN /\ lastError \in BOOLEAN /\ pingSent \in BOOLEAN
    /\ quit \in BOOLEAN /\ quitOld \in BOOLEAN
    /\ registered \in BOOLEAN /\ welcome \in BOOLEAN
    /\ err \in BOOLEAN /\ inLoop \in BOOLEAN /\ reconnected \in BOOLEAN

TypeOK ==
    /\ TypeFlags
    /\ gen \in 0 .. MaxGen /\ socket \in 0 .. MaxGen /\ closed \subseteq Gens
    /\ wg \in 0 .. 3 /\ disconnects \in 0 .. 1 /\ tick \in 0 .. PingModulus - 1
    /\ queue \in 0 .. QueueSize
    /\ sock \in [Gens -> {"none", "open", "closed"}]
    /\ rm \in [Gens -> {"read", "line", "err", "done"}]
    /\ main \in MainPCs
    /\ rl \in {"select", "callback", "exit", "done"}
    /\ wl \in {"select", "write", "done"}
    /\ pl \in {"select", "ping", "nick", "fail", "done"}
    /\ api \in [Actors -> {"idle", "send", "quit", "reconnect"}]
    /\ snap \in [Actors -> 0 .. MaxGen]

\* irc.running says exactly whether the current end channel is open: close(irc.end)
\* never runs twice on one channel (it would panic) and Connected() never reports a
\* connection whose goroutines were told to stop.
EndOpenIffRunning == running <=> gen # 0 /\ gen \notin closed

\* A goroutine of the connection is gone only after end was closed: a read error, a
\* write error and a failed keepalive always stop the whole connection, also after a
\* reconnection (lastError must have been reset), so Loop notices every loss.
LossStopsConnection ==
    gen \notin closed /\ main # "launch" => "done" \notin {rl, wl, pl} \/ gen = 0

\* A goroutine blocked in sendInternal holds a pair (end, pwrite) that somebody will
\* serve: end is closed, or the generation is the current one and its writeLoop is
\* alive (or about to be launched).  Nobody waits on a queue that nobody drains.
NoStrandedSender ==
    \A p \in Actors : api[p] = "send" =>
        \/ snap[p] \in closed
        \/ snap[p] = gen /\ (wl # "done" \/ main = "launch")

\* Where main has left a connection behind.
Between == {"connect", "dial", "failed", "check", "sleep", "stopped"}

\* The invariant stated in Connect: after a failure the goroutines are stopped and the
\* socket is closed; the same holds whenever Loop sleeps, dials again or has returned,
\* so goroutines of two connections never run side by side.
StoppedIsClean ==
    main \in Between =>
        /\ rl = "done" /\ wl = "done" /\ pl = "done" /\ wg = 0
        /\ ~running
        /\ \A g \in Gens : sock[g] # "open"

\* AddDisconnectCallback: a registered connection runs the disconnect callbacks exactly
\* once, before any reconnection attempt and before Loop returns; a connection that
\* was never registered does not run them.
DisconnectCallbacksOnce ==
    main \in Between => disconnects = IF registered THEN 1 ELSE 0

-----------------------------------------------------------------------------
(* Liveness                                                                *)

\* Quit ends the client whatever it is doing (dialing, negotiating, sleeping, blocked
\* in a full queue) and whether or not the server answers QUIT: Loop returns, or the
\* call of Connect that was made outside Loop fails.
QuitStops == quit ~> main = "stopped" \/ (main = "failed" /\ ~inLoop)

\* Once end is closed all goroutines stop, and Loop makes another attempt or returns.
LossIsHandled ==
    \A g \in Gens : g \in closed /\ inLoop ~> main \in {"connect", "stopped"} \/ gen # g

\* readMsgLoop, which waitForStop does not wait for, does not outlive its connection.
ReadMsgLoopEnds == \A g \in Gens : g \in closed ~> rm[g] = "done"
=============================================================================
