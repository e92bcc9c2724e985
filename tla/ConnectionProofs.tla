-------------------------- MODULE ConnectionProofs --------------------------
(***************************************************************************)
(* The safety invariants of Connection, for every number of client          *)
(* goroutines, generations and queue size.                                 *)
(***************************************************************************)
EXTENDS Connection, TLAPS

\* Only the newest generation can be open.
Generations ==
    \A g \in Gens : /\ g < gen => g \in closed
                    /\ g \in closed => g <= gen

\* An error was recorded together with the closing of end.
ErrorStops == lastError => ~running

\* wg counts the goroutines that have not called Done; at launch they are still to start.
Live(pc) == IF pc = "done" THEN 0 ELSE 1
Counted ==
    /\ main = "launch" => rl = "done" /\ wl = "done" /\ pl = "done" /\ wg = 3
    /\ main # "launch" => wg = Live(rl) + Live(wl) + Live(pl)

\* Before the first dial there is nothing to stop; past it, main knows when end is closed.
Phases ==
    /\ gen = 0 => main \in {"connect", "dial", "failed", "loopwait"} /\ wg = 0 /\ ~registered
    /\ gen # 0 /\ main \in Between \cup {"wgwait", "cleanwait"} => gen \in closed
    /\ main \in Between => wg = 0
    /\ main = "dial" => ~lastError
    /\ main = "launch" => ~registered
    /\ rl = "exit" => gen \in closed

\* The only socket that may be open is irc.socket.
Sockets ==
    \A g \in Gens : sock[g] = "open" => g = socket /\ main \notin Between

\* The disconnect callbacks have run exactly if readLoop of a registered connection exited.
Disconnects == disconnects = IF registered /\ rl \in {"exit", "done"} THEN 1 ELSE 0

\* The inductive invariant.
IInv ==
    /\ TypeOK
    /\ EndOpenIffRunning /\ LossStopsConnection /\ NoStrandedSender
    /\ Generations /\ ErrorStops /\ Counted /\ Phases /\ Sockets /\ Disconnects

USE CallersAssumption, CallbacksCallAssumption, CallsAssumption, MessagesAssumption,
    MaxGenAssumption, QueueSizeAssumption, PingModulusAssumption, OptionsAssumption

USE DEF Gens, Actors

\* The initial state satisfies the inductive invariant.
LEMMA InitIInv == Init => IInv
<1> SUFFICES ASSUME Init PROVE IInv
  OBVIOUS
<1>1. TypeFlags
  BY DEF Init, TypeFlags
<1>2. TypeOK
  BY <1>1 DEF Init, TypeOK, MainPCs
<1>3. EndOpenIffRunning /\ LossStopsConnection /\ ErrorStops /\ Counted /\ Phases /\ Disconnects
  BY DEF Init, EndOpenIffRunning, LossStopsConnection, ErrorStops, Counted, Live, Phases,
         Between, Disconnects
<1>4. NoStrandedSender /\ Generations /\ Sockets
  BY DEF Init, NoStrandedSender, Generations, Sockets
<1> QED
  BY <1>2, <1>3, <1>4 DEF IInv

\* closeEnd closes the current generation, if there is one, and no other.
LEMMA CloseEndFacts ==
    ASSUME TypeOK, EndOpenIffRunning, CloseEnd
    PROVE  /\ ~running' /\ running' \in BOOLEAN
           /\ closed' \in SUBSET Gens
<1>1. CASE running
  <2>1. gen \in Gens
    BY <1>1 DEF TypeOK, EndOpenIffRunning
  <2> QED
    BY <1>1, <2>1 DEF CloseEnd, TypeOK
<1>2. CASE ~running
  BY <1>2 DEF CloseEnd, TypeOK, TypeFlags
<1> QED
  BY <1>1, <1>2

\* setError does the same: when an error is recorded already, end is closed already.
LEMMA SetErrorFacts ==
    ASSUME TypeOK, EndOpenIffRunning, ErrorStops, SetError
    PROVE  /\ ~running' /\ running' \in BOOLEAN
           /\ closed' \in SUBSET Gens
<1>1. CASE lastError
  BY <1>1 DEF SetError, stateVars, TypeOK, TypeFlags, ErrorStops
<1>2. CASE ~lastError
  BY <1>2, CloseEndFacts DEF SetError
<1> QED
  BY <1>1, <1>2

-----------------------------------------------------------------------------
(* Every step preserves the invariant; one lemma for each goroutine.  The   *)
(* definitions used throughout are the parts of the invariant and the      *)
(* tuples of variables in UNCHANGED.                                       *)

USE DEF IInv, TypeOK, EndOpenIffRunning, LossStopsConnection, NoStrandedSender, Generations,
        ErrorStops, Counted, Live, Phases, Between, Sockets, Disconnects,
        MainPCs, Sending, Negotiating,
        stateVars, callVars, chanVars, connVars, mainVars, loopVars, flagVars

\* The invariant is preserved by the steps of Connect.
LEMMA ConnectPreserves ==
    ASSUME IInv,
           \/ ConnectHasQuit \/ ConnectReset \/ DialFailed \/ Dialed
           \/ Launch \/ Register \/ CapsAnswered \/ SASLAnswered
           \/ SASLTimedOut \/ NegotiationDisconnected \/ Welcomed \/ NotWelcomed
           \/ CleanUp
    PROVE  IInv'
<1>1. CASE ConnectHasQuit
  BY <1>1 DEF ConnectHasQuit, GoTo, TypeFlags
<1>2. CASE ConnectReset
  <2>1. TypeFlags'
    BY <1>2 DEF ConnectReset, TypeFlags
  <2>2. TypeOK'
    BY <1>2, <2>1 DEF ConnectReset
  <2>3. (EndOpenIffRunning /\ LossStopsConnection /\ ErrorStops /\ Counted)'
    BY <1>2 DEF ConnectReset
  <2>4. (Phases /\ Disconnects)'
    BY <1>2 DEF ConnectReset
  <2>5. (NoStrandedSender /\ Generations /\ Sockets)'
    BY <1>2 DEF ConnectReset
  <2> QED
    BY <2>2, <2>3, <2>4, <2>5
<1>3. CASE DialFailed
  BY <1>3 DEF DialFailed, GoTo, TypeFlags
<1>4. CASE Dialed
  <2>1. TypeFlags'
    BY <1>4 DEF Dialed, TypeFlags
  <2>2. TypeOK'
    BY <1>4, <2>1 DEF Dialed
  <2>3. (EndOpenIffRunning /\ LossStopsConnection /\ ErrorStops /\ Counted)'
    BY <1>4 DEF Dialed
  <2>4. (Phases /\ Disconnects)'
    BY <1>4 DEF Dialed
  <2>5. (NoStrandedSender /\ Generations /\ Sockets)'
    BY <1>4 DEF Dialed
  <2> QED
    BY <2>2, <2>3, <2>4, <2>5
<1>5. CASE Launch
  <2>1. TypeFlags'
    BY <1>5 DEF Launch, TypeFlags, NextMessage, Negotiates
  <2>2. TypeOK'
    BY <1>5, <2>1 DEF Launch, NextMessage, Negotiates
  <2>3. (EndOpenIffRunning /\ LossStopsConnection /\ ErrorStops /\ Counted)'
    BY <1>5 DEF Launch, NextMessage, Negotiates
  <2>4. (Phases /\ Disconnects)'
    BY <1>5 DEF Launch, NextMessage, Negotiates
  <2>5. (NoStrandedSender /\ Generations /\ Sockets)'
    BY <1>5 DEF Launch, NextMessage, Negotiates
  <2> QED
    BY <2>2, <2>3, <2>4, <2>5
<1>6. CASE Register
  BY <1>6 DEF Register, NextMessage, Negotiates, BeginSend, TypeFlags
<1>7. CASE CapsAnswered
  <2>1. TypeFlags'
    BY <1>7 DEF CapsAnswered, TypeFlags, BeginSend
  <2>2. TypeOK'
    BY <1>7, <2>1 DEF CapsAnswered, BeginSend
  <2>3. (EndOpenIffRunning /\ LossStopsConnection /\ ErrorStops /\ Counted)'
    BY <1>7 DEF CapsAnswered, BeginSend
  <2>4. (Phases /\ Disconnects)'
    BY <1>7 DEF CapsAnswered, BeginSend
  <2>5. (NoStrandedSender /\ Generations /\ Sockets)'
    BY <1>7 DEF CapsAnswered, BeginSend
  <2> QED
    BY <2>2, <2>3, <2>4, <2>5
<1>8. CASE SASLAnswered
  <2>1. TypeFlags'
    BY <1>8 DEF SASLAnswered, EndNegotiation, TypeFlags
  <2>2. TypeOK'
    BY <1>8, <2>1 DEF SASLAnswered, EndNegotiation
  <2>3. (EndOpenIffRunning /\ LossStopsConnection /\ ErrorStops /\ Counted)'
    BY <1>8 DEF SASLAnswered, EndNegotiation
  <2>4. (Phases /\ Disconnects)'
    BY <1>8 DEF SASLAnswered, EndNegotiation
  <2>5. (NoStrandedSender /\ Generations /\ Sockets)'
    BY <1>8 DEF SASLAnswered, EndNegotiation
  <2> QED
    BY <2>2, <2>3, <2>4, <2>5
<1>9. CASE SASLTimedOut
  BY <1>9 DEF SASLTimedOut, EndNegotiation, TypeFlags
<1>10. CASE NegotiationDisconnected
  BY <1>10 DEF NegotiationDisconnected, EndNegotiation, TypeFlags
<1>11. CASE Welcomed
  <2>1. TypeFlags'
    BY <1>11 DEF Welcomed, TypeFlags
  <2>2. TypeOK'
    BY <1>11, <2>1 DEF Welcomed
  <2>3. (EndOpenIffRunning /\ LossStopsConnection /\ ErrorStops /\ Counted)'
    BY <1>11 DEF Welcomed
  <2>4. (Phases /\ Disconnects)'
    BY <1>11 DEF Welcomed
  <2>5. (NoStrandedSender /\ Generations /\ Sockets)'
    BY <1>11 DEF Welcomed
  <2> QED
    BY <2>2, <2>3, <2>4, <2>5
<1>12. CASE NotWelcomed
  BY <1>12 DEF NotWelcomed, GoTo, TypeFlags
<1>13. CASE CleanUp
  <2>1. TypeFlags'
    BY <1>13, CloseEndFacts DEF CleanUp, TypeFlags
  <2>2. TypeOK'
    BY <1>13, <2>1, CloseEndFacts DEF CleanUp
  <2>3. (EndOpenIffRunning /\ LossStopsConnection /\ ErrorStops /\ Counted)'
    BY <1>13 DEF CleanUp, CloseEnd
  <2>4. (Phases /\ Disconnects)'
    BY <1>13 DEF CleanUp, CloseEnd
  <2>5. (NoStrandedSender /\ Generations /\ Sockets)'
    BY <1>13 DEF CleanUp, CloseEnd
  <2> QED
    BY <2>2, <2>3, <2>4, <2>5
<1> QED
  BY <1>1, <1>2, <1>3, <1>4, <1>5, <1>6, <1>7, <1>8, <1>9, <1>10, <1>11, <1>12, <1>13

\* The invariant is preserved by the steps of Loop, waitForStop and the client's main goroutine.
LEMMA LoopPreserves ==
    ASSUME IInv,
           \/ EndClosed \/ Stopped \/ CheckQuit \/ SleepTimer
           \/ LoopAgain \/ CallLoop \/ CallConnect
    PROVE  IInv'
<1>1. CASE EndClosed
  BY <1>1 DEF EndClosed, GoTo, TypeFlags
<1>2. CASE Stopped
  BY <1>2 DEF Stopped, TypeFlags
<1>3. CASE CheckQuit
  <2>1. TypeFlags'
    BY <1>3 DEF CheckQuit, TypeFlags
  <2>2. TypeOK'
    BY <1>3, <2>1 DEF CheckQuit
  <2>3. (EndOpenIffRunning /\ LossStopsConnection /\ ErrorStops /\ Counted)'
    BY <1>3 DEF CheckQuit
  <2>4. (Phases /\ Disconnects)'
    BY <1>3 DEF CheckQuit
  <2>5. (NoStrandedSender /\ Generations /\ Sockets)'
    BY <1>3 DEF CheckQuit
  <2> QED
    BY <2>2, <2>3, <2>4, <2>5
<1>4. CASE SleepTimer
  BY <1>4 DEF SleepTimer, GoTo, TypeFlags
<1>5. CASE LoopAgain
  BY <1>5 DEF LoopAgain, GoTo, TypeFlags
<1>6. CASE CallLoop
  BY <1>6 DEF CallLoop, TypeFlags
<1>7. CASE CallConnect
  BY <1>7 DEF CallConnect, GoTo, TypeFlags
<1> QED
  BY <1>1, <1>2, <1>3, <1>4, <1>5, <1>6, <1>7

\* The invariant is preserved by the calls Send, Quit and Reconnect.
LEMMA CallPreserves ==
    ASSUME IInv,
           \E p \in Actors : \/ Send(p) \/ SendQueued(p) \/ SendAborted(p)
                             \/ Quit(p) \/ QuitSend(p) \/ Reconnect(p) \/ ReconnectSignal(p)
    PROVE  IInv'
<1>1. ASSUME NEW p \in Actors, Send(p) PROVE IInv'
  BY <1>1 DEF Send, CanCall, BeginSend, TypeFlags
<1>2. ASSUME NEW p \in Actors, SendQueued(p) PROVE IInv'
  BY <1>2 DEF SendQueued, TypeFlags
<1>3. ASSUME NEW p \in Actors, SendAborted(p) PROVE IInv'
  BY <1>3 DEF SendAborted, TypeFlags
<1>4. ASSUME NEW p \in Actors, Quit(p) PROVE IInv'
  <2>1. TypeFlags'
    BY <1>4 DEF Quit, TypeFlags, CanCall
  <2>2. TypeOK'
    BY <1>4, <2>1 DEF Quit, CanCall
  <2>3. (EndOpenIffRunning /\ LossStopsConnection /\ ErrorStops /\ Counted)'
    BY <1>4 DEF Quit, CanCall
  <2>4. (Phases /\ Disconnects)'
    BY <1>4 DEF Quit, CanCall
  <2>5. (NoStrandedSender /\ Generations /\ Sockets)'
    BY <1>4 DEF Quit, CanCall
  <2> QED
    BY <2>2, <2>3, <2>4, <2>5
<1>5. ASSUME NEW p \in Actors, QuitSend(p) PROVE IInv'
  BY <1>5 DEF QuitSend, BeginSend, TypeFlags
<1>6. ASSUME NEW p \in Actors, Reconnect(p) PROVE IInv'
  <2>1. TypeFlags'
    BY <1>6, CloseEndFacts DEF Reconnect, TypeFlags, CanCall
  <2>2. TypeOK'
    BY <1>6, <2>1, CloseEndFacts DEF Reconnect, CanCall
  <2>3. (EndOpenIffRunning /\ LossStopsConnection /\ ErrorStops /\ Counted)'
    BY <1>6 DEF Reconnect, CloseEnd, CanCall
  <2>4. (Phases /\ Disconnects)'
    BY <1>6 DEF Reconnect, CloseEnd, CanCall
  <2>5. (NoStrandedSender /\ Generations /\ Sockets)'
    BY <1>6 DEF Reconnect, CloseEnd, CanCall
  <2> QED
    BY <2>2, <2>3, <2>4, <2>5
<1>7. ASSUME NEW p \in Actors, ReconnectSignal(p) PROVE IInv'
  BY <1>7 DEF ReconnectSignal, TypeFlags
<1> QED
  BY <1>1, <1>2, <1>3, <1>4, <1>5, <1>6, <1>7

\* The invariant is preserved by readLoop and readMsgLoop.
LEMMA ReaderPreserves ==
    ASSUME IInv,
           \/ (\E k \in Messages : ReaderMessage(k)) \/ ReaderReturn \/ ReaderErr \/ ReaderStop
           \/ ReaderDone
           \/ \E g \in Gens : ReadLine(g) \/ ReadError(g) \/ ReadMsgLoopEnd(g)
    PROVE  IInv'
<1>1. ASSUME NEW k \in Messages, ReaderMessage(k) PROVE IInv'
  <2>1. TypeFlags'
    BY <1>1 DEF ReaderMessage, TypeFlags, BaseCallback, HandleRegistration, RecordPong, BeginSend
  <2>2. TypeOK'
    BY <1>1, <2>1 DEF ReaderMessage, BaseCallback, HandleRegistration, RecordPong, BeginSend
  <2>3. (EndOpenIffRunning /\ LossStopsConnection /\ ErrorStops /\ Counted)'
    BY <1>1 DEF ReaderMessage, BaseCallback, HandleRegistration, RecordPong, BeginSend
  <2>4. (Phases /\ Disconnects)'
    BY <1>1 DEF ReaderMessage, BaseCallback, HandleRegistration, RecordPong, BeginSend
  <2>5. (NoStrandedSender /\ Generations /\ Sockets)'
    BY <1>1 DEF ReaderMessage, BaseCallback, HandleRegistration, RecordPong, BeginSend
  <2> QED
    BY <2>2, <2>3, <2>4, <2>5
<1>2. CASE ReaderReturn
  BY <1>2 DEF ReaderReturn, TypeFlags
<1>3. CASE ReaderErr
  <2>1. TypeFlags'
    BY <1>3, SetErrorFacts DEF ReaderErr, TypeFlags, SetError, CloseEnd, RunDisconnectCallbacks
  <2>2. TypeOK'
    BY <1>3, <2>1, SetErrorFacts DEF ReaderErr, RunDisconnectCallbacks
  <2>3. (EndOpenIffRunning /\ LossStopsConnection /\ ErrorStops /\ Counted)'
    BY <1>3 DEF ReaderErr, SetError, CloseEnd, RunDisconnectCallbacks
  <2>4. (Phases /\ Disconnects)'
    BY <1>3 DEF ReaderErr, SetError, CloseEnd, RunDisconnectCallbacks
  <2>5. (NoStrandedSender /\ Generations /\ Sockets)'
    BY <1>3 DEF ReaderErr, SetError, CloseEnd, RunDisconnectCallbacks
  <2> QED
    BY <2>2, <2>3, <2>4, <2>5
<1>4. CASE ReaderStop
  BY <1>4 DEF ReaderStop, RunDisconnectCallbacks, TypeFlags
<1>5. CASE ReaderDone
  <2>1. TypeFlags'
    BY <1>5 DEF ReaderDone, TypeFlags
  <2>2. TypeOK'
    BY <1>5, <2>1 DEF ReaderDone
  <2>3. (EndOpenIffRunning /\ LossStopsConnection /\ ErrorStops /\ Counted)'
    BY <1>5 DEF ReaderDone
  <2>4. (Phases /\ Disconnects)'
    BY <1>5 DEF ReaderDone
  <2>5. (NoStrandedSender /\ Generations /\ Sockets)'
    BY <1>5 DEF ReaderDone
  <2> QED
    BY <2>2, <2>3, <2>4, <2>5
<1>6. ASSUME NEW g \in Gens, ReadLine(g) PROVE IInv'
  BY <1>6 DEF ReadLine, TypeFlags
<1>7. ASSUME NEW g \in Gens, ReadError(g) PROVE IInv'
  BY <1>7 DEF ReadError, TypeFlags
<1>8. ASSUME NEW g \in Gens, ReadMsgLoopEnd(g) PROVE IInv'
  BY <1>8 DEF ReadMsgLoopEnd, TypeFlags
<1> QED
  BY <1>1, <1>2, <1>3, <1>4, <1>5, <1>6, <1>7, <1>8

\* The invariant is preserved by writeLoop, pingLoop and the clock.
LEMMA WriterPingerPreserves ==
    ASSUME IInv,
           \/ WriterTake \/ WriterWrote \/ WriterErr \/ WriterStop
           \/ Tick \/ PingerSend \/ PingerErr \/ PingerStop
           \/ QuitTimeout
    PROVE  IInv'
<1>1. CASE WriterTake
  BY <1>1 DEF WriterTake, TypeFlags
<1>2. CASE WriterWrote
  BY <1>2 DEF WriterWrote, TypeFlags
<1>3. CASE WriterErr
  <2>1. TypeFlags'
    BY <1>3, SetErrorFacts DEF WriterErr, TypeFlags, SetError, CloseEnd
  <2>2. TypeOK'
    BY <1>3, <2>1, SetErrorFacts DEF WriterErr
  <2>3. (EndOpenIffRunning /\ LossStopsConnection /\ ErrorStops /\ Counted)'
    BY <1>3 DEF WriterErr, SetError, CloseEnd
  <2>4. (Phases /\ Disconnects)'
    BY <1>3 DEF WriterErr, SetError, CloseEnd
  <2>5. (NoStrandedSender /\ Generations /\ Sockets)'
    BY <1>3 DEF WriterErr, SetError, CloseEnd
  <2> QED
    BY <2>2, <2>3, <2>4, <2>5
<1>4. CASE WriterStop
  BY <1>4 DEF WriterStop, TypeFlags
<1>5. CASE Tick
  <2>1. TypeFlags'
    BY <1>5 DEF Tick, TypeFlags
  <2>2. TypeOK'
    BY <1>5, <2>1 DEF Tick
  <2>3. (EndOpenIffRunning /\ LossStopsConnection /\ ErrorStops /\ Counted)'
    BY <1>5 DEF Tick
  <2>4. (Phases /\ Disconnects)'
    BY <1>5 DEF Tick
  <2>5. (NoStrandedSender /\ Generations /\ Sockets)'
    BY <1>5 DEF Tick
  <2> QED
    BY <2>2, <2>3, <2>4, <2>5
<1>6. CASE PingerSend
  BY <1>6 DEF PingerSend, BeginSend, TypeFlags
<1>7. CASE PingerErr
  <2>1. TypeFlags'
    BY <1>7, SetErrorFacts DEF PingerErr, TypeFlags, SetError, CloseEnd
  <2>2. TypeOK'
    BY <1>7, <2>1, SetErrorFacts DEF PingerErr
  <2>3. (EndOpenIffRunning /\ LossStopsConnection /\ ErrorStops /\ Counted)'
    BY <1>7 DEF PingerErr, SetError, CloseEnd
  <2>4. (Phases /\ Disconnects)'
    BY <1>7 DEF PingerErr, SetError, CloseEnd
  <2>5. (NoStrandedSender /\ Generations /\ Sockets)'
    BY <1>7 DEF PingerErr, SetError, CloseEnd
  <2> QED
    BY <2>2, <2>3, <2>4, <2>5
<1>8. CASE PingerStop
  BY <1>8 DEF PingerStop, TypeFlags
<1>9. CASE QuitTimeout
  BY <1>9 DEF QuitTimeout, TypeFlags
<1> QED
  BY <1>1, <1>2, <1>3, <1>4, <1>5, <1>6, <1>7, <1>8, <1>9

HIDE DEF IInv, TypeOK, EndOpenIffRunning, LossStopsConnection, NoStrandedSender, Generations,
         ErrorStops, Counted, Live, Phases, Between, Sockets, Disconnects,
         MainPCs, Sending, Negotiating,
         stateVars, callVars, chanVars, connVars, mainVars, loopVars, flagVars

\* Every step of the specification preserves the inductive invariant.
LEMMA NextIInv == IInv /\ [Next]_vars => IInv'
<1> SUFFICES ASSUME IInv, [Next]_vars PROVE IInv'
  OBVIOUS
<1>1. CASE UNCHANGED vars
  BY <1>1 DEF vars, stateVars, callVars, chanVars, connVars, mainVars, loopVars, flagVars,
         IInv, TypeOK, TypeFlags, EndOpenIffRunning, LossStopsConnection, NoStrandedSender, Generations,
         ErrorStops, Counted, Live, Phases, Between, Sockets, Disconnects
<1>2. CASE Next
  BY <1>1, <1>2, ConnectPreserves, LoopPreserves, CallPreserves, ReaderPreserves,
     WriterPingerPreserves
     DEF Next, MainStep, Call, SendReturn, Finish, Reader, Writer, Pinger, ReadMsgLoop,
         Terminated
<1> QED
  BY <1>1, <1>2

\* The inductive invariant holds in every reachable state.
THEOREM Invariance == SafetySpec => []IInv
  BY InitIInv, NextIInv, PTL DEF SafetySpec

\* The invariant stated at the top of Connect follows from the inductive one.
LEMMA CleanFromIInv == IInv => StoppedIsClean
<1> SUFFICES ASSUME IInv, main \in Between PROVE
        /\ rl = "done" /\ wl = "done" /\ pl = "done" /\ wg = 0 /\ ~running
        /\ \A g \in Gens : sock[g] # "open"
  BY DEF StoppedIsClean
<1>1. wg = 0 /\ main # "launch"
  BY DEF IInv, Phases, Between
<1>2. rl = "done" /\ wl = "done" /\ pl = "done"
  BY <1>1 DEF IInv, Counted, Live
<1>3. ~running
  BY DEF IInv, EndOpenIffRunning, Phases
<1>4. \A g \in Gens : sock[g] # "open"
  BY DEF IInv, Sockets
<1> QED
  BY <1>1, <1>2, <1>3, <1>4

\* Types: every field and position stays in its range; in particular wg never goes
\* negative and pwrite never holds more than writeQueueSize messages.
THEOREM TypeCorrect == SafetySpec => []TypeOK
  BY Invariance, PTL DEF IInv

\* irc.running and the current end channel agree in every reachable state, so end is
\* never closed twice.
THEOREM EndClosedOnce == SafetySpec => []EndOpenIffRunning
  BY Invariance, PTL DEF IInv

\* No goroutine of a connection dies silently.
THEOREM LossAlwaysStops == SafetySpec => []LossStopsConnection
  BY Invariance, PTL DEF IInv

\* No call of sendInternal waits on a queue that nobody serves.
THEOREM SendersServed == SafetySpec => []NoStrandedSender
  BY Invariance, PTL DEF IInv

\* After a failed Connect, and whenever Loop is between two connections, everything that
\* belonged to the old connection is gone.
THEOREM CleanStop == SafetySpec => []StoppedIsClean
<1>1. IInv => StoppedIsClean
  BY CleanFromIInv
<1> QED
  BY Invariance, <1>1, PTL

\* The disconnect callbacks run exactly once for a registered connection.
THEOREM DisconnectOnce == SafetySpec => []DisconnectCallbacksOnce
<1>1. IInv => DisconnectCallbacksOnce
  BY CleanFromIInv DEF IInv, Disconnects, StoppedIsClean, DisconnectCallbacksOnce
<1> QED
  BY Invariance, <1>1, PTL

=============================================================================
