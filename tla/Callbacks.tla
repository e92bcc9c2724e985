----------------------------- MODULE Callbacks -----------------------------
(***************************************************************************)
(* The callback registry of ircevent (src/ircevent/irc_callback.go) and    *)
(* the dispatch of messages to it.  Every operation holds eventsMutex, but *)
(* a dispatch only while it looks up its list: the callbacks run with the  *)
(* mutex free, so any goroutine, or a callback itself, may change the      *)
(* registry in the middle of a dispatch.                                   *)
(*                                                                         *)
(* A list is an array that additions and removals replace by a new one and *)
(* ReplaceCallback writes in place.  A dispatch goes on over the array it  *)
(* found; `shared' says that it is still the one in irc.events.            *)
(***************************************************************************)
EXTENDS Naturals, Sequences, SequencesExt, Selections

CONSTANTS
    Funcs,        \* the client's functions; each is registered at most once
    Dispatchers,  \* readLoop, and goroutines or callbacks in HandleMessage
    Commands,     \* the commands that are dispatched
    None,         \* no CallbackID yet
    ConnectFirst  \* may AddConnectCallback be the very first registration?

RPL_ENDOFMOTD == "376"
ERR_NOMOTD == "422"
registrationEvent == "REGISTRATION"
NoCommand == ""  \* the command of the zero CallbackID

ASSUME CommandsAssumption ==
    /\ {RPL_ENDOFMOTD, ERR_NOMOTD} \subseteq Commands
    /\ Commands \cap {NoCommand, "BATCH", registrationEvent} = {}
ASSUME FuncsAssumption == "base" \notin Funcs
ASSUME NoneAssumption ==
    None \notin Nat /\ None \notin (Commands \cup {NoCommand, "BATCH", registrationEvent}) \X Nat
ASSUME ConnectFirstAssumption == ConnectFirst \in BOOLEAN

VARIABLES
    events,          \* irc.events: the list of each command
    batchCallbacks,  \* irc.batchCallbacks
    callbackCounter, \* irc.callbackCounter
    setup,           \* how many of the base callbacks setupCallbacks has added
    handle,          \* the CallbackID the client holds for each of its functions
    half,            \* functions whose AddConnectCallback has added one copy: its id
    gone,            \* history: functions removed or replaced by the client
    cleared,         \* history: commands cleared after their base callback was added
    dispatch         \* the dispatch each dispatcher is in

regVars == <<setup, handle, half, gone, cleared>>
vars == <<events, batchCallbacks, callbackCounter, regVars, dispatch>>

\* No dispatch: ran is the pairs run so far, start the ids found at the beginning,
\* before the functions gone by then.
Idle == [command |-> NoCommand, list |-> <<>>, shared |-> FALSE, ran |-> <<>>, start |-> <<>>,
         before |-> {}]

Init ==
    /\ events = [c \in Commands |-> <<>>] /\ batchCallbacks = <<>> /\ callbackCounter = 0
    /\ setup = 0 /\ handle = [f \in Funcs |-> None] /\ half = [f \in Funcs |-> None]
    /\ gone = {} /\ cleared = {}
    /\ dispatch = [d \in Dispatchers |-> Idle]

\* A function the client has not registered yet.
Fresh(f) == f \notin gone /\ handle[f] = None /\ half[f] = None

-----------------------------------------------------------------------------
(* Registration                                                            *)

\* Mutant: the new list is written over the old array.
InstallInPlace(cmds, new) ==
    /\ events' = [c \in Commands |-> IF c \in cmds THEN new[c] ELSE events[c]]
    /\ dispatch' = [d \in Dispatchers |->
           IF dispatch[d].command \in cmds
           THEN [dispatch[d] EXCEPT !.list =
                    [i \in DOMAIN @ |-> IF i \in DOMAIN new[dispatch[d].command]
                                        THEN new[dispatch[d].command][i] ELSE @[i]]]
           ELSE dispatch[d]]

\* New arrays for the given commands; a dispatch over an old one keeps it.
Install(cmds, new) ==
    /\ events' = [c \in Commands |-> IF c \in cmds THEN new[c] ELSE events[c]]
    /\ dispatch' = [d \in Dispatchers |->
                       IF dispatch[d].command \in cmds
                       THEN [dispatch[d] EXCEPT !.shared = FALSE] ELSE dispatch[d]]

\* The id addCallback gives: the caller's, unless that is 0.
NewId(idNum) == IF idNum = 0 THEN callbackCounter ELSE idNum

\* Mutant: every callback is appended.
appendCallback(command, f, prepend, idNum) ==
    /\ callbackCounter' = IF idNum = 0 THEN callbackCounter + 1 ELSE callbackCounter
    /\ Install({command}, [c \in {command} |->
           Append(events[command], [id |-> NewId(idNum), callback |-> f])])

addCallback(command, f, prepend, idNum) ==
    LET pair == [id |-> NewId(idNum), callback |-> f]
        list == IF prepend THEN <<pair>> \o events[command] ELSE Append(events[command], pair)
    IN  /\ callbackCounter' = IF idNum = 0 THEN callbackCounter + 1 ELSE callbackCounter
        /\ Install({command}, [c \in {command} |-> list])

AddCallback(f, command) ==
    /\ Fresh(f)
    /\ addCallback(command, f, FALSE, 0)
    /\ handle' = [handle EXCEPT ![f] = <<command, NewId(0)>>]
    /\ UNCHANGED <<batchCallbacks, setup, half, gone, cleared>>

\* Commands that cannot be registered ("", "*...", BATCH) give the zero CallbackID.
AddCallbackRefused(f) ==
    /\ Fresh(f)
    /\ handle' = [handle EXCEPT ![f] = <<NoCommand, 0>>]
    /\ UNCHANGED <<events, batchCallbacks, callbackCounter, setup, half, gone, cleared, dispatch>>

\* AddConnectCallback locks twice: once for each copy of the callback.
AddConnectCallback(f) ==
    /\ Fresh(f) /\ (ConnectFirst \/ callbackCounter # 0)
    /\ addCallback(RPL_ENDOFMOTD, f, FALSE, 0)
    /\ half' = [half EXCEPT ![f] = NewId(0)]
    /\ UNCHANGED <<batchCallbacks, setup, handle, gone, cleared>>

AddConnectCallbackCopy(f) ==
    /\ half[f] # None
    /\ addCallback(ERR_NOMOTD, f, FALSE, half[f])
    /\ handle' = [handle EXCEPT ![f] = <<registrationEvent, half[f]>>]
    /\ half' = [half EXCEPT ![f] = None]
    /\ UNCHANGED <<batchCallbacks, setup, gone, cleared>>

\* Mutant: the counter is not advanced.
AddBatchCallbackSameId(f) ==
    /\ Fresh(f)
    /\ batchCallbacks' = Append(batchCallbacks, [id |-> callbackCounter, callback |-> f])
    /\ handle' = [handle EXCEPT ![f] = <<"BATCH", callbackCounter>>]
    /\ UNCHANGED <<events, callbackCounter, setup, half, gone, cleared, dispatch>>

AddBatchCallback(f) ==
    /\ Fresh(f)
    /\ callbackCounter' = callbackCounter + 1
    /\ batchCallbacks' = Append(batchCallbacks, [id |-> callbackCounter, callback |-> f])
    /\ handle' = [handle EXCEPT ![f] = <<"BATCH", callbackCounter>>]
    /\ UNCHANGED <<events, setup, half, gone, cleared, dispatch>>

-----------------------------------------------------------------------------
(* Removal and replacement; the client drops the CallbackID it has used up. *)

Without(list, id) == Select(list, {p \in ToSet(list) : p.id # id})

\* Mutant: the second copy of a connect callback is forgotten.
ListsOnce(command) ==
    IF command = registrationEvent THEN {RPL_ENDOFMOTD} ELSE {command} \cap Commands

\* The lists RemoveCallback looks at.
Lists(command) ==
    CASE command = registrationEvent -> {RPL_ENDOFMOTD, ERR_NOMOTD}
      [] command = "BATCH"           -> {}
      [] OTHER                       -> {command} \cap Commands

RemoveCallback(f) ==
    /\ handle[f] # None
    /\ LET command == handle[f][1]
           id      == handle[f][2]
       IN  /\ Install(Lists(command), [c \in Lists(command) |-> Without(events[c], id)])
           /\ batchCallbacks' = IF command = "BATCH" THEN Without(batchCallbacks, id)
                                                     ELSE batchCallbacks
    /\ handle' = [handle EXCEPT ![f] = None]
    /\ gone' = gone \cup {f}
    /\ UNCHANGED <<callbackCounter, setup, half, cleared>>

\* The base callbacks setupCallbacks adds to these commands, in order, and whether they
\* are prepended; PING stands for the commands of which one callback is appended.
BaseCallbacks ==
    Select(<< <<"PING", FALSE>>, <<"NICK", TRUE>>, <<RPL_ENDOFMOTD, TRUE>>,
              <<ERR_NOMOTD, TRUE>> >>,
           Commands \X BOOLEAN)

AddedBase == {BaseCallbacks[i][1] : i \in 1 .. setup}

ClearCallback(command) ==
    /\ events[command] # <<>>
    /\ Install({command}, [c \in {command} |-> <<>>])
    /\ cleared' = cleared \cup ({command} \cap AddedBase)
    /\ UNCHANGED <<batchCallbacks, callbackCounter, setup, handle, half, gone>>

\* Every dispatch over the same array sees the new function.
Overwrite(command, i, pair) ==
    /\ events' = [events EXCEPT ![command][i] = pair]
    /\ dispatch' = [d \in Dispatchers |->
                       IF dispatch[d].command = command /\ dispatch[d].shared
                       THEN [dispatch[d] EXCEPT !.list[i] = pair] ELSE dispatch[d]]

ReplaceCallback(f, g) ==
    /\ handle[f] # None /\ Fresh(g)
    /\ LET command == handle[f][1]
           id      == handle[f][2]
       IN  /\ command \in Commands
           /\ \E i \in DOMAIN events[command] :
                 /\ events[command][i].id = id
                 /\ \A j \in 1 .. i - 1 : events[command][j].id # id
                 /\ Overwrite(command, i, [id |-> id, callback |-> g])
    /\ handle' = [handle EXCEPT ![f] = None, ![g] = handle[f]]
    /\ gone' = gone \cup {f}
    /\ UNCHANGED <<batchCallbacks, callbackCounter, setup, half, cleared>>

-----------------------------------------------------------------------------
(* setupCallbacks, run by the first Connect: one addCallback after another. *)

setupCallbacks ==
    /\ setup < Len(BaseCallbacks)
    /\ LET base == BaseCallbacks[setup + 1] IN addCallback(base[1], "base", base[2], 0)
    /\ setup' = setup + 1
    /\ UNCHANGED <<batchCallbacks, handle, half, gone, cleared>>

-----------------------------------------------------------------------------
(* Dispatch: HandleMessage, runDisconnectCallbacks and HandleBatch          *)

Begin(d, command, list) ==
    dispatch' = [dispatch EXCEPT ![d] =
        [command |-> command, list |-> list, shared |-> TRUE, ran |-> <<>>,
         start |-> [i \in DOMAIN list |-> list[i].id], before |-> gone]]

Finish(d) == dispatch' = [dispatch EXCEPT ![d] = Idle]

Running(d) == Len(dispatch[d].ran) < Len(dispatch[d].list)

HandleMessage(d, command) ==
    /\ dispatch[d] = Idle /\ events[command] # <<>>
    /\ Begin(d, command, events[command])
    /\ UNCHANGED <<events, batchCallbacks, callbackCounter, regVars>>

HandleBatch(d) ==
    /\ dispatch[d] = Idle /\ batchCallbacks # <<>>
    /\ Begin(d, "BATCH", batchCallbacks)
    /\ UNCHANGED <<events, batchCallbacks, callbackCounter, regVars>>

\* The next callback runs; a batch callback may also decline.
RunCallback(d) ==
    /\ Running(d)
    /\ dispatch' = [dispatch EXCEPT ![d].ran =
                       Append(@, dispatch[d].list[Len(dispatch[d].ran) + 1])]
    /\ UNCHANGED <<events, batchCallbacks, callbackCounter, regVars>>

\* The last callback panics, which ends the dispatch (runCallbacks recovers), or it is
\* a batch callback that returns true.
Interrupted(d) ==
    /\ dispatch[d].ran # <<>>
    /\ Finish(d)
    /\ UNCHANGED <<events, batchCallbacks, callbackCounter, regVars>>

Return(d) ==
    /\ dispatch[d] # Idle /\ ~Running(d) /\ dispatch[d].command # "BATCH"
    /\ Finish(d)
    /\ UNCHANGED <<events, batchCallbacks, callbackCounter, regVars>>

\* Every batch callback declined: handleBatchNaively dispatches the batch's messages,
\* of which one is shown; for the others see HandleMessage.
handleBatchNaively(d, command) ==
    /\ dispatch[d].command = "BATCH" /\ ~Running(d)
    /\ Begin(d, command, events[command])
    /\ UNCHANGED <<events, batchCallbacks, callbackCounter, regVars>>

-----------------------------------------------------------------------------
Register(f) ==
    \/ \E command \in Commands : AddCallback(f, command)
    \/ AddCallbackRefused(f) \/ AddConnectCallback(f) \/ AddConnectCallbackCopy(f)
    \/ AddBatchCallback(f)

Dispatch(d) ==
    \/ \E command \in Commands : HandleMessage(d, command) \/ handleBatchNaively(d, command)
    \/ HandleBatch(d) \/ RunCallback(d) \/ Interrupted(d) \/ Return(d)

Next ==
    \/ \E f \in Funcs : Register(f) \/ RemoveCallback(f)
    \/ \E f, g \in Funcs : ReplaceCallback(f, g)
    \/ \E command \in Commands : ClearCallback(command)
    \/ setupCallbacks
    \/ \E d \in Dispatchers : Dispatch(d)

Spec == Init /\ [][Next]_vars

-----------------------------------------------------------------------------
(* Properties                                                              *)

\* The pairs in the registry, with the list they are in.
Registered == (UNION {{c} \X ToSet(events[c]) : c \in Commands})
              \cup ({"BATCH"} \X ToSet(batchCallbacks))

\* An id names one registration, in whatever list and however often the connection's
\* own callbacks are set up in between: RemoveCallback and ReplaceCallback never
\* strike a callback other than the one the CallbackID was returned for.
OneRegistrationPerId ==
    \A p, q \in Registered : p[2].id = q[2].id => p[2].callback = q[2].callback

\* "Remove callback i (ID)": once RemoveCallback or ReplaceCallback has returned, no
\* dispatch that begins afterwards runs the function that was registered.
RemovedNeverRuns ==
    \A d \in Dispatchers : \A p \in ToSet(dispatch[d].ran) : p.callback \notin dispatch[d].before

\* A dispatch runs the registrations it found, each once and in their order, whatever
\* is added, removed, cleared or replaced meanwhile: a callback that removes itself
\* does not make its neighbour be skipped.
EachRunsOnce ==
    \A d \in Dispatchers :
        IsPrefix([i \in DOMAIN dispatch[d].ran |-> dispatch[d].ran[i].id], dispatch[d].start)

\* The comment in setupCallbacks: the connection's own callbacks for NICK and the end of
\* registration "happen before any client-added callbacks", however the client's calls
\* fall around setupCallbacks, unless the client clears the command.
BaseRunsFirst ==
    \A i \in 1 .. setup :
        LET command == BaseCallbacks[i][1] IN
        BaseCallbacks[i][2] /\ command \notin cleared =>
            events[command] # <<>> /\ Head(events[command]).callback = "base"

=============================================================================
