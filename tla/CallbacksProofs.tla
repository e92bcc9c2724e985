--------------------------- MODULE CallbacksProofs ---------------------------
(***************************************************************************)
(* The callback registry, for any number of functions, commands and        *)
(* dispatchers: an id names one registration, and a dispatch runs what it   *)
(* found, whatever happens to the registry meanwhile.                      *)
(***************************************************************************)
EXTENDS Callbacks, SequenceLemmas

Pair == [id : Nat, callback : Funcs \cup {"base"}]
Places == Commands \cup {"BATCH"}

\* The list a dispatch of c looks up.
List(c) == IF c = "BATCH" THEN batchCallbacks ELSE events[c]

Types ==
    /\ events \in [Commands -> Seq(Pair)] /\ batchCallbacks \in Seq(Pair)
    /\ callbackCounter \in Nat /\ setup \in 0 .. Len(BaseCallbacks) /\ gone \subseteq Funcs
    /\ handle \in [Funcs -> {None} \cup ((Places \cup {NoCommand, registrationEvent}) \X Nat)]
    /\ half \in [Funcs -> {None} \cup Nat]

\* Ids below the counter are used up, each for one position of a list, or for the two
\* copies of a connect callback.
Ids ==
    /\ \A c \in Places : \A i \in DOMAIN List(c) : List(c)[i].id < callbackCounter
    /\ \A c \in Places : \A i, j \in DOMAIN List(c) : List(c)[i].id = List(c)[j].id => i = j
    /\ \A b, c \in Places : \A i \in DOMAIN List(b), j \in DOMAIN List(c) :
          List(b)[i].id = List(c)[j].id => List(b)[i].callback = List(c)[j].callback

\* The id of a connect callback that is half registered belongs to nothing else.
Halves ==
    /\ \A f \in Funcs : half[f] # None =>
          /\ half[f] < callbackCounter
          /\ \A c \in Places : \A i \in DOMAIN List(c) :
                List(c)[i].id = half[f] => c = RPL_ENDOFMOTD /\ List(c)[i].callback = f
    /\ \A f, g \in Funcs : half[f] # None /\ half[f] = half[g] => f = g

\* A CallbackID names no callback of the connection, and leads to the list it names.
Handles ==
    \A f \in Funcs : handle[f] # None /\ handle[f][1] # NoCommand =>
        /\ handle[f][2] < callbackCounter
        /\ \A g \in Funcs : half[g] # handle[f][2]
        /\ \A c \in Places : \A i \in DOMAIN List(c) : List(c)[i].id = handle[f][2] =>
              /\ List(c)[i].callback # "base"
              /\ handle[f][1] \in Commands => c = handle[f][1]

Registry == Types /\ Ids /\ Halves /\ Handles

\* A dispatch keeps the ids of the list it found, and the list itself while it is shared.
Keeps(r) ==
    /\ r = [command |-> r.command, list |-> r.list, shared |-> r.shared, ran |-> r.ran,
            start |-> r.start, before |-> r.before]
    /\ r.list \in Seq(Pair) /\ r.ran \in Seq(Pair) /\ r.start \in Seq(Nat)
    /\ Len(r.start) = Len(r.list) /\ Len(r.ran) <= Len(r.list)
    /\ \A i \in 1 .. Len(r.list) : r.list[i].id = r.start[i]
    /\ \A i \in 1 .. Len(r.ran) : r.ran[i].id = r.start[i]
    /\ r.shared /\ r.command \in Commands => r.list = events[r.command]

Dispatches ==
    /\ dispatch = [d \in Dispatchers |-> dispatch[d]]
    /\ \A d \in Dispatchers : Keeps(dispatch[d])

\* The inductive invariant.
IInv == Registry /\ Dispatches /\ BaseRunsFirst

\* What is registered has an owner: the CallbackID that removes it, or the call of
\* AddConnectCallback that is about to return one.
Owned(c, p) ==
    /\ p.callback \notin gone
    /\ \/ handle[p.callback] = <<c, p.id>>
       \/ handle[p.callback] = <<registrationEvent, p.id>> /\ c \in {RPL_ENDOFMOTD, ERR_NOMOTD}
       \/ half[p.callback] = p.id /\ c = RPL_ENDOFMOTD

Owners ==
    /\ \A c \in Places : \A i \in DOMAIN List(c) :
          List(c)[i].callback \in Funcs => Owned(c, List(c)[i])
    /\ \A f \in Funcs : half[f] # 0 /\ (half[f] # None => handle[f] = None)
    /\ \A f \in gone : handle[f] = None /\ half[f] = None

\* A dispatch has not found what was gone before it began.
NothingGone ==
    \A d \in Dispatchers :
        /\ dispatch[d].before \subseteq gone
        /\ \A i \in DOMAIN dispatch[d].list : dispatch[d].list[i].callback \notin dispatch[d].before
        /\ \A i \in DOMAIN dispatch[d].ran : dispatch[d].ran[i].callback \notin dispatch[d].before

\* The inductive invariant if AddConnectCallback is never the very first registration.
OInv == IInv /\ Owners /\ NothingGone

USE DEF regVars

-----------------------------------------------------------------------------
(* Lists                                                                   *)

\* t has elements of s, each position of s at most once.
Embeds(t, s, pos) ==
    /\ pos \in [DOMAIN t -> DOMAIN s]
    /\ \A i \in DOMAIN t : t[i] = s[pos[i]]
    /\ \A i, j \in DOMAIN t : pos[i] = pos[j] => i = j

\* t has, besides these, p at position n.
Grows(t, s, p, n, pos) ==
    /\ n \in DOMAIN t /\ t[n] = p /\ pos \in [DOMAIN t \ {n} -> DOMAIN s]
    /\ \A i \in DOMAIN t \ {n} : t[i] = s[pos[i]]
    /\ \A i, j \in DOMAIN t \ {n} : pos[i] = pos[j] => i = j

\* What a selection keeps is in both sets, at increasing positions of the list.
LEMMA SelectInSet ==
    ASSUME NEW S, NEW list \in Seq(S), NEW wanted
    PROVE  /\ Select(list, wanted) \in Seq(S \cap wanted)
           /\ \E pos : Selected(list, wanted, Len(list), Select(list, wanted), pos)
<1>1. list \in Seq(Range(list)) /\ Len(list) \in Nat /\ DOMAIN list = 1 .. Len(list)
  BY OfOwnElements
<1>2. PICK pos : Selected(list, wanted, Len(list), Select(list, wanted), pos)
  BY <1>1, SelectFacts
<1>3. PICK t : t = Select(list, wanted)
  OBVIOUS
<1>4. t \in Seq(Range(list)) /\ \A i \in DOMAIN t : t[i] \in S \cap wanted
  BY <1>1, <1>2, <1>3 DEF Selected
<1>5. t \in Seq(S \cap wanted)
  BY <1>4
<1> QED
  BY <1>2, <1>3, <1>5

\* Removing an id keeps the rest, and the first pair first.
LEMMA WithoutFacts ==
    ASSUME NEW list \in Seq(Pair), NEW id
    PROVE  /\ Without(list, id) \in Seq(Pair)
           /\ \E pos : Embeds(Without(list, id), list, pos)
           /\ \A i \in DOMAIN Without(list, id) : Without(list, id)[i].id # id
           /\ list # <<>> /\ Head(list).id # id =>
                 Without(list, id) # <<>> /\ Head(Without(list, id)) = Head(list)
<1> DEFINE wanted == {p \in ToSet(list) : p.id # id}
<1>1. PICK t : t = Without(list, id)
  OBVIOUS
<1>2. t \in Seq(Pair \cap wanted)
  BY <1>1, SelectInSet DEF Without
<1>3. PICK pos : Selected(list, wanted, Len(list), t, pos)
  BY <1>1, SelectInSet DEF Without
<1>4. /\ t \in Seq(Pair) /\ DOMAIN list = 1 .. Len(list) /\ Len(list) \in Nat
      /\ DOMAIN t = 1 .. Len(t) /\ Len(t) \in Nat
  BY <1>2
<1>5. \A i, j \in DOMAIN t : pos[i] = pos[j] => i = j
  BY <1>3, <1>4 DEF Selected
<1>6. Embeds(t, list, pos)
  BY <1>3, <1>4, <1>5 DEF Selected, Embeds
<1>7. \A i \in DOMAIN t : t[i].id # id
  BY <1>3 DEF Selected
<1>8. ASSUME list # <<>>, Head(list).id # id PROVE t # <<>> /\ Head(t) = Head(list)
  <2>1. 1 \in DOMAIN list /\ list[1] = Head(list) /\ list[1] \in wanted
    BY <1>4, <1>8 DEF ToSet
  <2>2. PICK i \in DOMAIN t : pos[i] = 1
    BY <1>3, <1>4, <2>1 DEF Selected
  <2>3. i = 1
    <3>1. 1 \in DOMAIN t /\ pos[1] \in 1 .. Len(list)
      BY <1>3, <1>4, <2>2 DEF Selected
    <3>2. 1 < i => pos[1] < pos[i]
      BY <1>3, <2>2, <3>1 DEF Selected
    <3> QED
      BY <1>4, <2>2, <3>1, <3>2
  <2>4. t[1] = list[1] /\ 1 \in DOMAIN t
    BY <1>3, <2>2, <2>3 DEF Selected
  <2> QED
    BY <1>4, <2>1, <2>4
<1> QED
  BY <1>1, <1>4, <1>6, <1>7, <1>8

\* A pair appended to a list comes last; the first stays first.
LEMMA AppendGrows ==
    ASSUME NEW s \in Seq(Pair), NEW p \in Pair
    PROVE  /\ Append(s, p) \in Seq(Pair)
           /\ \E n, pos : Grows(Append(s, p), s, p, n, pos)
           /\ Append(s, p) # <<>> /\ (s # <<>> => Head(Append(s, p)) = Head(s))
<1> DEFINE pos == [i \in 1 .. Len(s) |-> i]
<1>1. PICK t : t = Append(s, p)
  OBVIOUS
<1>2. PICK l \in Nat : l = Len(s)
  OBVIOUS
<1>3. /\ t \in Seq(Pair) /\ DOMAIN t = 1 .. l + 1 /\ DOMAIN s = 1 .. l /\ t[l + 1] = p
      /\ \A i \in 1 .. l : t[i] = s[i]
  BY <1>1, <1>2
<1>4. DOMAIN t \ {l + 1} = 1 .. l
  BY <1>2, <1>3
<1>5. Grows(t, s, p, l + 1, pos)
  BY <1>2, <1>3, <1>4 DEF Grows
<1>6. t # <<>> /\ (s # <<>> => Head(t) = Head(s))
  BY <1>2, <1>3
<1> HIDE DEF pos
<1> QED
  BY <1>1, <1>3, <1>5, <1>6

\* A pair put in front of a list comes first.
LEMMA PrependGrows ==
    ASSUME NEW s \in Seq(Pair), NEW p \in Pair
    PROVE  /\ <<p>> \o s \in Seq(Pair)
           /\ \E n, pos : Grows(<<p>> \o s, s, p, n, pos)
           /\ <<p>> \o s # <<>> /\ Head(<<p>> \o s) = p
<1> DEFINE pos == [i \in 2 .. Len(s) + 1 |-> i - 1]
<1>1. PICK t : t = <<p>> \o s
  OBVIOUS
<1>2. PICK l \in Nat : l = Len(s)
  OBVIOUS
<1>3. /\ t \in Seq(Pair) /\ DOMAIN t = 1 .. l + 1 /\ DOMAIN s = 1 .. l /\ t[1] = p
      /\ \A i \in 2 .. l + 1 : t[i] = s[i - 1]
  BY <1>1, <1>2
<1>4. DOMAIN t \ {1} = 2 .. l + 1 /\ 1 \in DOMAIN t
  BY <1>2, <1>3
<1>5. Grows(t, s, p, 1, pos)
  BY <1>2, <1>3, <1>4 DEF Grows
<1>6. t # <<>> /\ Head(t) = p
  BY <1>2, <1>3
<1> HIDE DEF pos
<1> QED
  BY <1>1, <1>3, <1>5, <1>6

\* The base callbacks are for commands that are dispatched.
LEMMA BaseFacts ==
    Len(BaseCallbacks) \in Nat /\ \A i \in 1 .. Len(BaseCallbacks) : BaseCallbacks[i][1] \in Commands
<1>1. PICK a, b, c, d : /\ a = <<"PING", FALSE>> /\ b = <<"NICK", TRUE>>
                        /\ c = <<RPL_ENDOFMOTD, TRUE>> /\ d = <<ERR_NOMOTD, TRUE>>
  OBVIOUS
<1>2. PICK S : S = {a, b, c, d}
  OBVIOUS
<1>3. <<a, b, c, d>> \in Seq(S)
  BY <1>2
<1>4. PICK wanted : wanted = Commands \X BOOLEAN
  OBVIOUS
<1>5. Select(<<a, b, c, d>>, wanted) \in Seq(S \cap wanted)
  BY <1>3, SelectInSet
<1>6. BaseCallbacks \in Seq(wanted)
  BY <1>1, <1>4, <1>5 DEF BaseCallbacks
<1>7. \A x \in wanted : x[1] \in Commands
  BY <1>4
<1> QED
  BY <1>6, <1>7

-----------------------------------------------------------------------------
(* The registry                                                            *)

\* The lists hold pairs.
LEMMA ListType == ASSUME Types PROVE \A c \in Places : List(c) \in Seq(Pair)
  BY CommandsAssumption DEF Types, List, Places

\* Pairs go, CallbackIDs are dropped.
LEMMA ShrinkRegistry ==
    ASSUME Registry, Types', \A c \in Places : \E pos : Embeds(List(c)', List(c), pos),
           UNCHANGED <<callbackCounter, half>>,
           \A f \in Funcs : handle'[f] = None \/ handle'[f] = handle[f]
    PROVE  Registry'
<1>1. \A c \in Places : \A i \in DOMAIN List(c)' : \E j \in DOMAIN List(c) : List(c)'[i] = List(c)[j]
  BY DEF Embeds
<1>2. Ids'
  <2>1. \A c \in Places : \A i \in DOMAIN List(c)' : List(c)'[i].id < callbackCounter'
    BY <1>1 DEF Registry, Ids
  <2>2. \A c \in Places : \A i, j \in DOMAIN List(c)' : List(c)'[i].id = List(c)'[j].id => i = j
    BY DEF Registry, Ids, Embeds
  <2>3. \A b, c \in Places : \A i \in DOMAIN List(b)', j \in DOMAIN List(c)' :
          List(b)'[i].id = List(c)'[j].id => List(b)'[i].callback = List(c)'[j].callback
    BY <1>1 DEF Registry, Ids
  <2> QED
    BY <2>1, <2>2, <2>3 DEF Ids
<1>3. Halves'
  BY <1>1 DEF Registry, Halves
<1>4. Handles'
  <2>1. ASSUME NEW f \in Funcs, handle'[f] # None, handle'[f][1] # NoCommand
        PROVE  /\ handle'[f][2] < callbackCounter'
               /\ \A g \in Funcs : half'[g] # handle'[f][2]
               /\ \A c \in Places : \A i \in DOMAIN List(c)' : List(c)'[i].id = handle'[f][2] =>
                     /\ List(c)'[i].callback # "base"
                     /\ handle'[f][1] \in Commands => c = handle'[f][1]
    <3>1. handle'[f] = handle[f]
      BY <2>1
    <3>2. /\ handle[f][2] < callbackCounter
          /\ \A g \in Funcs : half[g] # handle[f][2]
          /\ \A c \in Places : \A i \in DOMAIN List(c) : List(c)[i].id = handle[f][2] =>
                /\ List(c)[i].callback # "base"
                /\ handle[f][1] \in Commands => c = handle[f][1]
      BY <2>1, <3>1 DEF Registry, Handles
    <3> QED
      BY <1>1, <3>1, <3>2
  <2> QED
    BY <2>1 DEF Handles
<1> QED
  BY <1>2, <1>3, <1>4 DEF Registry

\* A pair p comes to list b, with an id that list does not have.
LEMMA GrowFacts ==
    ASSUME Registry, Types', NEW b \in Places, NEW p \in Pair, NEW n, NEW pos,
           Grows(List(b)', List(b), p, n, pos), \A c \in Places \ {b} : List(c)' = List(c),
           callbackCounter <= callbackCounter', p.id < callbackCounter',
           \A i \in DOMAIN List(b) : List(b)[i].id # p.id,
           \A c \in Places : \A i \in DOMAIN List(c) :
              List(c)[i].id = p.id => List(c)[i].callback = p.callback
    PROVE  /\ Ids'
           /\ \A c \in Places : \A i \in DOMAIN List(c)' :
                 \/ c = b /\ List(c)'[i] = p
                 \/ \E j \in DOMAIN List(c) : List(c)'[i] = List(c)[j]
<1>1. \A c \in Places : \A i \in DOMAIN List(c)' :
         \/ c = b /\ List(c)'[i] = p /\ i = n
         \/ \E j \in DOMAIN List(c) : List(c)'[i] = List(c)[j]
  BY DEF Grows
<1>2. \A c \in Places : \A i \in DOMAIN List(c)' : List(c)'[i].id < callbackCounter'
  <2>1. callbackCounter \in Nat /\ callbackCounter' \in Nat
    BY DEF Registry, Types
  <2>2. \A c \in Places : \A j \in DOMAIN List(c) :
           List(c)[j].id \in Nat /\ List(c)[j].id < callbackCounter
    <3>1. \A c \in Places : List(c) \in Seq(Pair)
      BY ListType DEF Registry
    <3>2. \A c \in Places : \A j \in DOMAIN List(c) : List(c)[j] \in Pair
      BY <3>1
    <3> QED
      BY <3>2 DEF Registry, Ids, Pair
  <2>3. \A c \in Places : \A j \in DOMAIN List(c) : List(c)[j].id < callbackCounter'
    BY <2>1, <2>2
  <2> QED
    BY <1>1, <2>3
<1>3. \A c \in Places : \A i, j \in DOMAIN List(c)' : List(c)'[i].id = List(c)'[j].id => i = j
  <2> TAKE c \in Places
  <2>1. CASE c # b
    BY <2>1 DEF Registry, Ids
  <2>2. CASE c = b
    <3>1. \A i \in DOMAIN List(b)' \ {n} : List(b)'[i].id # p.id /\ pos[i] \in DOMAIN List(b)
                                           /\ List(b)'[i] = List(b)[pos[i]]
      BY DEF Grows
    <3>2. \A i, j \in DOMAIN List(b)' \ {n} : List(b)'[i].id = List(b)'[j].id => i = j
      BY <3>1 DEF Grows, Registry, Ids
    <3>3. List(b)'[n] = p
      BY DEF Grows
    <3> QED
      BY <2>2, <3>1, <3>2, <3>3
  <2> QED
    BY <2>1, <2>2
<1>4. \A a, c \in Places : \A i \in DOMAIN List(a)', j \in DOMAIN List(c)' :
          List(a)'[i].id = List(c)'[j].id => List(a)'[i].callback = List(c)'[j].callback
  BY <1>1 DEF Registry, Ids
<1> QED
  BY <1>1, <1>2, <1>3, <1>4 DEF Ids

\* The list of command has p more than before, and one of the connection's own callbacks
\* stays first.
Added(command, p) ==
    /\ events' \in [Commands -> Seq(Pair)]
    /\ \E n, pos : Grows(List(command)', List(command), p, n, pos)
    /\ \A c \in Places \ {command} : List(c)' = List(c)
    /\ events'[command] # <<>>
    /\ events[command] # <<>> /\ Head(events[command]).callback = "base" =>
          Head(events'[command]).callback = "base"

\* A new array for a command, with one pair more, at the end or at the front.
LEMMA InstallGrows ==
    ASSUME Types, NEW command \in Commands, NEW p \in Pair, NEW list,
           \/ list = Append(events[command], p)
           \/ list = <<p>> \o events[command] /\ p.callback = "base",
           Install({command}, [c \in {command} |-> list]), batchCallbacks' = batchCallbacks
    PROVE  /\ Added(command, p)
           /\ list = <<p>> \o events[command] => Head(events'[command]) = p
<1>1. events' = [c \in Commands |-> IF c = command THEN list ELSE events[c]]
  BY DEF Install
<1>2. events[command] \in Seq(Pair)
  BY DEF Types
<1>3. /\ list \in Seq(Pair) /\ list # <<>>
      /\ \E n, pos : Grows(list, events[command], p, n, pos)
      /\ list = <<p>> \o events[command] => Head(list) = p
      /\ events[command] # <<>> /\ Head(events[command]).callback = "base" =>
            Head(list).callback = "base"
  <2>1. CASE list = Append(events[command], p)
    <3>1. /\ list \in Seq(Pair) /\ list # <<>> /\ \E n, pos : Grows(list, events[command], p, n, pos)
          /\ events[command] # <<>> => Head(list) = Head(events[command])
      BY <1>2, <2>1, AppendGrows
    <3>2. list = <<p>> \o events[command] => Head(list) = p
      BY <1>2, PrependGrows
    <3> QED
      BY <3>1, <3>2
  <2>2. CASE list = <<p>> \o events[command] /\ p.callback = "base"
    BY <1>2, <2>2, PrependGrows
  <2> QED
    BY <2>1, <2>2
<1>4. events'[command] = list /\ command # "BATCH"
  BY <1>1, CommandsAssumption
<1>5. List(command)' = list /\ List(command) = events[command]
  BY <1>4 DEF List
<1>6. \A c \in Places \ {command} : List(c)' = List(c)
  BY <1>1 DEF List, Places
<1>7. events' \in [Commands -> Seq(Pair)]
  BY <1>1, <1>3 DEF Types
<1> QED
  BY <1>3, <1>4, <1>5, <1>6, <1>7 DEF Added

\* f is registered for command, with the next id or the given one.
Registers(command, f, k) ==
    \E p \in Pair :
        /\ p.callback = f /\ Added(command, p)
        /\ k = 0 => p.id = callbackCounter /\ callbackCounter' = callbackCounter + 1
        /\ k # 0 => p.id = k /\ callbackCounter' = callbackCounter

\* addCallback for the client: a pair is appended.
LEMMA AddFacts ==
    ASSUME Types, NEW command \in Commands, NEW f \in Funcs, NEW k \in Nat,
           addCallback(command, f, FALSE, k), batchCallbacks' = batchCallbacks
    PROVE  Registers(command, f, k)
<1>1. PICK p : p = [id |-> NewId(k), callback |-> f]
  OBVIOUS
<1>2. PICK list : list = Append(events[command], p)
  OBVIOUS
<1>3. Install({command}, [c \in {command} |-> list])
  BY <1>1, <1>2 DEF addCallback
<1>4. p \in Pair /\ p.callback = f /\ p.id = NewId(k)
  BY <1>1 DEF Types, NewId, Pair
<1>5. /\ k = 0 => p.id = callbackCounter /\ callbackCounter' = callbackCounter + 1
      /\ k # 0 => p.id = k /\ callbackCounter' = callbackCounter
  BY <1>4 DEF addCallback, NewId
<1>6. Added(command, p)
  BY <1>2, <1>3, <1>4, InstallGrows
<1> QED
  BY <1>4, <1>5, <1>6 DEF Registers

\* A pair with a new id, for which the client has got a CallbackID, or is about to.
LEMMA FreshRegistry ==
    ASSUME Registry, Types', NEW b \in Places, NEW p \in Pair, NEW n, NEW pos,
           Grows(List(b)', List(b), p, n, pos), \A c \in Places \ {b} : List(c)' = List(c),
           p.id = callbackCounter, callbackCounter' = callbackCounter + 1,
           NEW f,
           \/ UNCHANGED <<handle, half>>
           \/ f \in Funcs /\ p.callback = f /\ half' = half /\ handle' = [handle EXCEPT ![f] = <<b, p.id>>]
           \/ f \in Funcs /\ p.callback = f /\ handle' = handle /\ half' = [half EXCEPT ![f] = p.id]
              /\ b = RPL_ENDOFMOTD
    PROVE  Registry'
<1>1. /\ callbackCounter \in Nat /\ p.id < callbackCounter'
      /\ \A x \in Nat : x < callbackCounter => x < callbackCounter' /\ x # p.id
  <2>1. callbackCounter \in Nat
    BY DEF Registry, Types
  <2> QED
    BY <2>1
<1>2. \A c \in Places : \A i \in DOMAIN List(c) : List(c)[i].id \in Nat /\ List(c)[i].id < callbackCounter
  <2>1. \A c \in Places : List(c) \in Seq(Pair)
    BY ListType DEF Registry
  <2>2. \A c \in Places : \A i \in DOMAIN List(c) : List(c)[i] \in Pair
    BY <2>1
  <2> QED
    BY <2>2 DEF Registry, Ids, Pair
<1>3. \A c \in Places : \A i \in DOMAIN List(c) : List(c)[i].id # p.id
  BY <1>1, <1>2
<1>4. /\ Ids'
      /\ \A c \in Places : \A i \in DOMAIN List(c)' :
            \/ c = b /\ List(c)'[i] = p
            \/ \E j \in DOMAIN List(c) : List(c)'[i] = List(c)[j]
  BY <1>1, <1>3, GrowFacts
<1>5. \A f1 \in Funcs : /\ half[f1] # None => half[f1] \in Nat /\ half[f1] # p.id /\ half[f1] < callbackCounter'
                       /\ (half[f1] < callbackCounter \/ half[f1] = None)
  BY <1>1 DEF Registry, Types, Halves
<1>6. \A f1 \in Funcs : handle[f1] # None /\ handle[f1][1] # NoCommand =>
         handle[f1][2] \in Nat /\ handle[f1][2] # p.id /\ handle[f1][2] < callbackCounter'
  <2> TAKE f1 \in Funcs
  <2> HAVE handle[f1] # None /\ handle[f1][1] # NoCommand
  <2>1. handle[f1][2] \in Nat
    BY DEF Registry, Types
  <2>2. handle[f1][2] < callbackCounter
    BY DEF Registry, Handles
  <2> QED
    BY <1>1, <2>1, <2>2
<1>7. Halves'
  <2>1. ASSUME NEW h \in Funcs, half'[h] # None
        PROVE  /\ half'[h] < callbackCounter'
               /\ \A c \in Places : \A i \in DOMAIN List(c)' :
                     List(c)'[i].id = half'[h] => c = RPL_ENDOFMOTD /\ List(c)'[i].callback = h
    <3>1. CASE half'[h] = half[h]
      BY <1>4, <1>5, <2>1, <3>1 DEF Registry, Halves
    <3>2. CASE half'[h] # half[h]
      <4>1. h = f /\ half'[h] = p.id /\ b = RPL_ENDOFMOTD /\ p.callback = f
        BY <3>2 DEF Registry, Types
      <4> QED
        BY <1>1, <1>3, <1>4, <4>1
    <3> QED
      BY <3>1, <3>2
  <2>2. \A g, h \in Funcs : half'[g] # None /\ half'[g] = half'[h] => g = h
    <3>1. \A g \in Funcs : half'[g] = half[g] \/ (g = f /\ half'[g] = p.id)
      BY DEF Registry, Types
    <3>2. \A g, h \in Funcs : half[g] # None /\ half[g] = half[h] => g = h
      BY DEF Registry, Halves
    <3>3. \A g \in Funcs : half[g] # p.id
      BY <1>5, NoneAssumption DEF Pair
    <3> QED
      BY <3>1, <3>2, <3>3
  <2> QED
    BY <2>1, <2>2 DEF Halves
<1>8. Handles'
  <2>1. ASSUME NEW h \in Funcs, handle'[h] # None, handle'[h][1] # NoCommand
        PROVE  /\ handle'[h][2] < callbackCounter'
               /\ \A g \in Funcs : half'[g] # handle'[h][2]
               /\ \A c \in Places : \A i \in DOMAIN List(c)' : List(c)'[i].id = handle'[h][2] =>
                     /\ List(c)'[i].callback # "base"
                     /\ handle'[h][1] \in Commands => c = handle'[h][1]
    <3>1. CASE handle'[h] = handle[h]
      <4>1. /\ handle[h][2] < callbackCounter' /\ handle[h][2] # p.id
            /\ \A g \in Funcs : half[g] # handle[h][2]
            /\ \A c \in Places : \A i \in DOMAIN List(c) : List(c)[i].id = handle[h][2] =>
                  /\ List(c)[i].callback # "base"
                  /\ handle[h][1] \in Commands => c = handle[h][1]
        BY <1>6, <2>1, <3>1 DEF Registry, Handles
      <4>2. \A g \in Funcs : half'[g] = half[g] \/ half'[g] = p.id
        BY DEF Registry, Types
      <4> QED
        BY <1>4, <3>1, <4>1, <4>2
    <3>2. CASE handle'[h] # handle[h]
      <4>1. h = f /\ handle'[h] = <<b, p.id>> /\ p.callback \in Funcs /\ half' = half
        BY <3>2 DEF Registry, Types
      <4>2. \A g \in Funcs : half[g] # p.id
        BY <1>5, NoneAssumption DEF Pair
      <4>3. handle'[h][1] = b /\ handle'[h][2] = p.id /\ p.callback # "base"
        BY <4>1, FuncsAssumption
      <4> QED
        BY <1>1, <1>3, <1>4, <4>1, <4>2, <4>3
    <3> QED
      BY <3>1, <3>2
  <2> QED
    BY <2>1 DEF Handles
<1> QED
  BY <1>4, <1>7, <1>8 DEF Registry

\* The second copy of a connect callback, with the id of the first unless that is 0.
LEMMA CopyRegistry ==
    ASSUME Registry, NEW f \in Funcs, AddConnectCallbackCopy(f)
    PROVE  Registry'
<1> DEFINE b == ERR_NOMOTD
<1>1. PICK k \in Nat : k = half[f]
  BY DEF AddConnectCallbackCopy, Registry, Types
<1>2. /\ k = half[f] /\ k < callbackCounter /\ addCallback(ERR_NOMOTD, f, FALSE, k) /\ b \in Commands
      /\ half' = [half EXCEPT ![f] = None] /\ handle' = [handle EXCEPT ![f] = <<registrationEvent, k>>]
      /\ UNCHANGED <<batchCallbacks, setup, gone>>
  BY <1>1, CommandsAssumption DEF AddConnectCallbackCopy, Registry, Types, Halves
<1>3. PICK p \in Pair :
         /\ p.callback = f /\ Added(ERR_NOMOTD, p)
         /\ k = 0 => p.id = callbackCounter /\ callbackCounter' = callbackCounter + 1
         /\ k # 0 => p.id = k /\ callbackCounter' = callbackCounter
  BY <1>2, AddFacts DEF Registry, Registers
<1>4. p.callback = f /\ b \in Places /\ b # RPL_ENDOFMOTD /\ callbackCounter \in Nat
  BY <1>3, <1>2 DEF Places, ERR_NOMOTD, RPL_ENDOFMOTD, Registry, Types
<1>5. Types'
  <2>1. callbackCounter' \in Nat
    BY <1>3, <1>4
  <2>2. half' \in [Funcs -> {None} \cup Nat]
    BY <1>2 DEF Registry, Types
  <2>3. handle' \in [Funcs -> {None} \cup ((Places \cup {NoCommand, registrationEvent}) \X Nat)]
    BY <1>2 DEF Registry, Types
  <2> QED
    BY <1>2, <1>3, <2>1, <2>2, <2>3 DEF Registry, Types, Added
<1>6. \A c \in Places : \A i \in DOMAIN List(c) : List(c)[i].id < callbackCounter /\ List(c)[i].id \in Nat
  <2>1. \A c \in Places : List(c) \in Seq(Pair)
    BY ListType DEF Registry
  <2>2. \A c \in Places : \A i \in DOMAIN List(c) : List(c)[i] \in Pair
    BY <2>1
  <2> QED
    BY <2>2 DEF Registry, Ids, Pair
<1>7. /\ callbackCounter <= callbackCounter' /\ p.id < callbackCounter' /\ k < callbackCounter'
      /\ p.id = k \/ (p.id = callbackCounter /\ k = 0)
  BY <1>2, <1>3, <1>4
<1>8. /\ \A i \in DOMAIN List(b) : List(b)[i].id # p.id
      /\ \A c \in Places : \A i \in DOMAIN List(c) :
            List(c)[i].id = p.id => List(c)[i].callback = p.callback
  <2>1. CASE p.id = callbackCounter
    BY <1>4, <1>6, <2>1
  <2>2. CASE p.id = k
    <3>1. \A c \in Places : \A i \in DOMAIN List(c) :
             List(c)[i].id = k => c = RPL_ENDOFMOTD /\ List(c)[i].callback = f
      BY <1>2, NoneAssumption DEF Registry, Halves
    <3> HIDE DEF b
    <3> QED
      BY <1>4, <2>2, <3>1
  <2> QED
    BY <1>7, <2>1, <2>2
<1>9. /\ Ids'
      /\ \A c \in Places : \A i \in DOMAIN List(c)' :
            \/ c = b /\ List(c)'[i] = p
            \/ \E j \in DOMAIN List(c) : List(c)'[i] = List(c)[j]
  <2>1. PICK n, pos : Grows(List(b)', List(b), p, n, pos)
    BY <1>3 DEF Added
  <2>2. \A c \in Places \ {b} : List(c)' = List(c)
    BY <1>3 DEF Added
  <2> HIDE DEF b
  <2> QED
    BY <2>2, <1>3, <1>4, <1>5, <1>7, <1>8, <2>1, GrowFacts
<1> HIDE DEF b
<1>10. \A g \in Funcs \ {f} : half[g] # None => half[g] # p.id /\ half[g] # k /\ half[g] < callbackCounter'
  <2> TAKE g \in Funcs \ {f}
  <2> HAVE half[g] # None
  <2>1. half[g] # k /\ half[g] < callbackCounter /\ half[g] \in Nat
    BY <1>2, NoneAssumption DEF Registry, Halves, Types
  <2> QED
    BY <1>4, <1>3, <1>7, <2>1
<1>11. Halves'
  <2>1. \A g \in Funcs : half'[g] # None => g # f /\ half'[g] = half[g]
    BY <1>2 DEF Registry, Types
  <2> QED
    BY <1>9, <1>10, <2>1 DEF Registry, Halves
<1>12. Handles'
  <2>1. ASSUME NEW h \in Funcs, handle'[h] # None, handle'[h][1] # NoCommand
        PROVE  /\ handle'[h][2] < callbackCounter'
               /\ \A g \in Funcs : half'[g] # handle'[h][2]
               /\ \A c \in Places : \A i \in DOMAIN List(c)' : List(c)'[i].id = handle'[h][2] =>
                     /\ List(c)'[i].callback # "base"
                     /\ handle'[h][1] \in Commands => c = handle'[h][1]
    <3>1. CASE h # f
      <4>1. handle'[h] = handle[h]
        BY <1>2, <3>1 DEF Registry, Types
      <4>2. /\ handle[h][2] < callbackCounter /\ handle[h][2] \in Nat
            /\ \A g \in Funcs : half[g] # handle[h][2]
            /\ \A c \in Places : \A i \in DOMAIN List(c) : List(c)[i].id = handle[h][2] =>
                  /\ List(c)[i].callback # "base"
                  /\ handle[h][1] \in Commands => c = handle[h][1]
        <5>1. handle[h] \in (Places \cup {NoCommand, registrationEvent}) \X Nat
          BY <2>1, <4>1 DEF Registry, Types
        <5> QED
          BY <2>1, <4>1, <5>1 DEF Registry, Handles
      <4>3. handle[h][2] # p.id /\ handle[h][2] < callbackCounter' /\ \A g \in Funcs : half'[g] # handle[h][2]
        <5>1. \A g \in Funcs : half'[g] = half[g] \/ half'[g] = None
          BY <1>2 DEF Registry, Types
        <5>2. k # handle[h][2] /\ None # handle[h][2]
          BY <1>2, <4>2, NoneAssumption
        <5> QED
          BY <1>3, <1>4, <1>7, <4>2, <5>1, <5>2
      <4> QED
        BY <1>9, <4>1, <4>2, <4>3
    <3>2. CASE h = f
      <4>1. handle'[h][1] = registrationEvent /\ handle'[h][2] = k
        BY <1>2, <3>2 DEF Registry, Types
      <4>2. \A g \in Funcs : half'[g] # k
        <5>1. \A g \in Funcs : half'[g] = IF g = f THEN None ELSE half[g]
          BY <1>2 DEF Registry, Types
        <5> QED
          BY <1>2, <1>10, <5>1, NoneAssumption
      <4>3. registrationEvent \notin Commands /\ f # "base"
        BY CommandsAssumption, FuncsAssumption
      <4>4. \A c \in Places : \A i \in DOMAIN List(c) : List(c)[i].id = k => List(c)[i].callback = f
        BY <1>2, NoneAssumption DEF Registry, Halves
      <4>5. \A c \in Places : \A i \in DOMAIN List(c)' : List(c)'[i].id = k => List(c)'[i].callback = f
        BY <1>4, <1>9, <4>4
      <4> QED
        BY <1>7, <4>1, <4>2, <4>3, <4>5
    <3> QED
      BY <3>1, <3>2
  <2> QED
    BY <2>1 DEF Handles
<1> QED
  BY <1>5, <1>9, <1>11, <1>12 DEF Registry

-----------------------------------------------------------------------------
(* Dispatches in the middle of a change                                    *)

\* A new array leaves the dispatches over the old one as they are.
LEMMA InstallDispatches ==
    ASSUME Dispatches, NEW cmds, NEW new, Install(cmds, new)
    PROVE  Dispatches'
<1>1. dispatch' = [d \in Dispatchers |->
                      IF dispatch[d].command \in cmds
                      THEN [dispatch[d] EXCEPT !.shared = FALSE] ELSE dispatch[d]]
  BY DEF Install
<1>2. ASSUME NEW d \in Dispatchers PROVE Keeps(dispatch[d])'
  <2>1. PICK r : r = dispatch[d]
    OBVIOUS
  <2>2. Keeps(r)
    BY <2>1 DEF Dispatches
  <2>3. CASE r.command \in cmds
    <3>1. dispatch'[d] = [r EXCEPT !.shared = FALSE]
      BY <1>1, <2>1, <2>3
    <3>2. dispatch'[d] = [command |-> r.command, list |-> r.list, shared |-> FALSE,
                          ran |-> r.ran, start |-> r.start, before |-> r.before]
      BY <2>2, <3>1 DEF Keeps
    <3> QED
      BY <2>2, <3>2 DEF Keeps
  <2>4. CASE r.command \notin cmds
    <3>1. dispatch'[d] = r
      BY <1>1, <2>1, <2>4
    <3>2. r.command \in Commands => events'[r.command] = events[r.command]
      BY <2>4 DEF Install
    <3> QED
      BY <2>2, <3>1, <3>2 DEF Keeps
  <2> QED
    BY <2>3, <2>4
<1> QED
  BY <1>1, <1>2 DEF Dispatches

\* Writing over a pair in place keeps every id where it is, in the dispatches over the
\* array too.
LEMMA OverwriteDispatches ==
    ASSUME Types, Dispatches, NEW command \in Commands, NEW i \in DOMAIN events[command],
           NEW p \in Pair, events[command][i].id = p.id, Overwrite(command, i, p)
    PROVE  Dispatches'
<1>1. dispatch' = [d \in Dispatchers |->
                      IF dispatch[d].command = command /\ dispatch[d].shared
                      THEN [dispatch[d] EXCEPT !.list[i] = p] ELSE dispatch[d]]
  BY DEF Overwrite
<1>2. PICK s \in Seq(Pair) : s = events[command]
  BY DEF Types
<1>3. PICK t : t = [s EXCEPT ![i] = p]
  OBVIOUS
<1>4. i \in 1 .. Len(s) /\ t \in Seq(Pair) /\ Len(t) = Len(s)
      /\ \A j \in 1 .. Len(s) : t[j].id = s[j].id
  BY <1>2, <1>3
<1>5. /\ events'[command] = t
      /\ \A c \in Commands : c # command => events'[c] = events[c]
  BY <1>2, <1>3 DEF Overwrite, Types
<1>6. ASSUME NEW d \in Dispatchers PROVE Keeps(dispatch[d])'
  <2>1. PICK r : r = dispatch[d]
    OBVIOUS
  <2>2. Keeps(r)
    BY <2>1 DEF Dispatches
  <2>3. CASE r.command = command /\ r.shared
    <3>1. dispatch'[d] = [r EXCEPT !.list[i] = p] /\ r.list = s
      BY <1>1, <1>2, <2>1, <2>2, <2>3 DEF Keeps
    <3>2. dispatch'[d] = [command |-> r.command, list |-> t, shared |-> r.shared,
                          ran |-> r.ran, start |-> r.start, before |-> r.before]
      BY <1>3, <2>2, <3>1 DEF Keeps
    <3>3. /\ \A j \in 1 .. Len(t) : t[j].id = r.start[j]
          /\ Len(t) = Len(r.start) /\ Len(r.ran) <= Len(t)
          /\ r.ran \in Seq(Pair) /\ r.start \in Seq(Nat)
          /\ \A j \in 1 .. Len(r.ran) : r.ran[j].id = r.start[j]
      BY <1>4, <2>2, <3>1 DEF Keeps
    <3>4. events'[r.command] = t
      BY <1>5, <2>3
    <3> QED
      BY <1>4, <3>2, <3>3, <3>4 DEF Keeps
  <2>4. CASE ~(r.command = command /\ r.shared)
    <3>1. dispatch'[d] = r
      BY <1>1, <2>1, <2>4
    <3> QED
      BY <1>5, <2>2, <2>4, <3>1 DEF Keeps
  <2> QED
    BY <2>3, <2>4
<1> QED
  BY <1>1, <1>6 DEF Dispatches

\* The steps of a dispatch itself; the registry stays as it is.
LEMMA DispatchKeeps ==
    ASSUME Types, Dispatches, NEW d \in Dispatchers, Dispatch(d)
    PROVE  Dispatches' /\ UNCHANGED <<events, batchCallbacks, callbackCounter, regVars>>
<1>1. UNCHANGED <<events, batchCallbacks, callbackCounter, regVars>>
  BY DEF Dispatch, HandleMessage, handleBatchNaively, HandleBatch, RunCallback, Interrupted, Return
<1>2. ASSUME NEW r, Keeps(r), dispatch' = [dispatch EXCEPT ![d] = r] PROVE Dispatches'
  <2>1. \A e \in Dispatchers : dispatch'[e] = IF e = d THEN r ELSE dispatch[e]
    BY <1>2 DEF Dispatches
  <2>2. \A e \in Dispatchers : Keeps(dispatch'[e])
    BY <1>2, <2>1 DEF Dispatches
  <2>3. dispatch' = [e \in Dispatchers |-> dispatch'[e]]
    BY <1>2 DEF Dispatches
  <2> QED
    BY <1>1, <2>2, <2>3 DEF Dispatches, Keeps
<1>3. ASSUME NEW command, NEW list \in Seq(Pair), Begin(d, command, list),
             command \in Commands => list = events[command]
      PROVE  Dispatches'
  <2>1. PICK r : r = [command |-> command, list |-> list, shared |-> TRUE, ran |-> <<>>,
                      start |-> [i \in DOMAIN list |-> list[i].id], before |-> gone]
    OBVIOUS
  <2>2. [i \in DOMAIN list |-> list[i].id] \in Seq(Nat) /\ <<>> \in Seq(Pair)
        /\ Len([i \in DOMAIN list |-> list[i].id]) = Len(list)
    <3>1. \A i \in DOMAIN list : list[i] \in Pair
      OBVIOUS
    <3>2. \A i \in DOMAIN list : list[i].id \in Nat
      BY <3>1 DEF Pair
    <3>3. DOMAIN list = 1 .. Len(list) /\ Len(list) \in Nat
      OBVIOUS
    <3> QED
      BY <3>2, <3>3
  <2>3. Keeps(r)
    BY <1>3, <2>1, <2>2 DEF Keeps
  <2> QED
    BY <1>2, <1>3, <2>1, <2>3 DEF Begin
<1>4. ASSUME Finish(d) PROVE Dispatches'
  <2>1. Keeps(Idle)
    <3>1. /\ Idle.command = NoCommand /\ Idle.list = <<>> /\ Idle.ran = <<>> /\ Idle.start = <<>>
          /\ Idle = [command |-> Idle.command, list |-> Idle.list, shared |-> Idle.shared,
                     ran |-> Idle.ran, start |-> Idle.start, before |-> Idle.before]
      BY DEF Idle
    <3>2. <<>> \in Seq(Pair) /\ <<>> \in Seq(Nat) /\ Len(<<>>) = 0 /\ 1 .. 0 = {} /\ 0 <= 0
      OBVIOUS
    <3>3. Idle.command \notin Commands
      BY <3>1, CommandsAssumption
    <3> QED
      BY <3>1, <3>2, <3>3 DEF Keeps
  <2> QED
    BY <1>2, <1>4, <2>1 DEF Finish
<1>5. ASSUME RunCallback(d) PROVE Dispatches'
  <2>1. PICK r : r = dispatch[d]
    OBVIOUS
  <2>2. Keeps(r) /\ Len(r.ran) < Len(r.list)
    BY <1>5, <2>1 DEF Dispatches, RunCallback, Running
  <2>3. PICK n \in Nat : n = Len(r.ran) + 1
    BY <2>2 DEF Keeps
  <2>4. n \in 1 .. Len(r.list) /\ r.list[n] \in Pair
    BY <2>2, <2>3 DEF Keeps
  <2>5. PICK t : t = Append(r.ran, r.list[n])
    OBVIOUS
  <2>6. /\ t \in Seq(Pair) /\ Len(t) = n /\ Len(t) <= Len(r.list)
        /\ t[n] = r.list[n] /\ \A i \in 1 .. Len(r.ran) : t[i] = r.ran[i]
    BY <2>2, <2>3, <2>4, <2>5 DEF Keeps
  <2>7. \A i \in 1 .. Len(t) : t[i].id = r.start[i]
    <3> TAKE i \in 1 .. Len(t)
    <3>1. i = n \/ i \in 1 .. Len(r.ran)
      BY <2>2, <2>3, <2>6 DEF Keeps
    <3> QED
      BY <2>2, <2>4, <2>6, <3>1 DEF Keeps
  <2>8. PICK q : q = [command |-> r.command, list |-> r.list, shared |-> r.shared,
                      ran |-> t, start |-> r.start, before |-> r.before]
    OBVIOUS
  <2>9. Keeps(q)
    BY <2>2, <2>6, <2>7, <2>8 DEF Keeps
  <2>10. dispatch' = [dispatch EXCEPT ![d] = q]
    <3>1. dispatch' = [dispatch EXCEPT ![d].ran = Append(@, r.list[n])]
      BY <1>5, <2>1, <2>3 DEF RunCallback
    <3>2. dispatch' = [dispatch EXCEPT ![d] = [r EXCEPT !.ran = t]]
      BY <2>1, <2>5, <3>1
    <3>3. r = [command |-> r.command, list |-> r.list, shared |-> r.shared, ran |-> r.ran,
               start |-> r.start, before |-> r.before]
      BY <2>2 DEF Keeps
    <3>4. [r EXCEPT !.ran = t] = q
      BY <2>8, <3>3
    <3> QED
      BY <3>2, <3>4
  <2> QED
    BY <1>2, <2>9, <2>10
<1>6. ASSUME NEW command \in Commands, HandleMessage(d, command) \/ handleBatchNaively(d, command)
      PROVE  Dispatches'
  BY <1>3, <1>6 DEF HandleMessage, handleBatchNaively, Types
<1>7. ASSUME HandleBatch(d) PROVE Dispatches'
  BY <1>3, <1>7, CommandsAssumption DEF HandleBatch, Types
<1>8. Dispatches'
  BY <1>4, <1>5, <1>6, <1>7 DEF Dispatch, Interrupted, Return
<1> QED
  BY <1>1, <1>8

-----------------------------------------------------------------------------
(* One lemma for each operation                                            *)

\* The connection's own callbacks stay first in what is not cleared.
LEMMA BaseStays ==
    ASSUME Types, BaseRunsFirst, setup' = setup, cleared \subseteq cleared',
           \A c \in Commands \ cleared' :
              events[c] # <<>> /\ Head(events[c]).callback = "base" =>
                 events'[c] # <<>> /\ Head(events'[c]).callback = "base"
    PROVE  BaseRunsFirst'
<1>1. \A i \in 1 .. setup : BaseCallbacks[i][1] \in Commands
  <2>1. setup \in 0 .. Len(BaseCallbacks)
    BY DEF Types
  <2>2. \A i \in 1 .. setup : i \in 1 .. Len(BaseCallbacks)
    BY <2>1, BaseFacts
  <2> QED
    BY <2>2, BaseFacts
<1>2. ASSUME NEW i \in 1 .. setup, BaseCallbacks[i][2], BaseCallbacks[i][1] \notin cleared'
      PROVE  events'[BaseCallbacks[i][1]] # <<>> /\ Head(events'[BaseCallbacks[i][1]]).callback = "base"
  <2>1. /\ events[BaseCallbacks[i][1]] # <<>>
        /\ Head(events[BaseCallbacks[i][1]]).callback = "base"
    BY <1>2 DEF BaseRunsFirst
  <2> QED
    BY <1>1, <1>2, <2>1
<1> QED
  BY <1>2 DEF BaseRunsFirst

\* A pair appended to one list leaves the first of every list where it is.
LEMMA AddedBaseStays ==
    ASSUME Types, BaseRunsFirst, UNCHANGED <<setup, cleared>>, NEW command \in Commands,
           NEW p, Added(command, p)
    PROVE  BaseRunsFirst'
<1>1. \A c \in Commands \ {command} : events'[c] = events[c]
  BY CommandsAssumption DEF Added, Places, List
<1> QED
  BY <1>1, BaseStays DEF Added

\* AddCallback keeps the invariant.
LEMMA AddCallbackIInv ==
    ASSUME IInv, NEW f \in Funcs, NEW command \in Commands, AddCallback(f, command)
    PROVE  IInv'
<1>1. /\ Types /\ Registry /\ Dispatches /\ BaseRunsFirst /\ addCallback(command, f, FALSE, 0)
      /\ handle' = [handle EXCEPT ![f] = <<command, callbackCounter>>]
      /\ UNCHANGED <<batchCallbacks, setup, half, gone, cleared>>
  BY DEF IInv, Registry, AddCallback, NewId
<1>2. PICK k \in Nat : k = 0
  OBVIOUS
<1>3. PICK p \in Pair : /\ p.callback = f /\ Added(command, p)
                        /\ p.id = callbackCounter /\ callbackCounter' = callbackCounter + 1
  <2>1. addCallback(command, f, FALSE, k) /\ batchCallbacks' = batchCallbacks
    BY <1>1, <1>2
  <2> QED
    BY <1>1, <1>2, <2>1, AddFacts DEF Registers
<1>4. command \in Places
  BY DEF Places
<1>5. Types'
  <2>1. callbackCounter \in Nat
    BY <1>1 DEF Types
  <2>2. callbackCounter \in Nat /\ callbackCounter' \in Nat
    BY <1>3, <2>1
  <2>3. handle' \in [Funcs -> {None} \cup ((Places \cup {NoCommand, registrationEvent}) \X Nat)]
    BY <1>1, <1>4, <2>2 DEF Types
  <2> QED
    BY <1>1, <1>3, <2>2, <2>3 DEF Types, Added
<1>6. Registry'
  <2>1. PICK n, pos : Grows(List(command)', List(command), p, n, pos)
    BY <1>3 DEF Added
  <2>2. \A c \in Places \ {command} : List(c)' = List(c)
    BY <1>3 DEF Added
  <2>3. half' = half /\ handle' = [handle EXCEPT ![f] = <<command, p.id>>] /\ p.callback = f
    BY <1>1, <1>3
  <2> QED
    BY <1>1, <1>3, <1>4, <1>5, <2>1, <2>2, <2>3, FreshRegistry
<1>7. Dispatches'
  <2>1. \E list : Install({command}, [c \in {command} |-> list])
    BY <1>1 DEF addCallback
  <2> QED
    BY <1>1, <2>1, InstallDispatches
<1>8. BaseRunsFirst'
  BY <1>1, <1>3, AddedBaseStays
<1> QED
  BY <1>6, <1>7, <1>8 DEF IInv

\* AddConnectCallback, the first copy.
LEMMA AddConnectCallbackIInv ==
    ASSUME IInv, NEW f \in Funcs, AddConnectCallback(f)
    PROVE  IInv'
<1>1. /\ Types /\ Registry /\ Dispatches /\ BaseRunsFirst
      /\ addCallback(RPL_ENDOFMOTD, f, FALSE, 0)
      /\ half' = [half EXCEPT ![f] = callbackCounter]
      /\ UNCHANGED <<batchCallbacks, setup, handle, gone, cleared>>
  BY DEF IInv, Registry, AddConnectCallback, NewId
<1>2. PICK command \in Commands : command = RPL_ENDOFMOTD
  BY CommandsAssumption
<1>3. PICK k \in Nat : k = 0
  OBVIOUS
<1>4. PICK p \in Pair : /\ p.callback = f /\ Added(command, p)
                        /\ p.id = callbackCounter /\ callbackCounter' = callbackCounter + 1
  <2>1. addCallback(command, f, FALSE, k) /\ batchCallbacks' = batchCallbacks
    BY <1>1, <1>2, <1>3
  <2> QED
    BY <1>1, <1>3, <2>1, AddFacts DEF Registers
<1>5. Types'
  <2>1. callbackCounter \in Nat
    BY <1>1 DEF Types
  <2>2. callbackCounter \in Nat /\ callbackCounter' \in Nat
    BY <1>4, <2>1
  <2>3. half' \in [Funcs -> {None} \cup Nat]
    BY <1>1, <2>2 DEF Types
  <2> QED
    BY <1>1, <1>4, <2>2, <2>3 DEF Types, Added
<1>6. Registry'
  <2>1. PICK n, pos : Grows(List(command)', List(command), p, n, pos)
    BY <1>4 DEF Added
  <2>2. (\A c \in Places \ {command} : List(c)' = List(c)) /\ command \in Places
    BY <1>4 DEF Added, Places
  <2>3. /\ handle' = handle /\ half' = [half EXCEPT ![f] = p.id] /\ p.callback = f
        /\ command = RPL_ENDOFMOTD
    BY <1>1, <1>2, <1>4
  <2> QED
    BY <1>1, <1>4, <1>5, <2>1, <2>2, <2>3, FreshRegistry
<1>7. Dispatches'
  <2>1. \E list : Install({RPL_ENDOFMOTD}, [c \in {RPL_ENDOFMOTD} |-> list])
    BY <1>1 DEF addCallback
  <2> QED
    BY <1>1, <2>1, InstallDispatches
<1>8. BaseRunsFirst'
  BY <1>1, <1>4, AddedBaseStays
<1> QED
  BY <1>6, <1>7, <1>8 DEF IInv

\* AddConnectCallback, the second copy.
LEMMA AddConnectCallbackCopyIInv ==
    ASSUME IInv, NEW f \in Funcs, AddConnectCallbackCopy(f)
    PROVE  IInv'
<1>1. Types /\ Registry /\ Dispatches /\ BaseRunsFirst
  BY DEF IInv, Registry
<1>2. PICK k \in Nat : k = half[f]
  BY <1>1 DEF AddConnectCallbackCopy, Types
<1>3. PICK command \in Commands : command = ERR_NOMOTD
  BY CommandsAssumption
<1>4. addCallback(command, f, FALSE, k) /\ UNCHANGED <<batchCallbacks, setup, gone, cleared>>
  BY <1>2, <1>3 DEF AddConnectCallbackCopy
<1>5. PICK p \in Pair : Added(command, p)
  BY <1>1, <1>4, AddFacts DEF Registers
<1>6. Registry'
  BY <1>1, CopyRegistry
<1>7. Dispatches'
  <2>1. \E list : Install({command}, [c \in {command} |-> list])
    BY <1>4 DEF addCallback
  <2> QED
    BY <1>1, <2>1, InstallDispatches
<1>8. BaseRunsFirst'
  BY <1>1, <1>4, <1>5, AddedBaseStays
<1> QED
  BY <1>6, <1>7, <1>8 DEF IInv

\* AddBatchCallback.
LEMMA AddBatchCallbackIInv ==
    ASSUME IInv, NEW f \in Funcs, AddBatchCallback(f)
    PROVE  IInv'
<1>1. /\ Types /\ Registry /\ Dispatches /\ BaseRunsFirst
      /\ callbackCounter' = callbackCounter + 1
      /\ batchCallbacks' = Append(batchCallbacks, [id |-> callbackCounter, callback |-> f])
      /\ handle' = [handle EXCEPT ![f] = <<"BATCH", callbackCounter>>]
      /\ UNCHANGED <<events, setup, half, gone, cleared, dispatch>>
  BY DEF IInv, Registry, AddBatchCallback
<1>2. PICK p \in Pair : p = [id |-> callbackCounter, callback |-> f]
  BY <1>1 DEF Types, Pair
<1>3. PICK b \in Places : b = "BATCH"
  BY DEF Places
<1>4. List(b) = batchCallbacks /\ List(b)' = Append(List(b), p) /\ List(b) \in Seq(Pair)
  BY <1>1, <1>2, <1>3 DEF List, Types
<1>5. (\E n, pos : Grows(List(b)', List(b), p, n, pos)) /\ List(b)' \in Seq(Pair)
  BY <1>4, AppendGrows
<1>6. \A c \in Places \ {b} : List(c)' = List(c)
  BY <1>1, <1>3 DEF List
<1>7. Types'
  <2>1. callbackCounter \in Nat
    BY <1>1 DEF Types
  <2>2. callbackCounter \in Nat /\ callbackCounter' \in Nat /\ batchCallbacks' \in Seq(Pair)
    BY <1>1, <1>2, <1>4, <1>5, <2>1
  <2>3. handle' \in [Funcs -> {None} \cup ((Places \cup {NoCommand, registrationEvent}) \X Nat)]
    BY <1>1, <1>3, <2>2 DEF Types
  <2> QED
    BY <1>1, <2>2, <2>3 DEF Types
<1>8. Registry'
  <2>1. PICK n, pos : Grows(List(b)', List(b), p, n, pos)
    BY <1>5
  <2>2. /\ half' = half /\ handle' = [handle EXCEPT ![f] = <<b, p.id>>] /\ p.callback = f
        /\ p.id = callbackCounter
    BY <1>1, <1>2, <1>3
  <2> QED
    BY <1>1, <1>6, <1>7, <2>1, <2>2, FreshRegistry
<1> QED
  BY <1>1, <1>8 DEF IInv, Dispatches, Keeps, BaseRunsFirst

\* AddCallback with a command it refuses.
LEMMA AddCallbackRefusedIInv ==
    ASSUME IInv, NEW f \in Funcs, AddCallbackRefused(f)
    PROVE  IInv'
<1>1. /\ handle' = [handle EXCEPT ![f] = <<NoCommand, 0>>]
      /\ UNCHANGED <<events, batchCallbacks, callbackCounter, setup, half, gone, cleared, dispatch>>
      /\ Types /\ Ids /\ Halves /\ Handles /\ Dispatches /\ BaseRunsFirst
  BY DEF AddCallbackRefused, IInv, Registry
<1>2. handle' \in [Funcs -> {None} \cup ((Places \cup {NoCommand, registrationEvent}) \X Nat)]
  BY <1>1 DEF Types
<1>3. Types'
  BY <1>1, <1>2 DEF Types
<1>4. \A c \in Places : List(c)' = List(c)
  BY <1>1 DEF List
<1>5. Ids' /\ Halves'
  <2>1. Ids'
    BY <1>1, <1>4 DEF Ids
  <2>2. Halves'
    BY <1>1, <1>4 DEF Halves
  <2> QED
    BY <2>1, <2>2
<1>6. Handles'
  <2>1. ASSUME NEW g \in Funcs, handle'[g] # None, handle'[g][1] # NoCommand
        PROVE  /\ handle'[g][2] < callbackCounter'
               /\ \A h \in Funcs : half'[h] # handle'[g][2]
               /\ \A c \in Places : \A i \in DOMAIN List(c)' : List(c)'[i].id = handle'[g][2] =>
                     /\ List(c)'[i].callback # "base"
                     /\ handle'[g][1] \in Commands => c = handle'[g][1]
    <3>1. handle'[g] = handle[g]
      BY <1>1, <2>1 DEF Types
    <3>2. /\ handle[g][2] < callbackCounter
          /\ \A h \in Funcs : half[h] # handle[g][2]
          /\ \A c \in Places : \A i \in DOMAIN List(c) : List(c)[i].id = handle[g][2] =>
                /\ List(c)[i].callback # "base"
                /\ handle[g][1] \in Commands => c = handle[g][1]
      BY <1>1, <2>1, <3>1 DEF Handles
    <3> QED
      BY <1>1, <1>4, <3>1, <3>2
  <2> QED
    BY <2>1 DEF Handles
<1> QED
  BY <1>1, <1>3, <1>5, <1>6 DEF IInv, Registry, Dispatches, Keeps, BaseRunsFirst

\* A list embeds in itself.
LEMMA EmbedsSelf == ASSUME NEW s PROVE \E pos : Embeds(s, s, pos)
<1> DEFINE pos == [i \in DOMAIN s |-> i]
<1>1. Embeds(s, s, pos)
  BY DEF Embeds
<1> QED
  BY <1>1

\* The lists a CallbackID leads to.
LEMMA ListsFacts ==
    /\ \A command : Lists(command) \subseteq Commands
    /\ Lists(NoCommand) = {} /\ Lists("BATCH") = {}
    /\ Lists(registrationEvent) = {RPL_ENDOFMOTD, ERR_NOMOTD}
    /\ \A c \in Commands : Lists(c) = {c}
  BY CommandsAssumption DEF Lists, registrationEvent, NoCommand

\* The CallbackID <<command, id>> of f has been used up.
Removed(f, command, id) ==
    /\ \A c \in Lists(command) : events'[c] = Without(events[c], id)
    /\ \A c \in Commands \ Lists(command) : events'[c] = events[c]
    /\ batchCallbacks' = IF command = "BATCH" THEN Without(batchCallbacks, id) ELSE batchCallbacks
    /\ handle' = [handle EXCEPT ![f] = None] /\ gone' = gone \cup {f}
    /\ UNCHANGED <<callbackCounter, setup, half, cleared>>
    /\ Types'
    /\ \A c \in Places : \E pos : Embeds(List(c)', List(c), pos)

\* RemoveCallback takes the id from these lists, and leaves the rest as it is.
LEMMA RemoveFacts ==
    ASSUME Types, NEW f \in Funcs, RemoveCallback(f), NEW command, NEW id,
           handle[f] = <<command, id>>
    PROVE  Removed(f, command, id)
<1>1. /\ Install(Lists(command), [c \in Lists(command) |-> Without(events[c], id)])
      /\ batchCallbacks' = IF command = "BATCH" THEN Without(batchCallbacks, id) ELSE batchCallbacks
      /\ handle' = [handle EXCEPT ![f] = None] /\ gone' = gone \cup {f}
      /\ UNCHANGED <<callbackCounter, setup, half, cleared>>
  BY DEF RemoveCallback
<1>2. Lists(command) \subseteq Commands
  BY ListsFacts
<1>3. events' = [c \in Commands |-> IF c \in Lists(command) THEN Without(events[c], id) ELSE events[c]]
  BY <1>1, <1>2 DEF Install
<1>4. /\ \A c \in Lists(command) : events'[c] = Without(events[c], id)
      /\ \A c \in Commands \ Lists(command) : events'[c] = events[c]
  BY <1>2, <1>3
<1>5. \A c \in Commands : events[c] \in Seq(Pair)
  BY DEF Types
<1>6. \A c \in Commands : Without(events[c], id) \in Seq(Pair)
  BY <1>5, WithoutFacts
<1>7. events' \in [Commands -> Seq(Pair)]
  BY <1>3, <1>5, <1>6
<1>8. batchCallbacks \in Seq(Pair) /\ Without(batchCallbacks, id) \in Seq(Pair)
  BY WithoutFacts DEF Types
<1>9. Types'
  <2>1. handle' \in [Funcs -> {None} \cup ((Places \cup {NoCommand, registrationEvent}) \X Nat)]
    BY <1>1 DEF Types
  <2> QED
    BY <1>1, <1>7, <1>8, <2>1 DEF Types
<1>10. \A c \in Places : \E pos : Embeds(List(c)', List(c), pos)
  <2>1. ASSUME NEW c \in Commands PROVE \E pos : Embeds(events'[c], events[c], pos)
    <3>1. CASE c \in Lists(command)
      <4>1. \E pos : Embeds(Without(events[c], id), events[c], pos)
        BY <1>5, WithoutFacts
      <4> QED
        BY <1>4, <3>1, <4>1
    <3>2. CASE c \notin Lists(command)
      BY <1>4, <3>2, EmbedsSelf
    <3> QED
      BY <3>1, <3>2
  <2>2. \E pos : Embeds(batchCallbacks', batchCallbacks, pos)
    <3>1. \E pos : Embeds(Without(batchCallbacks, id), batchCallbacks, pos)
      BY <1>8, WithoutFacts
    <3>2. \E pos : Embeds(batchCallbacks, batchCallbacks, pos)
      BY EmbedsSelf
    <3> QED
      BY <1>1, <3>1, <3>2
  <2> QED
    BY <2>1, <2>2 DEF List, Places
<1> QED
  BY <1>1, <1>2, <1>4, <1>9, <1>10 DEF Removed

\* What the client holds is a CallbackID.
LEMMA HandleType ==
    ASSUME Types, NEW f \in Funcs, handle[f] # None
    PROVE  \E command \in Places \cup {NoCommand, registrationEvent}, id \in Nat : handle[f] = <<command, id>>
<1>1. PICK S : S = Places \cup {NoCommand, registrationEvent}
  OBVIOUS
<1>2. handle[f] \in S \X Nat
  BY <1>1 DEF Types
<1>3. handle[f] = <<handle[f][1], handle[f][2]>> /\ handle[f][1] \in S /\ handle[f][2] \in Nat
  BY <1>2
<1> QED
  BY <1>1, <1>3

\* RemoveCallback: the CallbackID names no callback of the connection, which stays first.
LEMMA RemoveCallbackIInv ==
    ASSUME IInv, NEW f \in Funcs, RemoveCallback(f)
    PROVE  IInv'
<1>1. Types /\ Registry /\ Dispatches /\ BaseRunsFirst /\ Handles /\ handle[f] # None
  BY DEF IInv, Registry, RemoveCallback
<1>2. PICK command \in Places \cup {NoCommand, registrationEvent}, id \in Nat : handle[f] = <<command, id>>
  BY <1>1, HandleType
<1>3. Removed(f, command, id)
  BY <1>1, <1>2, RemoveFacts
<1>4. Types' /\ UNCHANGED <<callbackCounter, half>> /\ setup' = setup /\ cleared' = cleared
  BY <1>3 DEF Removed
<1>5. Registry'
  <2>1. \A g \in Funcs : handle'[g] = None \/ handle'[g] = handle[g]
    BY <1>1, <1>3 DEF Types, Removed
  <2>2. \A c \in Places : \E pos : Embeds(List(c)', List(c), pos)
    BY <1>3 DEF Removed
  <2> QED
    BY <1>1, <1>4, <2>1, <2>2, ShrinkRegistry
<1>6. Dispatches'
  <2>1. \E new : Install(Lists(command), new)
    BY <1>2 DEF RemoveCallback
  <2> QED
    BY <1>1, <2>1, InstallDispatches
<1>7. BaseRunsFirst'
  <2>1. ASSUME NEW c \in Commands, events[c] # <<>>, Head(events[c]).callback = "base"
        PROVE  events'[c] # <<>> /\ Head(events'[c]).callback = "base"
    <3>1. CASE c \notin Lists(command)
      BY <1>3, <2>1, <3>1 DEF Removed
    <3>2. CASE c \in Lists(command)
      <4>1. events[c] \in Seq(Pair)
        BY <1>1 DEF Types
      <4>2. command # NoCommand /\ handle[f] # None /\ handle[f][1] # NoCommand /\ handle[f][2] = id
        <5>1. command # NoCommand
          BY <3>2, ListsFacts
        <5> QED
          BY <1>1, <1>2, <5>1
      <4>3. c \in Places /\ List(c) = events[c] /\ 1 \in DOMAIN events[c] /\ Head(events[c]) = events[c][1]
        <5>1. c \in Places /\ List(c) = events[c]
          BY CommandsAssumption DEF Places, List
        <5>2. 1 \in DOMAIN events[c] /\ Head(events[c]) = events[c][1]
          BY <2>1, <4>1
        <5> QED
          BY <5>1, <5>2
      <4>4. Head(events[c]).id # id
        <5>1. \A i \in DOMAIN List(c) : List(c)[i].id = handle[f][2] => List(c)[i].callback # "base"
          BY <1>1, <4>2, <4>3 DEF Handles
        <5> QED
          BY <2>1, <4>2, <4>3, <5>1
      <4>5. Without(events[c], id) # <<>> /\ Head(Without(events[c], id)) = Head(events[c])
        BY <2>1, <4>1, <4>4, WithoutFacts
      <4> QED
        BY <1>3, <2>1, <3>2, <4>5 DEF Removed
    <3> QED
      BY <3>1, <3>2
  <2> QED
    BY <1>1, <1>4, <2>1, BaseStays
<1> QED
  BY <1>5, <1>6, <1>7 DEF IInv

\* ClearCallback.
LEMMA ClearCallbackIInv ==
    ASSUME IInv, NEW command \in Commands, ClearCallback(command)
    PROVE  IInv'
<1>1. /\ Types /\ Registry /\ Dispatches /\ BaseRunsFirst
      /\ Install({command}, [c \in {command} |-> <<>>])
      /\ cleared' = cleared \cup ({command} \cap AddedBase)
      /\ UNCHANGED <<batchCallbacks, callbackCounter, setup, handle, half, gone>>
  BY DEF IInv, Registry, ClearCallback
<1>2. events' = [c \in Commands |-> IF c = command THEN <<>> ELSE events[c]]
  BY <1>1 DEF Install
<1>3. Types'
  <2>1. events' \in [Commands -> Seq(Pair)]
    <3>1. <<>> \in Seq(Pair)
      OBVIOUS
    <3> QED
      BY <1>1, <1>2, <3>1 DEF Types
  <2> QED
    BY <1>1, <2>1 DEF Types
<1>4. \A c \in Places : \E pos : Embeds(List(c)', List(c), pos)
  <2>1. Embeds(<<>>, events[command], <<>>)
    BY DEF Embeds
  <2>2. \A c \in Places : List(c)' = List(c) \/ (c = command /\ List(c)' = <<>> /\ List(c) = events[c])
    BY <1>1, <1>2, CommandsAssumption DEF List, Places
  <2> QED
    BY <2>1, <2>2, EmbedsSelf
<1>5. Registry'
  <2>1. \A f \in Funcs : handle'[f] = None \/ handle'[f] = handle[f]
    BY <1>1
  <2> QED
    BY <1>1, <1>3, <1>4, <2>1, ShrinkRegistry
<1>6. Dispatches'
  BY <1>1, InstallDispatches
<1>7. BaseRunsFirst'
  <2>1. \A i \in 1 .. setup : BaseCallbacks[i][1] \in Commands
    <3>1. setup \in 0 .. Len(BaseCallbacks)
      BY <1>1 DEF Types
    <3>2. \A i \in 1 .. setup : i \in 1 .. Len(BaseCallbacks)
      BY <3>1, BaseFacts
    <3> QED
      BY <3>2, BaseFacts
  <2>2. ASSUME NEW i \in 1 .. setup, BaseCallbacks[i][2], BaseCallbacks[i][1] \notin cleared'
        PROVE  events'[BaseCallbacks[i][1]] # <<>> /\ Head(events'[BaseCallbacks[i][1]]).callback = "base"
    <3>1. BaseCallbacks[i][1] \in AddedBase
      BY DEF AddedBase
    <3>2. BaseCallbacks[i][1] # command /\ BaseCallbacks[i][1] \notin cleared
      BY <1>1, <2>2, <3>1
    <3>3. events[BaseCallbacks[i][1]] # <<>> /\ Head(events[BaseCallbacks[i][1]]).callback = "base"
      BY <1>1, <2>2, <3>2 DEF BaseRunsFirst
    <3> QED
      BY <1>2, <2>1, <3>2, <3>3
  <2> QED
    BY <1>1, <2>2 DEF BaseRunsFirst
<1> QED
  BY <1>5, <1>6, <1>7 DEF IInv

\* The one pair with the CallbackID's id is written over; t is the list after that.
Replaced(f, g, command, id, i, p) ==
    /\ command \in Commands /\ i \in DOMAIN events[command] /\ p \in Pair
    /\ events[command][i].id = id /\ p.id = id /\ p.callback = g
    /\ Overwrite(command, i, p)
    /\ events' = [events EXCEPT ![command] = [events[command] EXCEPT ![i] = p]]
    /\ handle' = [handle EXCEPT ![f] = None, ![g] = <<command, id>>]
    /\ gone' = gone \cup {f}
    /\ UNCHANGED <<batchCallbacks, callbackCounter, setup, half, cleared>>

\* What ReplaceCallback does.
LEMMA ReplaceFacts ==
    ASSUME Types, NEW f \in Funcs, NEW g \in Funcs, ReplaceCallback(f, g)
    PROVE  \E command \in Commands, id \in Nat, i \in Nat, p \in Pair :
              handle[f] = <<command, id>> /\ Replaced(f, g, command, id, i, p)
<1>1. PICK command \in Places \cup {NoCommand, registrationEvent}, id \in Nat : handle[f] = <<command, id>>
  BY HandleType DEF ReplaceCallback
<1>2. PICK p : p = [id |-> id, callback |-> g]
  OBVIOUS
<1>3. handle[f][1] = command /\ handle[f][2] = id /\ command \in Commands
  BY <1>1 DEF ReplaceCallback
<1>4. PICK i \in DOMAIN events[command] : events[command][i].id = id /\ Overwrite(command, i, p)
  BY <1>2, <1>3 DEF ReplaceCallback
<1>5. i \in Nat /\ p \in Pair /\ p.id = id /\ p.callback = g
  <2>1. events[command] \in Seq(Pair)
    BY <1>3 DEF Types
  <2>2. i \in Nat
    BY <2>1
  <2> QED
    BY <1>2, <2>2 DEF Pair
<1>6. events' = [events EXCEPT ![command] = [events[command] EXCEPT ![i] = p]]
  BY <1>4 DEF Overwrite
<1>7. /\ handle' = [handle EXCEPT ![f] = None, ![g] = <<command, id>>] /\ gone' = gone \cup {f}
      /\ UNCHANGED <<batchCallbacks, callbackCounter, setup, half, cleared>>
  BY <1>1 DEF ReplaceCallback
<1> QED
  BY <1>1, <1>3, <1>4, <1>5, <1>6, <1>7 DEF Replaced

\* Every position has its id afterwards, and its callback unless it is the one written over.
Relisted(command, id, i, p) ==
    /\ events' \in [Commands -> Seq(Pair)]
    /\ List(command)[i].id = id /\ i \in DOMAIN List(command) /\ command \in Places
    /\ \A c \in Places : DOMAIN List(c)' = DOMAIN List(c)
    /\ \A c \in Places : \A j \in DOMAIN List(c) :
          /\ List(c)'[j].id = List(c)[j].id
          /\ IF c = command /\ j = i THEN List(c)'[j] = p ELSE List(c)'[j] = List(c)[j]

\* What ReplaceCallback does to the lists.
LEMMA ReplaceLists ==
    ASSUME Types, NEW f, NEW g \in Funcs, NEW command \in Commands, NEW id, NEW i, NEW p,
           Replaced(f, g, command, id, i, p)
    PROVE  Relisted(command, id, i, p)
<1>1. PICK s \in Seq(Pair) : s = events[command]
  BY DEF Types
<1>2. PICK t : t = [s EXCEPT ![i] = p]
  OBVIOUS
<1>3. i \in DOMAIN s /\ p \in Pair /\ s[i].id = id /\ p.id = id
  BY <1>1 DEF Replaced
<1>4. t \in Seq(Pair) /\ DOMAIN t = DOMAIN s /\ \A j \in DOMAIN s : IF j = i THEN t[j] = p ELSE t[j] = s[j]
  BY <1>2, <1>3
<1>5. events' = [events EXCEPT ![command] = t] /\ batchCallbacks' = batchCallbacks
  BY <1>1, <1>2 DEF Replaced
<1>6. events' \in [Commands -> Seq(Pair)] /\ events'[command] = t
      /\ \A c \in Commands \ {command} : events'[c] = events[c]
  BY <1>4, <1>5 DEF Types
<1>7. command # "BATCH" /\ command \in Places
  BY CommandsAssumption DEF Places
<1>8. List(command) = s /\ List(command)' = t
  BY <1>1, <1>6, <1>7 DEF List
<1>9. \A c \in Places \ {command} : List(c)' = List(c)
  BY <1>5, <1>6 DEF List, Places
<1> QED
  BY <1>3, <1>4, <1>6, <1>7, <1>8, <1>9 DEF Relisted

\* ReplaceCallback: the pair it writes over is the only one with its id.
LEMMA ReplaceCallbackIInv ==
    ASSUME IInv, NEW f \in Funcs, NEW g \in Funcs, ReplaceCallback(f, g)
    PROVE  IInv'
<1>1. Types /\ Ids /\ Halves /\ Handles /\ Dispatches /\ BaseRunsFirst
  BY DEF IInv, Registry
<1>2. PICK command \in Commands, id \in Nat, i \in Nat, p \in Pair :
         handle[f] = <<command, id>> /\ Replaced(f, g, command, id, i, p)
  BY <1>1, ReplaceFacts
<1>3. /\ events' \in [Commands -> Seq(Pair)]
      /\ List(command)[i].id = id /\ i \in DOMAIN List(command) /\ command \in Places
      /\ \A c \in Places : DOMAIN List(c)' = DOMAIN List(c)
      /\ \A c \in Places : \A j \in DOMAIN List(c) :
            /\ List(c)'[j].id = List(c)[j].id
            /\ IF c = command /\ j = i THEN List(c)'[j] = p ELSE List(c)'[j] = List(c)[j]
  <2>1. Types /\ Replaced(f, g, command, id, i, p)
    BY <1>1, <1>2
  <2>2. Relisted(command, id, i, p)
    BY <2>1, ReplaceLists
  <2> QED
    BY <2>2 DEF Relisted
<1>4. /\ p.id = id /\ p.callback = g /\ g # "base" /\ Overwrite(command, i, p)
      /\ callbackCounter' = callbackCounter /\ half' = half /\ batchCallbacks' = batchCallbacks
      /\ setup' = setup /\ cleared' = cleared /\ gone' = gone \cup {f}
      /\ events[command][i].id = id /\ i \in DOMAIN events[command]
      /\ handle' = [handle EXCEPT ![f] = None, ![g] = <<command, id>>]
  BY <1>2, FuncsAssumption DEF Replaced
<1>5. command # NoCommand /\ handle[f] # None /\ handle[f][1] = command /\ handle[f][2] = id
  BY <1>2, CommandsAssumption DEF ReplaceCallback
<1>6. /\ id < callbackCounter /\ \A h \in Funcs : half[h] # id
      /\ \A c \in Places : \A j \in DOMAIN List(c) :
            List(c)[j].id = id => List(c)[j].callback # "base" /\ c = command
  BY <1>1, <1>5 DEF Handles
<1>7. \A c \in Places : \A j \in DOMAIN List(c) : List(c)[j].id = id => c = command /\ j = i
  BY <1>1, <1>3, <1>6 DEF Ids
<1>8. Types'
  <2>1. handle' \in [Funcs -> {None} \cup ((Places \cup {NoCommand, registrationEvent}) \X Nat)]
    BY <1>1, <1>3, <1>4 DEF Types
  <2> QED
    BY <1>1, <1>3, <1>4, <2>1 DEF Types
<1>9. Ids'
  <2>1. \A c \in Places : \A j \in DOMAIN List(c)' : List(c)'[j].id < callbackCounter'
    BY <1>1, <1>3, <1>4 DEF Ids
  <2>2. \A c \in Places : \A j, k \in DOMAIN List(c)' : List(c)'[j].id = List(c)'[k].id => j = k
    BY <1>1, <1>3 DEF Ids
  <2>3. \A b, c \in Places : \A j \in DOMAIN List(b)', k \in DOMAIN List(c)' :
           List(b)'[j].id = List(c)'[k].id => List(b)'[j].callback = List(c)'[k].callback
    BY <1>1, <1>3, <1>7 DEF Ids
  <2> QED
    BY <2>1, <2>2, <2>3 DEF Ids
<1>10. Halves'
  <2>1. \A h \in Funcs : half[h] # None => half[h] < callbackCounter
    BY <1>1 DEF Halves
  <2>2. ASSUME NEW h \in Funcs, half[h] # None, NEW c \in Places, NEW j \in DOMAIN List(c),
               List(c)'[j].id = half[h]
        PROVE  c = RPL_ENDOFMOTD /\ List(c)'[j].callback = h
    <3>1. List(c)[j].id = half[h] /\ List(c)'[j] = List(c)[j]
      BY <1>3, <1>6, <2>2
    <3> QED
      BY <1>1, <2>2, <3>1 DEF Halves
  <2>3. \A e, h \in Funcs : half[e] # None /\ half[e] = half[h] => e = h
    BY <1>1 DEF Halves
  <2> QED
    BY <1>3, <1>4, <2>1, <2>2, <2>3 DEF Halves
<1>11. Handles'
  <2>1. ASSUME NEW h \in Funcs, handle'[h] # None, handle'[h][1] # NoCommand
        PROVE  /\ handle'[h][2] < callbackCounter'
               /\ \A e \in Funcs : half'[e] # handle'[h][2]
               /\ \A c \in Places : \A j \in DOMAIN List(c)' : List(c)'[j].id = handle'[h][2] =>
                     /\ List(c)'[j].callback # "base"
                     /\ handle'[h][1] \in Commands => c = handle'[h][1]
    <3>1. CASE handle'[h] = <<command, id>>
      <4>1. handle'[h][1] = command /\ handle'[h][2] = id
        BY <3>1
      <4>2. \A c \in Places : \A j \in DOMAIN List(c)' : List(c)'[j].id = id =>
               c = command /\ List(c)'[j] = p
        BY <1>3, <1>7
      <4> QED
        BY <1>4, <1>6, <4>1, <4>2
    <3>2. CASE handle'[h] = handle[h]
      <4>1. /\ handle[h][2] < callbackCounter
            /\ \A e \in Funcs : half[e] # handle[h][2]
            /\ \A c \in Places : \A j \in DOMAIN List(c) : List(c)[j].id = handle[h][2] =>
                  /\ List(c)[j].callback # "base"
                  /\ handle[h][1] \in Commands => c = handle[h][1]
        BY <1>1, <2>1, <3>2 DEF Handles
      <4>2. \A c \in Places : \A j \in DOMAIN List(c)' :
               /\ j \in DOMAIN List(c) /\ List(c)'[j].id = List(c)[j].id
               /\ List(c)'[j].callback = g \/ List(c)'[j] = List(c)[j]
        BY <1>3, <1>4
      <4>3. half' = half /\ callbackCounter' = callbackCounter /\ g # "base"
        BY <1>4
      <4> QED
        BY <3>2, <4>1, <4>2, <4>3
    <3>3. handle'[h] = <<command, id>> \/ handle'[h] = handle[h]
      BY <1>1, <1>4, <2>1 DEF Types
    <3> QED
      BY <3>1, <3>2, <3>3
  <2> QED
    BY <2>1 DEF Handles
<1>12. Dispatches'
  BY <1>1, <1>4, OverwriteDispatches
<1>13. BaseRunsFirst'
  <2>1. ASSUME NEW c \in Commands, events[c] # <<>>, Head(events[c]).callback = "base"
        PROVE  events'[c] # <<>> /\ Head(events'[c]).callback = "base"
    <3>1. events[c] \in Seq(Pair) /\ events'[c] \in Seq(Pair)
      BY <1>1, <1>8 DEF Types
    <3>2. c \in Places /\ List(c) = events[c] /\ List(c)' = events'[c]
      BY CommandsAssumption DEF Places, List
    <3>3. 1 \in DOMAIN events[c] /\ Head(events[c]) = events[c][1]
      BY <2>1, <3>1
    <3>4. events'[c][1] = events[c][1] /\ 1 \in DOMAIN events'[c]
      BY <1>3, <1>6, <2>1, <3>2, <3>3
    <3>5. events'[c] # <<>> /\ Head(events'[c]) = events'[c][1]
      BY <3>1, <3>4
    <3> QED
      BY <2>1, <3>3, <3>4, <3>5
  <2> QED
    BY <1>1, <1>4, <2>1, BaseStays
<1> QED
  BY <1>8, <1>9, <1>10, <1>11, <1>12, <1>13 DEF IInv, Registry

\* setupCallbacks: one more callback of the connection, at the front where it must be.
LEMMA SetupIInv == ASSUME IInv, setupCallbacks PROVE IInv'
<1>1. Types /\ Registry /\ Dispatches /\ BaseRunsFirst
  BY DEF IInv, Registry
<1>2. PICK n \in Nat : n = setup
  BY <1>1 DEF Types
<1>3. n + 1 \in 1 .. Len(BaseCallbacks) /\ setup' = n + 1
  BY <1>2, BaseFacts DEF setupCallbacks
<1>4. PICK command \in Commands : command = BaseCallbacks[n + 1][1]
  BY <1>3, BaseFacts
<1>5. /\ addCallback(command, "base", BaseCallbacks[n + 1][2], 0)
      /\ UNCHANGED <<batchCallbacks, handle, half, gone, cleared>>
  BY <1>2, <1>4 DEF setupCallbacks
<1>6. PICK p \in Pair : p = [id |-> callbackCounter, callback |-> "base"]
  BY <1>1 DEF Types, Pair
<1>7. PICK list : list = IF BaseCallbacks[n + 1][2] THEN <<p>> \o events[command] ELSE Append(events[command], p)
  OBVIOUS
<1>8. Install({command}, [c \in {command} |-> list]) /\ callbackCounter' = callbackCounter + 1
  BY <1>5, <1>6, <1>7 DEF addCallback, NewId
<1>9. p.id = callbackCounter /\ p.callback = "base"
  BY <1>6
<1>10. /\ Added(command, p)
       /\ list = <<p>> \o events[command] => Head(events'[command]) = p
  <2>1. list = Append(events[command], p) \/ (list = <<p>> \o events[command] /\ p.callback = "base")
    BY <1>7, <1>9
  <2>2. batchCallbacks' = batchCallbacks
    BY <1>5
  <2> QED
    BY <1>1, <1>8, <2>1, <2>2, InstallGrows
<1>11. Types'
  <2>1. callbackCounter \in Nat
    BY <1>1 DEF Types
  <2>2. callbackCounter' \in Nat /\ setup' \in 0 .. Len(BaseCallbacks)
    BY <1>3, <1>8, <2>1
  <2> QED
    BY <1>1, <1>5, <1>10, <2>2 DEF Types, Added
<1>12. Registry'
  <2>1. PICK m, pos : Grows(List(command)', List(command), p, m, pos)
    BY <1>10 DEF Added
  <2>2. (\A c \in Places \ {command} : List(c)' = List(c)) /\ command \in Places
    BY <1>10 DEF Added, Places
  <2>3. UNCHANGED <<handle, half>>
    BY <1>5
  <2> QED
    BY <1>1, <1>8, <1>9, <1>11, <2>1, <2>2, <2>3, FreshRegistry
<1>13. Dispatches'
  BY <1>1, <1>8, InstallDispatches
<1>14. BaseRunsFirst'
  <2>1. \A j \in 1 .. n : j \in 1 .. Len(BaseCallbacks)
    BY <1>3, BaseFacts
  <2>2. \A c \in Commands \ {command} : events'[c] = events[c]
    BY <1>10, CommandsAssumption DEF Added, Places, List
  <2>3. ASSUME NEW j \in 1 .. n + 1, BaseCallbacks[j][2], BaseCallbacks[j][1] \notin cleared
        PROVE  events'[BaseCallbacks[j][1]] # <<>> /\ Head(events'[BaseCallbacks[j][1]]).callback = "base"
    <3>1. CASE j = n + 1
      <4>1. list = <<p>> \o events[command]
        BY <1>7, <2>3, <3>1
      <4> QED
        BY <1>4, <1>9, <1>10, <3>1, <4>1 DEF Added
    <3>2. CASE j # n + 1
      <4>1. j \in 1 .. n
        BY <1>2, <3>2
      <4>2. /\ events[BaseCallbacks[j][1]] # <<>> /\ Head(events[BaseCallbacks[j][1]]).callback = "base"
            /\ BaseCallbacks[j][1] \in Commands
        BY <1>1, <1>2, <2>1, <2>3, <4>1, BaseFacts DEF BaseRunsFirst
      <4> QED
        BY <1>10, <2>2, <4>2 DEF Added
    <3> QED
      BY <3>1, <3>2
  <2> QED
    BY <1>3, <1>5, <2>3 DEF BaseRunsFirst
<1> QED
  BY <1>12, <1>13, <1>14 DEF IInv

-----------------------------------------------------------------------------
(* The theorems that need no assumption                                    *)

\* Both invariants hold at the start.
LEMMA InitIInv == Init => OInv
<1> SUFFICES ASSUME Init PROVE OInv
  OBVIOUS
<1>1. \A c \in Places : List(c) = <<>>
  BY DEF Init, List, Places
<1>2. Types
  <2>1. <<>> \in Seq(Pair) /\ 0 \in 0 .. Len(BaseCallbacks)
    BY BaseFacts
  <2> QED
    BY <2>1 DEF Init, Types
<1>3. \A f \in Funcs : handle[f] = None /\ half[f] = None
  BY DEF Init
<1>4. Ids /\ Halves /\ Handles
  BY <1>1, <1>3 DEF Ids, Halves, Handles
<1>5. Keeps(Idle)
  <2>1. /\ Idle.command = NoCommand /\ Idle.list = <<>> /\ Idle.ran = <<>> /\ Idle.start = <<>>
        /\ Idle = [command |-> Idle.command, list |-> Idle.list, shared |-> Idle.shared,
                   ran |-> Idle.ran, start |-> Idle.start, before |-> Idle.before]
    BY DEF Idle
  <2>2. <<>> \in Seq(Pair) /\ <<>> \in Seq(Nat) /\ Len(<<>>) = 0 /\ 1 .. 0 = {} /\ 0 <= 0
    OBVIOUS
  <2>3. Idle.command \notin Commands
    BY <2>1, CommandsAssumption
  <2> QED
    BY <2>1, <2>2, <2>3 DEF Keeps
<1>6. dispatch = [d \in Dispatchers |-> Idle]
  BY DEF Init
<1>7. Dispatches
  BY <1>5, <1>6 DEF Dispatches
<1>8. BaseRunsFirst
  BY DEF Init, BaseRunsFirst
<1>9. Owners
  <2>1. None # 0 /\ gone = {}
    BY NoneAssumption DEF Init
  <2> QED
    BY <1>1, <1>3, <2>1 DEF Owners
<1>10. NothingGone
  <2>1. \A d \in Dispatchers : dispatch[d].before = {}
    BY <1>6 DEF Idle
  <2> QED
    BY <2>1 DEF NothingGone
<1> QED
  BY <1>2, <1>4, <1>7, <1>8, <1>9, <1>10 DEF OInv, IInv, Registry

\* Every step keeps the invariant.
LEMMA NextIInv == ASSUME IInv, [Next]_vars PROVE IInv'
<1>1. ASSUME UNCHANGED <<events, batchCallbacks, callbackCounter, regVars>>, Dispatches' PROVE IInv'
  <2>1. \A c \in Places : List(c)' = List(c)
    BY <1>1 DEF List
  <2>2. Types' /\ BaseRunsFirst'
    BY <1>1 DEF IInv, Registry, Types, BaseRunsFirst
  <2>3. callbackCounter' = callbackCounter /\ half' = half /\ handle' = handle
    BY <1>1
  <2>4. Ids'
    BY <2>1, <2>3 DEF IInv, Registry, Ids
  <2>5. Halves'
    BY <2>1, <2>3 DEF IInv, Registry, Halves
  <2>6. Handles'
    BY <2>1, <2>3 DEF IInv, Registry, Handles
  <2> QED
    BY <1>1, <2>2, <2>4, <2>5, <2>6 DEF IInv, Registry
<1>2. CASE UNCHANGED vars
  BY <1>1, <1>2 DEF vars, IInv, Dispatches, Keeps
<1>3. ASSUME NEW d \in Dispatchers, Dispatch(d) PROVE IInv'
  BY <1>1, <1>3, DispatchKeeps DEF IInv, Registry
<1>4. ASSUME NEW f \in Funcs, Register(f) PROVE IInv'
  BY <1>4, AddCallbackIInv, AddCallbackRefusedIInv, AddConnectCallbackIInv,
     AddConnectCallbackCopyIInv, AddBatchCallbackIInv DEF Register
<1> QED
  BY <1>2, <1>3, <1>4, RemoveCallbackIInv, ReplaceCallbackIInv, ClearCallbackIInv, SetupIInv DEF Next

\* The invariant holds throughout, with any functions, commands and dispatchers.
THEOREM Invariance == Spec => []IInv
<1>1. Init => IInv
  BY InitIInv DEF OInv
<1>2. IInv /\ [Next]_vars => IInv'
  BY NextIInv
<1> QED
  BY <1>1, <1>2, PTL DEF Spec

\* RemoveCallback and ReplaceCallback strike no callback but the one whose registration
\* returned the CallbackID: callbackCounter gives an id to one registration only.
THEOREM IdsNameOneCallback == Spec => []OneRegistrationPerId
<1>1. IInv => OneRegistrationPerId
  <2> SUFFICES ASSUME IInv, NEW p \in Registered, NEW q \in Registered, p[2].id = q[2].id
               PROVE  p[2].callback = q[2].callback
    BY DEF OneRegistrationPerId
  <2>1. \A r \in Registered : \E c \in Places : \E i \in DOMAIN List(c) : r[2] = List(c)[i]
    <3> TAKE r \in Registered
    <3>1. CASE \E c \in Commands : r \in {c} \X ToSet(events[c])
      <4>1. PICK c \in Commands : r \in {c} \X ToSet(events[c])
        BY <3>1
      <4>2. c \in Places /\ List(c) = events[c]
        BY CommandsAssumption DEF Places, List
      <4>3. r[2] \in ToSet(events[c])
        BY <4>1
      <4> QED
        BY <4>2, <4>3 DEF ToSet
    <3>2. CASE r \in {"BATCH"} \X ToSet(batchCallbacks)
      <4>1. "BATCH" \in Places /\ List("BATCH") = batchCallbacks
        BY DEF Places, List
      <4>2. r[2] \in ToSet(batchCallbacks)
        BY <3>2
      <4> QED
        BY <4>1, <4>2 DEF ToSet
    <3>3. r \in UNION {{c} \X ToSet(events[c]) : c \in Commands}
          \/ r \in {"BATCH"} \X ToSet(batchCallbacks)
      BY DEF Registered
    <3>4. r \in UNION {{c} \X ToSet(events[c]) : c \in Commands}
          => \E c \in Commands : r \in {c} \X ToSet(events[c])
      OBVIOUS
    <3> QED
      BY <3>1, <3>2, <3>3, <3>4
  <2> QED
    BY <2>1 DEF IInv, Registry, Ids
<1> QED
  BY <1>1, Invariance, PTL

\* runCallbacks and HandleBatch run what they found when they took the list, in order and
\* each once, whatever AddCallback, RemoveCallback, ClearCallback and ReplaceCallback do
\* to the list meanwhile.
THEOREM DispatchIsComplete == Spec => []EachRunsOnce
<1>1. IInv => EachRunsOnce
  <2> SUFFICES ASSUME IInv, NEW d \in Dispatchers
               PROVE  IsPrefix([i \in DOMAIN dispatch[d].ran |-> dispatch[d].ran[i].id],
                               dispatch[d].start)
    BY DEF EachRunsOnce
  <2>1. PICK r : r = dispatch[d]
    OBVIOUS
  <2>2. Keeps(r)
    BY <2>1 DEF IInv, Dispatches
  <2>3. PICK n \in Nat : n = Len(r.ran)
    BY <2>2 DEF Keeps
  <2>4. PICK s : s = [i \in DOMAIN r.ran |-> r.ran[i].id]
    OBVIOUS
  <2>5. PICK t \in Seq(Nat) : t = r.start
    BY <2>2 DEF Keeps
  <2>6. DOMAIN r.ran = 1 .. n /\ n <= Len(t) /\ \A i \in 1 .. n : r.ran[i].id = t[i]
    BY <2>2, <2>3, <2>5 DEF Keeps
  <2>7. s \in Seq(Nat) /\ Len(s) = n /\ \A i \in 1 .. n : s[i] = t[i]
    BY <2>3, <2>4, <2>5, <2>6
  <2>8. SubSeq(s, 1, n) = SubSeq(t, 1, n)
    BY <2>6, <2>7
  <2> QED
    BY <2>1, <2>4, <2>5, <2>6, <2>7, <2>8 DEF IsPrefix
<1> QED
  BY <1>1, Invariance, PTL

\* The connection's own callbacks for NICK and the end of registration come before every
\* callback of the client, in whatever order the client's calls and setupCallbacks fall.
THEOREM OwnCallbacksFirst == Spec => []BaseRunsFirst
  BY Invariance, PTL DEF IInv

-----------------------------------------------------------------------------
(* Removed callbacks, if AddConnectCallback is never the very first         *)
(* registration: the id 0 it would get means "no id" to the second addCallback, *)
(* and the copies have different ids then.                                 *)

\* A function without a CallbackID is not registered.
LEMMA FreshUnowned ==
    ASSUME Types, Owners, NEW f \in Funcs, handle[f] = None, half[f] = None
    PROVE  \A c \in Places : \A i \in DOMAIN List(c) : List(c)[i].callback # f
<1> SUFFICES ASSUME NEW c \in Places, NEW i \in DOMAIN List(c), List(c)[i].callback = f PROVE FALSE
  OBVIOUS
<1>1. PICK p : p = List(c)[i]
  OBVIOUS
<1>2. p \in Pair /\ p.callback = f
  BY <1>1, ListType
<1>3. p.id \in Nat
  BY <1>2 DEF Pair
<1>4. Owned(c, p)
  BY <1>1, <1>2 DEF Owners
<1>5. <<c, p.id>> # None /\ <<registrationEvent, p.id>> # None /\ p.id # None
  BY <1>3, NoneAssumption DEF Places
<1> QED
  BY <1>2, <1>4, <1>5 DEF Owned

\* The functions of F get or lose their CallbackIDs; every pair was there or has an owner now.
LEMMA OwnersStep ==
    ASSUME Owners, Types', NEW F,
           \A c \in Places : \A i \in DOMAIN List(c)' : List(c)'[i].callback \in Funcs =>
              \/ Owned(c, List(c)[i])'
              \/ /\ \E j \in DOMAIN List(c) : List(c)'[i] = List(c)[j]
                 /\ List(c)'[i].callback \notin F,
           \A f \in Funcs \ F : handle'[f] = handle[f] /\ half'[f] = half[f] /\ (f \in gone' => f \in gone),
           \A f \in F : /\ half'[f] # 0 /\ (half'[f] # None => handle'[f] = None)
                        /\ f \in gone' => handle'[f] = None /\ half'[f] = None
    PROVE  Owners'
<1>1. ASSUME NEW c \in Places, NEW i \in DOMAIN List(c)', List(c)'[i].callback \in Funcs
      PROVE  Owned(c, List(c)[i])'
  <2>1. CASE Owned(c, List(c)[i])'
    BY <2>1
  <2>2. ASSUME NEW j \in DOMAIN List(c), List(c)'[i] = List(c)[j], List(c)'[i].callback \notin F
        PROVE  Owned(c, List(c)[i])'
    <3>1. Owned(c, List(c)[j])
      BY <1>1, <2>2 DEF Owners
    <3> QED
      BY <1>1, <2>2, <3>1 DEF Owned
  <2> QED
    BY <1>1, <2>1, <2>2
<1>2. \A f \in Funcs : half'[f] # 0 /\ (half'[f] # None => handle'[f] = None)
  BY DEF Owners
<1>3. \A f \in gone' : handle'[f] = None /\ half'[f] = None
  BY DEF Owners, Types
<1> QED
  BY <1>1, <1>2, <1>3 DEF Owners

\* What Added says of the pairs.
LEMMA AddedPairs ==
    ASSUME NEW command, NEW p, Added(command, p)
    PROVE  \A c \in Places : \A i \in DOMAIN List(c)' :
              \/ c = command /\ List(c)'[i] = p
              \/ \E j \in DOMAIN List(c) : List(c)'[i] = List(c)[j]
<1>1. PICK n, pos : Grows(List(command)', List(command), p, n, pos)
  BY DEF Added
<1>2. \A c \in Places \ {command} : List(c)' = List(c)
  BY DEF Added
<1> QED
  BY <1>1, <1>2 DEF Grows

\* A dispatch is not touched by an array that replaces the one it runs over.
LEMMA InstallNothingGone ==
    ASSUME Dispatches, NothingGone, NEW cmds, NEW new, Install(cmds, new), gone \subseteq gone'
    PROVE  NothingGone'
<1>1. ASSUME NEW d \in Dispatchers
      PROVE  /\ dispatch'[d].list = dispatch[d].list /\ dispatch'[d].ran = dispatch[d].ran
             /\ dispatch'[d].before = dispatch[d].before
  <2>1. PICK r : r = dispatch[d]
    OBVIOUS
  <2>2. r = [command |-> r.command, list |-> r.list, shared |-> r.shared, ran |-> r.ran,
             start |-> r.start, before |-> r.before]
    BY <2>1 DEF Dispatches, Keeps
  <2>3. dispatch'[d] = [r EXCEPT !.shared = FALSE] \/ dispatch'[d] = r
    BY <2>1 DEF Install
  <2>4. dispatch'[d].list = r.list /\ dispatch'[d].ran = r.ran /\ dispatch'[d].before = r.before
    BY <2>2, <2>3
  <2> QED
    BY <2>1, <2>4
<1> QED
  BY <1>1 DEF NothingGone

\* A function without a CallbackID gets a pair that a CallbackID or a half-done
\* AddConnectCallback owns.
LEMMA AddOwners ==
    ASSUME OInv, IInv', NEW f \in Funcs, NEW command, NEW p, p.callback = f, f \notin gone,
           \/ handle[f] = None /\ half[f] = None
           \/ handle'[f] = <<registrationEvent, half[f]>>,
           \A c \in Places : \A i \in DOMAIN List(c) :
              List(c)[i].callback = f => c = RPL_ENDOFMOTD /\ List(c)[i].id = half[f],
           \A c \in Places : \A i \in DOMAIN List(c)' :
              \/ c = command /\ List(c)'[i] = p
              \/ \E j \in DOMAIN List(c) : List(c)'[i] = List(c)[j],
           gone' = gone, Owned(command, p)',
           \A g \in Funcs \ {f} : handle'[g] = handle[g] /\ half'[g] = half[g],
           half'[f] # 0, half'[f] # None => handle'[f] = None
    PROVE  Owners'
<1>1. Types /\ Owners /\ Types'
  BY DEF OInv, IInv, Registry
<1>2. PICK F : F = {f}
  OBVIOUS
<1>3. ASSUME NEW c \in Places, NEW i \in DOMAIN List(c)', List(c)'[i].callback \in Funcs
      PROVE  \/ Owned(c, List(c)[i])'
             \/ (\E j \in DOMAIN List(c) : List(c)'[i] = List(c)[j]) /\ List(c)'[i].callback \notin F
  <2>1. CASE c = command /\ List(c)'[i] = p
    BY <2>1
  <2>2. ASSUME NEW j \in DOMAIN List(c), List(c)'[i] = List(c)[j]
        PROVE  \/ Owned(c, List(c)[i])'
               \/ (\E k \in DOMAIN List(c) : List(c)'[i] = List(c)[k]) /\ List(c)'[i].callback \notin F
    <3>1. CASE List(c)[j].callback # f
      BY <1>2, <2>2, <3>1
    <3>2. CASE List(c)[j].callback = f
      <4>1. ~(handle[f] = None /\ half[f] = None)
        BY <1>1, <3>2, FreshUnowned
      <4>2. handle'[f] = <<registrationEvent, half[f]>>
        BY <4>1
      <4>3. c = RPL_ENDOFMOTD /\ List(c)'[i].id = half[f] /\ List(c)'[i].callback = f
        BY <2>2, <3>2
      <4> QED
        BY <4>2, <4>3 DEF Owned
    <3> QED
      BY <3>1, <3>2
  <2> QED
    BY <2>1, <2>2
<1>4. \A g \in Funcs \ F : handle'[g] = handle[g] /\ half'[g] = half[g] /\ (g \in gone' => g \in gone)
  BY <1>2
<1>5. \A g \in F : /\ half'[g] # 0 /\ (half'[g] # None => handle'[g] = None)
                   /\ g \in gone' => handle'[g] = None /\ half'[g] = None
  BY <1>2
<1> QED
  BY <1>1, <1>3, <1>4, <1>5, OwnersStep

\* AddCallback
LEMMA AddCallbackOInv ==
    ASSUME OInv, NEW f \in Funcs, NEW command \in Commands, AddCallback(f, command)
    PROVE  Owners' /\ NothingGone'
<1>1. /\ IInv /\ Types /\ Owners /\ Dispatches /\ NothingGone /\ addCallback(command, f, FALSE, 0)
      /\ handle' = [handle EXCEPT ![f] = <<command, callbackCounter>>]
      /\ UNCHANGED <<batchCallbacks, half, gone>> /\ Fresh(f)
  BY DEF OInv, IInv, Registry, AddCallback, NewId
<1>2. IInv'
  BY <1>1, AddCallbackIInv
<1>3. PICK k \in Nat : k = 0
  OBVIOUS
<1>4. PICK p \in Pair : p.callback = f /\ Added(command, p) /\ p.id = callbackCounter
  <2>1. addCallback(command, f, FALSE, k) /\ batchCallbacks' = batchCallbacks
    BY <1>1, <1>3
  <2>2. Types
    BY <1>1
  <2>3. Registers(command, f, k)
    BY <2>1, <2>2, AddFacts
  <2> QED
    BY <1>3, <2>3 DEF Registers
<1>5. \A c \in Places : \A i \in DOMAIN List(c)' :
         (c = command /\ List(c)'[i] = p) \/ \E j \in DOMAIN List(c) : List(c)'[i] = List(c)[j]
  BY <1>4, AddedPairs
<1>6. f \notin gone /\ handle[f] = None /\ half[f] = None
  BY <1>1 DEF Fresh
<1>7. \A c \in Places : \A i \in DOMAIN List(c) : List(c)[i].callback # f
  BY <1>1, <1>6, FreshUnowned
<1>8. handle'[f] = <<command, p.id>> /\ \A g \in Funcs \ {f} : handle'[g] = handle[g] /\ half'[g] = half[g]
  BY <1>1, <1>4 DEF Types
<1>9. Owned(command, p)' /\ gone' = gone
  BY <1>1, <1>4, <1>6, <1>8 DEF Owned
<1>10. half'[f] # 0 /\ (half'[f] # None => handle'[f] = None)
  BY <1>1, <1>6 DEF Owners
<1>11. Owners'
  BY <1>2, <1>4, <1>5, <1>6, <1>7, <1>8, <1>9, <1>10, AddOwners
<1>12. NothingGone'
  <2>1. \E list : Install({command}, [c \in {command} |-> list])
    BY <1>1 DEF addCallback
  <2> QED
    BY <1>1, <2>1, InstallNothingGone
<1> QED
  BY <1>11, <1>12

\* AddConnectCallback
LEMMA AddConnectCallbackOInv ==
    ASSUME OInv, ~ConnectFirst, NEW f \in Funcs, AddConnectCallback(f)
    PROVE  Owners' /\ NothingGone'
<1>1. /\ IInv /\ Types /\ Owners /\ Dispatches /\ NothingGone /\ addCallback(RPL_ENDOFMOTD, f, FALSE, 0)
      /\ half' = [half EXCEPT ![f] = callbackCounter] /\ callbackCounter # 0
      /\ UNCHANGED <<batchCallbacks, handle, gone>> /\ Fresh(f)
  BY DEF OInv, IInv, Registry, AddConnectCallback, NewId
<1>2. IInv'
  BY <1>1, AddConnectCallbackIInv
<1>3. PICK k \in Nat : k = 0
  OBVIOUS
<1>4. PICK command \in Commands : command = RPL_ENDOFMOTD
  BY CommandsAssumption
<1>5. PICK p \in Pair : p.callback = f /\ Added(command, p) /\ p.id = callbackCounter
  <2>1. addCallback(command, f, FALSE, k) /\ batchCallbacks' = batchCallbacks
    BY <1>1, <1>3, <1>4
  <2>2. Types
    BY <1>1
  <2>3. Registers(command, f, k)
    BY <2>1, <2>2, AddFacts
  <2> QED
    BY <1>3, <2>3 DEF Registers
<1>6. \A c \in Places : \A i \in DOMAIN List(c)' :
         (c = command /\ List(c)'[i] = p) \/ \E j \in DOMAIN List(c) : List(c)'[i] = List(c)[j]
  BY <1>5, AddedPairs
<1>7. f \notin gone /\ handle[f] = None /\ half[f] = None
  BY <1>1 DEF Fresh
<1>8. \A c \in Places : \A i \in DOMAIN List(c) : List(c)[i].callback # f
  BY <1>1, <1>7, FreshUnowned
<1>9. half'[f] = p.id /\ \A g \in Funcs \ {f} : handle'[g] = handle[g] /\ half'[g] = half[g]
  BY <1>1, <1>5 DEF Types
<1>10. Owned(command, p)' /\ gone' = gone
  BY <1>1, <1>4, <1>5, <1>7, <1>9 DEF Owned
<1>11. half'[f] # 0 /\ (half'[f] # None => handle'[f] = None)
  BY <1>1, <1>5, <1>7, <1>9
<1>12. Owners'
  BY <1>2, <1>5, <1>6, <1>7, <1>8, <1>9, <1>10, <1>11, AddOwners
<1>13. NothingGone'
  <2>1. \E list : Install({RPL_ENDOFMOTD}, [c \in {RPL_ENDOFMOTD} |-> list])
    BY <1>1 DEF addCallback
  <2> QED
    BY <1>1, <2>1, InstallNothingGone
<1> QED
  BY <1>12, <1>13

\* AddConnectCallback, the second copy
LEMMA AddConnectCallbackCopyOInv ==
    ASSUME OInv, NEW f \in Funcs, AddConnectCallbackCopy(f)
    PROVE  Owners' /\ NothingGone'
<1>1. /\ IInv /\ Types /\ Owners /\ Dispatches /\ NothingGone
      /\ half[f] # None /\ addCallback(ERR_NOMOTD, f, FALSE, half[f])
      /\ handle' = [handle EXCEPT ![f] = <<registrationEvent, half[f]>>]
      /\ half' = [half EXCEPT ![f] = None]
      /\ UNCHANGED <<batchCallbacks, gone>>
  BY DEF OInv, IInv, Registry, AddConnectCallbackCopy
<1>2. IInv'
  BY <1>1, AddConnectCallbackCopyIInv
<1>3. PICK k \in Nat : k = half[f]
  BY <1>1 DEF Types
<1>4. PICK command \in Commands : command = ERR_NOMOTD
  BY CommandsAssumption
<1>5. k # 0 /\ handle[f] = None /\ f \notin gone
  BY <1>1, <1>3 DEF Owners
<1>6. PICK p \in Pair : p.callback = f /\ Added(command, p) /\ p.id = k
  <2>1. addCallback(command, f, FALSE, k) /\ batchCallbacks' = batchCallbacks
    BY <1>1, <1>3, <1>4
  <2>2. Types
    BY <1>1
  <2>3. Registers(command, f, k)
    BY <2>1, <2>2, AddFacts
  <2> QED
    BY <1>5, <2>3 DEF Registers
<1>7. \A c \in Places : \A i \in DOMAIN List(c)' :
         (c = command /\ List(c)'[i] = p) \/ \E j \in DOMAIN List(c) : List(c)'[i] = List(c)[j]
  BY <1>6, AddedPairs
<1>8. ASSUME NEW c \in Places, NEW i \in DOMAIN List(c), List(c)[i].callback = f
      PROVE  c = RPL_ENDOFMOTD /\ List(c)[i].id = half[f]
  <2>1. PICK q : q = List(c)[i]
    OBVIOUS
  <2>2. q \in Pair /\ q.callback = f
    BY <1>1, <1>8, <2>1, ListType
  <2>3. q.id \in Nat
    BY <2>2 DEF Pair
  <2>4. <<c, q.id>> # None /\ <<registrationEvent, q.id>> # None
    BY <2>3, NoneAssumption DEF Places
  <2>5. Owned(c, q)
    BY <1>1, <2>1, <2>2 DEF Owners
  <2> QED
    BY <1>5, <2>1, <2>2, <2>4, <2>5 DEF Owned
<1>9. /\ handle'[f] = <<registrationEvent, k>> /\ half'[f] = None
      /\ \A g \in Funcs \ {f} : handle'[g] = handle[g] /\ half'[g] = half[g]
  BY <1>1, <1>3 DEF Types
<1>10. Owned(command, p)' /\ gone' = gone
  BY <1>1, <1>4, <1>5, <1>6, <1>9 DEF Owned
<1>11. half'[f] # 0 /\ (half'[f] # None => handle'[f] = None)
  BY <1>9, NoneAssumption
<1>12. Owners'
  BY <1>2, <1>3, <1>5, <1>6, <1>7, <1>8, <1>9, <1>10, <1>11, AddOwners
<1>13. NothingGone'
  <2>1. \E list : Install({ERR_NOMOTD}, [c \in {ERR_NOMOTD} |-> list])
    BY <1>1 DEF addCallback
  <2> QED
    BY <1>1, <2>1, InstallNothingGone
<1> QED
  BY <1>12, <1>13

\* AddBatchCallback
LEMMA AddBatchCallbackOInv ==
    ASSUME OInv, NEW f \in Funcs, AddBatchCallback(f)
    PROVE  Owners' /\ NothingGone'
<1>1. /\ IInv /\ Types /\ Owners /\ NothingGone /\ Fresh(f)
      /\ batchCallbacks' = Append(batchCallbacks, [id |-> callbackCounter, callback |-> f])
      /\ handle' = [handle EXCEPT ![f] = <<"BATCH", callbackCounter>>]
      /\ UNCHANGED <<events, half, gone, dispatch>>
  BY DEF OInv, IInv, Registry, AddBatchCallback
<1>2. IInv'
  BY <1>1, AddBatchCallbackIInv
<1>3. PICK p \in Pair : p = [id |-> callbackCounter, callback |-> f]
  BY <1>1 DEF Types, Pair
<1>4. PICK b \in Places : b = "BATCH"
  BY DEF Places
<1>5. List(b) = batchCallbacks /\ List(b)' = Append(List(b), p) /\ List(b) \in Seq(Pair)
  BY <1>1, <1>3, <1>4 DEF List, Types
<1>6. \E n, pos : Grows(List(b)', List(b), p, n, pos)
  BY <1>5, AppendGrows
<1>7. \A c \in Places \ {b} : List(c)' = List(c)
  BY <1>1, <1>4 DEF List
<1>8. \A c \in Places : \A i \in DOMAIN List(c)' :
         (c = b /\ List(c)'[i] = p) \/ \E j \in DOMAIN List(c) : List(c)'[i] = List(c)[j]
  BY <1>6, <1>7 DEF Grows
<1>9. f \notin gone /\ handle[f] = None /\ half[f] = None
  BY <1>1 DEF Fresh
<1>10. \A c \in Places : \A i \in DOMAIN List(c) : List(c)[i].callback # f
  BY <1>1, <1>9, FreshUnowned
<1>11. handle'[f] = <<b, p.id>> /\ \A g \in Funcs \ {f} : handle'[g] = handle[g] /\ half'[g] = half[g]
  BY <1>1, <1>3, <1>4 DEF Types
<1>12. Owned(b, p)' /\ gone' = gone /\ p.callback = f
  BY <1>1, <1>3, <1>9, <1>11 DEF Owned
<1>13. half'[f] # 0 /\ (half'[f] # None => handle'[f] = None)
  BY <1>1, <1>9 DEF Owners
<1>14. Owners'
  BY <1>2, <1>8, <1>9, <1>10, <1>11, <1>12, <1>13, AddOwners
<1>15. NothingGone'
  BY <1>1 DEF NothingGone
<1> QED
  BY <1>14, <1>15

\* AddCallback with a command it refuses
LEMMA AddCallbackRefusedOInv ==
    ASSUME OInv, NEW f \in Funcs, AddCallbackRefused(f)
    PROVE  Owners' /\ NothingGone'
<1>1. /\ IInv /\ Types /\ Owners /\ NothingGone /\ Fresh(f)
      /\ handle' = [handle EXCEPT ![f] = <<NoCommand, 0>>]
      /\ UNCHANGED <<events, batchCallbacks, half, gone, dispatch>>
  BY DEF OInv, IInv, Registry, AddCallbackRefused
<1>2. IInv'
  BY <1>1, AddCallbackRefusedIInv
<1>3. Types'
  BY <1>2 DEF IInv, Registry
<1>4. f \notin gone /\ handle[f] = None /\ half[f] = None
  BY <1>1 DEF Fresh
<1>5. \A c \in Places : \A i \in DOMAIN List(c) : List(c)[i].callback # f
  BY <1>1, <1>4, FreshUnowned
<1>6. \A c \in Places : List(c)' = List(c)
  BY <1>1 DEF List
<1>7. PICK F : F = {f}
  OBVIOUS
<1>8. \A c \in Places : \A i \in DOMAIN List(c)' :
         (\E j \in DOMAIN List(c) : List(c)'[i] = List(c)[j]) /\ List(c)'[i].callback \notin F
  BY <1>5, <1>6, <1>7
<1>9. \A g \in Funcs \ F : handle'[g] = handle[g] /\ half'[g] = half[g] /\ (g \in gone' => g \in gone)
  BY <1>1, <1>7 DEF Types
<1>10. \A g \in F : /\ half'[g] # 0 /\ (half'[g] # None => handle'[g] = None)
                    /\ g \in gone' => handle'[g] = None /\ half'[g] = None
  BY <1>1, <1>4, <1>7, NoneAssumption
<1>11. Owners'
  BY <1>1, <1>3, <1>8, <1>9, <1>10, OwnersStep
<1>12. NothingGone'
  BY <1>1 DEF NothingGone
<1> QED
  BY <1>11, <1>12

\* RemoveCallback: the lists the CallbackID leads to are all that f can be in.
LEMMA RemoveCallbackOInv ==
    ASSUME OInv, NEW f \in Funcs, RemoveCallback(f)
    PROVE  Owners' /\ NothingGone'
<1>1. IInv /\ Types /\ Owners /\ Dispatches /\ NothingGone /\ handle[f] # None
  BY DEF OInv, IInv, Registry, RemoveCallback
<1>2. Types'
  <2>1. IInv'
    BY <1>1, RemoveCallbackIInv
  <2> QED
    BY <2>1 DEF IInv, Registry
<1>3. PICK command \in Places \cup {NoCommand, registrationEvent}, id \in Nat : handle[f] = <<command, id>>
  BY <1>1, HandleType
<1>4. Removed(f, command, id)
  BY <1>1, <1>3, RemoveFacts
<1>5. handle' = [handle EXCEPT ![f] = None] /\ gone' = gone \cup {f} /\ half' = half
  BY <1>4 DEF Removed
<1>6. half[f] = None /\ half[f] # 0
  BY <1>1 DEF Owners
<1>7. PICK F : F = {f}
  OBVIOUS
<1>8. ASSUME NEW c \in Places, NEW i \in DOMAIN List(c)'
      PROVE  (\E j \in DOMAIN List(c) : List(c)'[i] = List(c)[j]) /\ List(c)'[i].callback \notin F
  <2>1. PICK j \in DOMAIN List(c) : List(c)'[i] = List(c)[j]
    BY <1>4 DEF Removed, Embeds
  <2>2. PICK p : p = List(c)[j]
    OBVIOUS
  <2>3. p \in Pair
    BY <1>1, <2>2, ListType
  <2>4. ASSUME p.callback = f PROVE FALSE
    <3>1. Owned(c, p)
      BY <1>1, <2>2, <2>4 DEF Owners
    <3>2. p.id \in Nat /\ p.id # None
      BY <2>3, NoneAssumption DEF Pair
    <3>3. \/ <<command, id>> = <<c, p.id>>
          \/ <<command, id>> = <<registrationEvent, p.id>> /\ c \in {RPL_ENDOFMOTD, ERR_NOMOTD}
      BY <1>3, <1>6, <2>4, <3>1, <3>2 DEF Owned
    <3>4. p.id = id /\ (command = c \/ (command = registrationEvent /\ c \in {RPL_ENDOFMOTD, ERR_NOMOTD}))
      BY <3>3
    <3>5. CASE c \in Commands
      <4>1. c \in Lists(command)
        BY <3>4, <3>5, ListsFacts
      <4>2. events'[c] = Without(events[c], id) /\ events[c] \in Seq(Pair)
        BY <1>1, <1>4, <3>5, <4>1 DEF Removed, Types
      <4>3. \A k \in DOMAIN events'[c] : events'[c][k].id # id
        BY <4>2, WithoutFacts
      <4>4. List(c)' = events'[c]
        BY <3>5, CommandsAssumption DEF List
      <4> QED
        BY <2>1, <2>2, <3>4, <4>3, <4>4
    <3>6. CASE c = "BATCH"
      <4>1. command = "BATCH"
        BY <3>4, <3>6, CommandsAssumption
      <4>2. batchCallbacks' = Without(batchCallbacks, id) /\ batchCallbacks \in Seq(Pair)
        BY <1>1, <1>4, <4>1 DEF Removed, Types
      <4>3. \A k \in DOMAIN batchCallbacks' : batchCallbacks'[k].id # id
        BY <4>2, WithoutFacts
      <4>4. List(c)' = batchCallbacks'
        BY <3>6 DEF List
      <4> QED
        BY <2>1, <2>2, <3>4, <4>3, <4>4
    <3> QED
      BY <3>5, <3>6 DEF Places
  <2> QED
    BY <1>7, <2>1, <2>2, <2>4
<1>9. \A g \in Funcs \ F : handle'[g] = handle[g] /\ half'[g] = half[g] /\ (g \in gone' => g \in gone)
  BY <1>1, <1>5, <1>7 DEF Types
<1>10. \A g \in F : /\ half'[g] # 0 /\ (half'[g] # None => handle'[g] = None)
                    /\ g \in gone' => handle'[g] = None /\ half'[g] = None
  BY <1>1, <1>5, <1>6, <1>7 DEF Types
<1>11. Owners'
  BY <1>1, <1>2, <1>8, <1>9, <1>10, OwnersStep
<1>12. NothingGone'
  <2>1. \E new : Install(Lists(command), new)
    BY <1>3 DEF RemoveCallback
  <2> QED
    BY <1>1, <1>5, <2>1, InstallNothingGone
<1> QED
  BY <1>11, <1>12

\* ClearCallback and setupCallbacks: no CallbackID changes hands.
LEMMA ClearCallbackOInv ==
    ASSUME OInv, NEW command \in Commands, ClearCallback(command)
    PROVE  Owners' /\ NothingGone'
<1>1. /\ IInv /\ Owners /\ Dispatches /\ NothingGone
      /\ Install({command}, [c \in {command} |-> <<>>])
      /\ UNCHANGED <<batchCallbacks, handle, half, gone>>
  BY DEF OInv, IInv, Registry, ClearCallback
<1>2. Types'
  <2>1. IInv'
    BY <1>1, ClearCallbackIInv
  <2> QED
    BY <2>1 DEF IInv, Registry
<1>3. PICK F : F = {}
  OBVIOUS
<1>4. ASSUME NEW c \in Places, NEW i \in DOMAIN List(c)'
      PROVE  (\E j \in DOMAIN List(c) : List(c)'[i] = List(c)[j]) /\ List(c)'[i].callback \notin F
  <2>1. List(c)' = List(c) \/ List(c)' = <<>>
    BY <1>1 DEF Install, List, Places
  <2> QED
    BY <1>3, <1>4, <2>1
<1>5. \A g \in Funcs \ F : handle'[g] = handle[g] /\ half'[g] = half[g] /\ (g \in gone' => g \in gone)
  BY <1>1
<1>6. \A g \in F : /\ half'[g] # 0 /\ (half'[g] # None => handle'[g] = None)
                   /\ g \in gone' => handle'[g] = None /\ half'[g] = None
  BY <1>3
<1>7. Owners'
  BY <1>1, <1>2, <1>4, <1>5, <1>6, OwnersStep
<1>8. NothingGone'
  BY <1>1, InstallNothingGone
<1> QED
  BY <1>7, <1>8

\* setupCallbacks adds pairs that are not the client's.
LEMMA SetupOInv == ASSUME OInv, setupCallbacks PROVE Owners' /\ NothingGone'
<1>1. IInv /\ Types /\ Owners /\ Dispatches /\ NothingGone
  BY DEF OInv, IInv, Registry
<1>2. Types'
  <2>1. IInv'
    BY <1>1, SetupIInv
  <2> QED
    BY <2>1 DEF IInv, Registry
<1>3. PICK n \in Nat : n = setup
  BY <1>1 DEF Types
<1>4. PICK command \in Commands : command = BaseCallbacks[n + 1][1]
  <2>1. n + 1 \in 1 .. Len(BaseCallbacks)
    BY <1>3, BaseFacts DEF setupCallbacks
  <2> QED
    BY <2>1, BaseFacts
<1>5. /\ addCallback(command, "base", BaseCallbacks[n + 1][2], 0)
      /\ UNCHANGED <<batchCallbacks, handle, half, gone>>
  BY <1>3, <1>4 DEF setupCallbacks
<1>6. PICK p \in Pair : p = [id |-> callbackCounter, callback |-> "base"]
  BY <1>1 DEF Types, Pair
<1>7. PICK list : list = IF BaseCallbacks[n + 1][2] THEN <<p>> \o events[command] ELSE Append(events[command], p)
  OBVIOUS
<1>8. Install({command}, [c \in {command} |-> list])
  BY <1>5, <1>6, <1>7 DEF addCallback, NewId
<1>9. Added(command, p)
  <2>1. list = Append(events[command], p) \/ (list = <<p>> \o events[command] /\ p.callback = "base")
    BY <1>6, <1>7
  <2>2. batchCallbacks' = batchCallbacks
    BY <1>5
  <2> QED
    BY <1>1, <1>8, <2>1, <2>2, InstallGrows
<1>10. PICK F : F = {}
  OBVIOUS
<1>11. ASSUME NEW c \in Places, NEW i \in DOMAIN List(c)', List(c)'[i].callback \in Funcs
       PROVE  (\E j \in DOMAIN List(c) : List(c)'[i] = List(c)[j]) /\ List(c)'[i].callback \notin F
  <2>1. List(c)'[i] = p \/ \E j \in DOMAIN List(c) : List(c)'[i] = List(c)[j]
    BY <1>9, AddedPairs
  <2>2. p.callback \notin Funcs
    BY <1>6, FuncsAssumption
  <2> QED
    BY <1>10, <1>11, <2>1, <2>2
<1>12. \A g \in Funcs \ F : handle'[g] = handle[g] /\ half'[g] = half[g] /\ (g \in gone' => g \in gone)
  BY <1>5
<1>13. \A g \in F : /\ half'[g] # 0 /\ (half'[g] # None => handle'[g] = None)
                    /\ g \in gone' => handle'[g] = None /\ half'[g] = None
  BY <1>10
<1>14. Owners'
  BY <1>1, <1>2, <1>11, <1>12, <1>13, OwnersStep
<1>15. NothingGone'
  BY <1>1, <1>5, <1>8, InstallNothingGone
<1> QED
  BY <1>14, <1>15

\* ReplaceCallback: g takes over the one pair of f, in the list and in the dispatches
\* that run over it.
LEMMA ReplaceCallbackOInv ==
    ASSUME OInv, NEW f \in Funcs, NEW g \in Funcs, ReplaceCallback(f, g)
    PROVE  Owners' /\ NothingGone'
<1>1. IInv /\ Types /\ Ids /\ Owners /\ Dispatches /\ NothingGone
  BY DEF OInv, IInv, Registry
<1>2. Types'
  <2>1. IInv'
    BY <1>1, ReplaceCallbackIInv
  <2> QED
    BY <2>1 DEF IInv, Registry
<1>3. handle[f] # None /\ g \notin gone /\ handle[g] = None /\ half[g] = None
  BY DEF ReplaceCallback, Fresh
<1>4. PICK command \in Commands, id \in Nat, i \in Nat, p \in Pair :
         handle[f] = <<command, id>> /\ Replaced(f, g, command, id, i, p)
  BY <1>1, ReplaceFacts
<1>5. /\ p.id = id /\ p.callback = g /\ f # g /\ half' = half /\ gone' = gone \cup {f}
      /\ handle' = [handle EXCEPT ![f] = None, ![g] = <<command, id>>]
      /\ Overwrite(command, i, p)
  BY <1>3, <1>4 DEF Replaced
<1>6. Relisted(command, id, i, p)
  <2>1. Types /\ Replaced(f, g, command, id, i, p)
    BY <1>1, <1>4
  <2> QED
    BY <2>1, ReplaceLists
<1>7. half[f] = None /\ half[f] # 0 /\ half[g] # 0
  BY <1>1, <1>3 DEF Owners
<1>8. handle'[f] = None /\ handle'[g] = <<command, id>>
      /\ \A h \in Funcs \ {f, g} : handle'[h] = handle[h]
  BY <1>1, <1>5 DEF Types
<1>9. PICK F : F = {f, g}
  OBVIOUS
<1>10. \A c \in Places : \A j \in DOMAIN List(c) : List(c)[j].callback # g
  BY <1>1, <1>3, FreshUnowned
<1>11. ASSUME NEW c \in Places, NEW j \in DOMAIN List(c), List(c)[j].callback = f
       PROVE  c = command /\ j = i
  <2>1. PICK q : q = List(c)[j]
    OBVIOUS
  <2>2. q \in Pair /\ q.callback = f
    BY <1>1, <1>11, <2>1, ListType
  <2>3. q.id \in Nat /\ q.id # None
    BY <2>2, NoneAssumption DEF Pair
  <2>4. Owned(c, q)
    BY <1>1, <2>1, <2>2 DEF Owners
  <2>5. <<command, id>> = <<c, q.id>> \/ <<command, id>> = <<registrationEvent, q.id>>
    BY <1>4, <1>7, <2>2, <2>3, <2>4 DEF Owned
  <2>6. command # registrationEvent
    BY CommandsAssumption
  <2>7. c = command /\ q.id = id
    BY <2>5, <2>6
  <2>8. List(command)[i].id = id /\ i \in DOMAIN List(command)
    BY <1>6 DEF Relisted
  <2> QED
    BY <1>1, <2>1, <2>7, <2>8 DEF Ids
<1>12. ASSUME NEW c \in Places, NEW j \in DOMAIN List(c)', List(c)'[j].callback \in Funcs
       PROVE  \/ Owned(c, List(c)[j])'
              \/ (\E k \in DOMAIN List(c) : List(c)'[j] = List(c)[k]) /\ List(c)'[j].callback \notin F
  <2>1. j \in DOMAIN List(c)
    BY <1>6 DEF Relisted
  <2>2. CASE c = command /\ j = i
    <3>1. List(c)'[j] = p
      BY <1>6, <2>1, <2>2 DEF Relisted
    <3>2. g \notin gone'
      BY <1>3, <1>5
    <3> QED
      BY <1>5, <1>8, <2>2, <3>1, <3>2 DEF Owned
  <2>3. CASE ~(c = command /\ j = i)
    <3>1. List(c)'[j] = List(c)[j]
      BY <1>6, <2>1, <2>3 DEF Relisted
    <3>2. List(c)[j].callback # f /\ List(c)[j].callback # g
      BY <1>10, <1>11, <2>1, <2>3
    <3> QED
      BY <1>9, <2>1, <3>1, <3>2
  <2> QED
    BY <2>2, <2>3
<1>13. \A h \in Funcs \ F : handle'[h] = handle[h] /\ half'[h] = half[h] /\ (h \in gone' => h \in gone)
  BY <1>5, <1>8, <1>9
<1>14. \A h \in F : /\ half'[h] # 0 /\ (half'[h] # None => handle'[h] = None)
                    /\ h \in gone' => handle'[h] = None /\ half'[h] = None
  BY <1>3, <1>5, <1>7, <1>8, <1>9
<1>15. Owners'
  BY <1>1, <1>2, <1>12, <1>13, <1>14, OwnersStep
<1>16. ASSUME NEW d \in Dispatchers
       PROVE  /\ dispatch'[d].ran = dispatch[d].ran /\ dispatch'[d].before = dispatch[d].before
              /\ \A j \in DOMAIN dispatch'[d].list :
                    \/ dispatch'[d].list[j] = p
                    \/ j \in DOMAIN dispatch[d].list /\ dispatch'[d].list[j] = dispatch[d].list[j]
  <2>1. PICK r : r = dispatch[d]
    OBVIOUS
  <2>2. r = [command |-> r.command, list |-> r.list, shared |-> r.shared, ran |-> r.ran,
             start |-> r.start, before |-> r.before]
    BY <1>1, <2>1 DEF Dispatches, Keeps
  <2>3. dispatch'[d] = [r EXCEPT !.list[i] = p] \/ dispatch'[d] = r
    BY <1>5, <2>1 DEF Overwrite
  <2>4. PICK t : t = [r.list EXCEPT ![i] = p]
    OBVIOUS
  <2>5. \A j \in DOMAIN t : j \in DOMAIN r.list /\ (t[j] = p \/ t[j] = r.list[j])
    BY <2>4
  <2>6. dispatch'[d] = [r EXCEPT !.list = t] \/ dispatch'[d] = r
    BY <2>3, <2>4
  <2>7. /\ dispatch'[d].ran = r.ran /\ dispatch'[d].before = r.before
        /\ dispatch'[d].list = t \/ dispatch'[d].list = r.list
    BY <2>2, <2>6
  <2> QED
    BY <2>1, <2>5, <2>7
<1>17. NothingGone'
  <2>1. p.callback \notin gone /\ gone \subseteq gone'
    BY <1>3, <1>5
  <2>2. ASSUME NEW d \in Dispatchers
        PROVE  /\ dispatch'[d].before \subseteq gone'
               /\ \A j \in DOMAIN dispatch'[d].list :
                     dispatch'[d].list[j].callback \notin dispatch'[d].before
               /\ \A j \in DOMAIN dispatch'[d].ran :
                     dispatch'[d].ran[j].callback \notin dispatch'[d].before
    BY <1>1, <1>16, <2>1 DEF NothingGone
  <2> QED
    BY <2>2 DEF NothingGone
<1> QED
  BY <1>15, <1>17

\* A dispatch that begins finds the lists of the registry, where nothing is gone.
LEMMA DispatchNothingGone ==
    ASSUME OInv, NEW d \in Dispatchers, Dispatch(d)
    PROVE  NothingGone'
<1>1. /\ Types /\ Owners /\ Dispatches /\ NothingGone
      /\ UNCHANGED <<events, batchCallbacks, callbackCounter, regVars>>
  BY DispatchKeeps DEF OInv, IInv, Registry
<1>2. ASSUME NEW r, dispatch' = [dispatch EXCEPT ![d] = r], r.before \subseteq gone,
             \A i \in DOMAIN r.list : r.list[i].callback \notin r.before,
             \A i \in DOMAIN r.ran : r.ran[i].callback \notin r.before
      PROVE  NothingGone'
  <2>1. \A e \in Dispatchers : dispatch'[e] = IF e = d THEN r ELSE dispatch[e]
    BY <1>1, <1>2 DEF Dispatches
  <2>2. ASSUME NEW e \in Dispatchers
        PROVE  /\ dispatch'[e].before \subseteq gone'
               /\ \A j \in DOMAIN dispatch'[e].list :
                     dispatch'[e].list[j].callback \notin dispatch'[e].before
               /\ \A j \in DOMAIN dispatch'[e].ran :
                     dispatch'[e].ran[j].callback \notin dispatch'[e].before
    BY <1>1, <1>2, <2>1 DEF NothingGone
  <2> QED
    BY <2>2 DEF NothingGone
<1>3. \A c \in Places : \A i \in DOMAIN List(c) : List(c)[i].callback \notin gone
  <2> TAKE c \in Places
  <2> TAKE i \in DOMAIN List(c)
  <2>1. List(c)[i].callback \in Funcs => List(c)[i].callback \notin gone
    BY <1>1 DEF Owners, Owned
  <2> QED
    BY <1>1, <2>1 DEF Types
<1>4. ASSUME NEW c \in Places, Begin(d, c, List(c)) PROVE NothingGone'
  <2>1. PICK r : r = [command |-> c, list |-> List(c), shared |-> TRUE, ran |-> <<>>,
                      start |-> [i \in DOMAIN List(c) |-> List(c)[i].id], before |-> gone]
    OBVIOUS
  <2>2. r.list = List(c) /\ r.ran = <<>> /\ r.before = gone
    BY <2>1
  <2>3. dispatch' = [dispatch EXCEPT ![d] = r]
    BY <1>4, <2>1 DEF Begin
  <2>4. /\ r.before \subseteq gone
        /\ \A i \in DOMAIN r.list : r.list[i].callback \notin r.before
        /\ \A i \in DOMAIN r.ran : r.ran[i].callback \notin r.before
    BY <1>3, <2>2
  <2> QED
    BY <1>2, <2>3, <2>4
<1>5. ASSUME Finish(d) PROVE NothingGone'
  <2>1. Idle.list = <<>> /\ Idle.ran = <<>> /\ Idle.before = {}
    BY DEF Idle
  <2> QED
    BY <1>2, <1>5, <2>1 DEF Finish
<1>6. ASSUME RunCallback(d) PROVE NothingGone'
  <2>1. PICK r : r = dispatch[d]
    OBVIOUS
  <2>2. Keeps(r) /\ Len(r.ran) < Len(r.list)
    BY <1>1, <1>6, <2>1 DEF Dispatches, RunCallback, Running
  <2>3. PICK n \in Nat : n = Len(r.ran) + 1
    BY <2>2 DEF Keeps
  <2>4. n \in DOMAIN r.list /\ r.list[n] \in Pair /\ r.ran \in Seq(Pair)
    BY <2>2, <2>3 DEF Keeps
  <2>5. PICK t : t = Append(r.ran, r.list[n])
    OBVIOUS
  <2>6. \A i \in DOMAIN t : t[i] = r.list[n] \/ (i \in DOMAIN r.ran /\ t[i] = r.ran[i])
    BY <2>4, <2>5
  <2>7. PICK q : q = [r EXCEPT !.ran = t]
    OBVIOUS
  <2>8. q.list = r.list /\ q.ran = t /\ q.before = r.before
    <3>1. r = [command |-> r.command, list |-> r.list, shared |-> r.shared, ran |-> r.ran,
               start |-> r.start, before |-> r.before]
      BY <2>2 DEF Keeps
    <3> QED
      BY <2>7, <3>1
  <2>9. dispatch' = [dispatch EXCEPT ![d] = q]
    <3>1. dispatch' = [dispatch EXCEPT ![d].ran = Append(@, r.list[n])]
      BY <1>6, <2>1, <2>3 DEF RunCallback
    <3> QED
      BY <2>1, <2>5, <2>7, <3>1
  <2>10. /\ r.before \subseteq gone
         /\ \A i \in DOMAIN r.list : r.list[i].callback \notin r.before
         /\ \A i \in DOMAIN r.ran : r.ran[i].callback \notin r.before
    BY <1>1, <2>1 DEF NothingGone
  <2>11. \A i \in DOMAIN t : t[i].callback \notin r.before
    BY <2>4, <2>6, <2>10
  <2> QED
    BY <1>2, <2>8, <2>9, <2>10, <2>11
<1>7. ASSUME NEW command \in Commands, HandleMessage(d, command) \/ handleBatchNaively(d, command)
      PROVE  NothingGone'
  <2>1. command \in Places /\ List(command) = events[command]
    BY CommandsAssumption DEF Places, List
  <2> QED
    BY <1>4, <1>7, <2>1 DEF HandleMessage, handleBatchNaively
<1>8. ASSUME HandleBatch(d) PROVE NothingGone'
  <2>1. "BATCH" \in Places /\ List("BATCH") = batchCallbacks
    BY DEF Places, List
  <2> QED
    BY <1>4, <1>8, <2>1 DEF HandleBatch
<1> QED
  BY <1>5, <1>6, <1>7, <1>8 DEF Dispatch, Interrupted, Return

\* Every step keeps the larger invariant too.
LEMMA NextOInv == ASSUME ~ConnectFirst, OInv, [Next]_vars PROVE OInv'
<1>1. IInv'
  BY NextIInv DEF OInv
<1>2. Owners' /\ NothingGone'
  <2>1. ASSUME UNCHANGED <<events, batchCallbacks, callbackCounter, regVars>> PROVE Owners'
    <3>1. \A c \in Places : List(c)' = List(c)
      BY <2>1 DEF List
    <3>2. handle' = handle /\ half' = half /\ gone' = gone
      BY <2>1
    <3>3. \A c \in Places : \A i \in DOMAIN List(c) :
             List(c)[i].callback \in Funcs => Owned(c, List(c)[i])'
      BY <3>1, <3>2 DEF OInv, Owners, Owned
    <3>4. /\ \A f \in Funcs : half'[f] # 0 /\ (half'[f] # None => handle'[f] = None)
          /\ \A f \in gone' : handle'[f] = None /\ half'[f] = None
      BY <3>2 DEF OInv, Owners
    <3> QED
      BY <3>1, <3>3, <3>4 DEF Owners
  <2>2. CASE UNCHANGED vars
    BY <2>1, <2>2 DEF vars, OInv, NothingGone
  <2>3. ASSUME NEW d \in Dispatchers, Dispatch(d) PROVE Owners' /\ NothingGone'
    <3>1. UNCHANGED <<events, batchCallbacks, callbackCounter, regVars>>
      BY <2>3, DispatchKeeps DEF OInv, IInv, Registry
    <3> QED
      BY <2>1, <2>3, <3>1, DispatchNothingGone
  <2>4. ASSUME NEW f \in Funcs, Register(f) PROVE Owners' /\ NothingGone'
    BY <2>4, AddCallbackOInv, AddCallbackRefusedOInv, AddConnectCallbackOInv,
       AddConnectCallbackCopyOInv, AddBatchCallbackOInv DEF Register
  <2> QED
    BY <2>2, <2>3, <2>4, RemoveCallbackOInv, ReplaceCallbackOInv, ClearCallbackOInv, SetupOInv DEF Next
<1> QED
  BY <1>1, <1>2 DEF OInv

\* Once RemoveCallback or ReplaceCallback has returned, no dispatch that begins afterwards
\* runs the function, in whatever order the calls, setupCallbacks and the dispatches
\* fall. Without the assumption it is false: an AddConnectCallback that gets the id 0 has
\* copies with different ids, and RemoveCallback leaves the second one registered.
THEOREM RemovedStayRemoved == ASSUME ~ConnectFirst PROVE Spec => []RemovedNeverRuns
<1>1. Init => OInv
  BY InitIInv
<1>2. OInv /\ [Next]_vars => OInv'
  BY NextOInv
<1>3. OInv => RemovedNeverRuns
  <2> SUFFICES ASSUME OInv, NEW d \in Dispatchers, NEW p \in ToSet(dispatch[d].ran)
               PROVE  p.callback \notin dispatch[d].before
    BY DEF RemovedNeverRuns
  <2>1. PICK i \in DOMAIN dispatch[d].ran : p = dispatch[d].ran[i]
    BY DEF ToSet
  <2> QED
    BY <2>1 DEF OInv, NothingGone
<1> QED
  BY <1>1, <1>2, <1>3, PTL DEF Spec
=============================================================================
