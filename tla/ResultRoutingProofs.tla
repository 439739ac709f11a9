------------------------ MODULE ResultRoutingProofs ------------------------
(* Proofs about ResultRouting, for every number of requests, connections   *)
(* and disturbances, whether sockets follow each other or overlap.         *)
EXTENDS ResultRouting, SequenceTheorems, TLAPS

-----------------------------------------------------------------------------
(* The queue of commands.                                                  *)

\* What Append, Tail and both of them make of the commands in flight.
LEMMA CommandIssued ==
    ASSUME commands \in Seq(CommandType), NEW x \in CommandType,
           commands' = Append(commands, x)
    PROVE  /\ commands' \in Seq(CommandType)
           /\ Len(commands) \in Nat /\ Len(commands') = Len(commands) + 1
           /\ \A i \in DOMAIN commands : commands'[i] = commands[i]
           /\ commands'[Len(commands')] = x
BY AppendProperties

LEMMA CommandDone ==
    ASSUME commands \in Seq(CommandType), commands # <<>>,
           commands' = Tail(commands)
    PROVE  /\ commands' \in Seq(CommandType)
           /\ Len(commands) \in Nat /\ Len(commands') = Len(commands) - 1
           /\ \A i \in DOMAIN commands' : commands'[i] = commands[i + 1]
           /\ 1 \in DOMAIN commands /\ Head(commands) = commands[1]
<1>1. /\ Len(commands) \in Nat /\ Len(commands) # 0
      /\ DOMAIN commands = 1 .. Len(commands)
  BY EmptySeq
<1>2. /\ commands' \in Seq(CommandType) /\ Len(commands') = Len(commands) - 1
      /\ \A i \in 1 .. Len(commands') : commands'[i] = commands[i + 1]
  BY HeadTailProperties
<1>3. DOMAIN commands' = 1 .. Len(commands')
  BY <1>2
<1> QED
  BY <1>1, <1>2, <1>3

LEMMA CommandFollowed ==
    ASSUME commands \in Seq(CommandType), commands # <<>>, NEW x \in CommandType,
           commands' = Append(Tail(commands), x)
    PROVE  /\ commands' \in Seq(CommandType)
           /\ Len(commands) \in Nat /\ Len(commands') = Len(commands)
           /\ \A i \in 1 .. Len(commands) - 1 : commands'[i] = commands[i + 1]
           /\ commands'[Len(commands)] = x
           /\ 1 \in DOMAIN commands /\ Head(commands) = commands[1]
<1>1. /\ Len(commands) \in Nat /\ Len(commands) # 0
      /\ DOMAIN commands = 1 .. Len(commands)
  BY EmptySeq
<1>2. /\ Tail(commands) \in Seq(CommandType) /\ Len(Tail(commands)) = Len(commands) - 1
      /\ \A i \in 1 .. Len(Tail(commands)) : Tail(commands)[i] = commands[i + 1]
  BY HeadTailProperties
<1>3. /\ commands' \in Seq(CommandType) /\ Len(commands') = Len(commands) - 1 + 1
      /\ \A i \in 1 .. Len(Tail(commands)) : commands'[i] = Tail(commands)[i]
      /\ commands'[Len(commands) - 1 + 1] = x
  BY <1>2, AppendProperties
<1> QED
  BY <1>1, <1>2, <1>3

-----------------------------------------------------------------------------
(* Types.                                                                  *)

LEMMA SpendType ==
    ASSUME used \in [Kinds -> Nat], NEW k \in Kinds, Spend(k)
    PROVE  used' \in [Kinds -> Nat]
BY DEF Spend

LEMMA ArriveType ==
    ASSUME TypeOK, NEW R \in SUBSET Requests, NEW c \in Connections, Arrive(R, c)
    PROVE  received' \in [Requests -> Nat] /\ unheard' \subseteq Requests
<1>1. \A n \in Nat : n + 1 \in Nat /\ n + 0 \in Nat
  OBVIOUS
<1> QED
  BY <1>1 DEF Arrive, TypeOK

\* The command at the head and its argument.
LEMMA HeadType ==
    ASSUME TypeOK, commands # <<>>
    PROVE  /\ Head(commands) \in CommandType
           /\ Next1("store") => Of \in Requests
           /\ Next1("read") \/ Next1("del") => Of \in Connections
<1>1. Head(commands) \in CommandType
  BY HeadTailProperties DEF TypeOK
<1> QED
  BY <1>1 DEF CommandType, Next1, Of

\* Steps of sockets preserve the types.
LEMMA SocketType ==
    ASSUME TypeOK, NEW c \in Connections, Socket(c)
    PROVE  TypeOK'
<1> USE RoutingAssumption DEF TypeOK, sockets, redis, outcome, history
<1>1. CASE Connect(c)
  BY <1>1 DEF Connect, Others
<1>2. CASE Hello(c)
  <2>1. [kind |-> "read", of |-> c] \in CommandType
    BY DEF CommandType
  <2>2. commands' \in Seq(CommandType)
    BY <1>2, <2>1, CommandIssued DEF Hello, Issue
  <2> QED
    BY <1>2, <2>2 DEF Hello
<1>3. CASE Leaves(c)
  <2>1. used' \in [Kinds -> Nat]
    BY <1>3, SpendType DEF Leaves, Kinds
  <2> QED
    BY <1>3, <2>1 DEF Leaves
<1>4. CASE Disconnect(c)
  BY <1>4 DEF Disconnect, Forget
<1> QED
  BY <1>1, <1>2, <1>3, <1>4 DEF Socket

\* Requests and their responses.
LEMMA RequestType ==
    ASSUME TypeOK, NEW r \in Requests,
           Deliver(r) \/ \E c \in Connections : Call(r, c)
    PROVE  TypeOK'
<1>1. CASE \E c \in Connections : Call(r, c)
  BY <1>1 DEF Call, TypeOK, sockets, redis, outcome, history
<1>2. CASE Deliver(r)
  <2> DEFINE c == FindConnection(r)
  <2>1. /\ c # None => c \in Connections
        /\ UNCHANGED <<sockets, origin, pending, taken, used, dropped, overlap>>
        /\ crossed' \subseteq Requests
    BY <1>2 DEF FindConnection, Deliver, TypeOK
  <2>2. CASE Sendable(c)
    <3>1. Arrive({r}, c) /\ commands' = commands /\ at' = [at EXCEPT ![r] = "answered"]
      BY <1>2, <2>2 DEF Deliver
    <3>2. received' \in [Requests -> Nat] /\ unheard' \subseteq Requests
      BY <2>1, <2>2, <3>1, ArriveType DEF Sendable
    <3> QED
      BY <2>1, <3>1, <3>2 DEF TypeOK, sockets
  <2>3. CASE ~Sendable(c)
    <3>1. /\ Issue("store", r) /\ at' = [at EXCEPT ![r] = "storing"]
          /\ UNCHANGED <<received, unheard>>
      BY <1>2, <2>3 DEF Deliver
    <3>2. [kind |-> "store", of |-> r] \in CommandType
      BY DEF CommandType
    <3>3. commands' \in Seq(CommandType)
      BY <3>1, <3>2, CommandIssued DEF Issue, TypeOK
    <3> QED
      BY <2>1, <3>1, <3>3 DEF TypeOK, sockets
  <2> QED
    BY <2>2, <2>3
<1> QED
  BY <1>1, <1>2

\* Commands and their replies.
LEMMA ExecuteType ==
    ASSUME TypeOK, Execute
    PROVE  TypeOK'
<1> USE DEF sockets, outcome, history
<1>1. CASE Store
  <2>1. Of \in Requests /\ commands' \in Seq(CommandType)
    BY <1>1, HeadType, CommandDone DEF Store, Next1, TypeOK
  <2>2. used' \in [Kinds -> Nat]
    BY <1>1, SpendType DEF Store, Kinds, TypeOK
  <2>3. at' \in [Requests -> {"new", "queued", "storing", "answered"}]
    BY <1>1, <2>1 DEF Store, TypeOK
  <2> QED
    BY <1>1, <2>1, <2>2, <2>3 DEF Store, TypeOK
<1>2. CASE Read
  <2>1. Of \in Connections
    BY <1>2, HeadType DEF Read, Next1
  <2>2. [kind |-> "del", of |-> Of] \in CommandType
    BY <2>1 DEF CommandType
  <2>3. commands' \in Seq(CommandType)
    BY <1>2, <2>2, CommandDone, CommandFollowed DEF Read, Next1, IssueNext, TypeOK
  <2>4. used' \in [Kinds -> Nat]
    BY <1>2, SpendType DEF Read, Kinds, TypeOK
  <2>5. taken' \in [Connections -> SUBSET Requests]
    BY <1>2, <2>1 DEF Read, TypeOK
  <2> QED
    BY <1>2, <2>3, <2>4, <2>5 DEF Read, TypeOK
<1>3. CASE Replay
  <2>1. Of \in Connections /\ commands' \in Seq(CommandType)
    BY <1>3, HeadType, CommandDone DEF Replay, Next1, TypeOK
  <2>2. used' \in [Kinds -> Nat]
    BY <1>3, SpendType DEF Replay, Kinds, TypeOK
  <2>3. taken' \in [Connections -> SUBSET Requests] /\ taken[Of] \subseteq Requests
    BY <1>3, <2>1 DEF Replay, TypeOK
  <2>4. received' \in [Requests -> Nat] /\ unheard' \subseteq Requests
    BY <1>3, <2>1, <2>3, ArriveType DEF Replay, TypeOK
  <2>5. pending' \subseteq Requests /\ dropped' \subseteq Requests
    BY <1>3 DEF Replay, Cleared, TypeOK
  <2> QED
    BY <1>3, <2>1, <2>2, <2>3, <2>4, <2>5 DEF Replay, TypeOK
<1> QED
  BY <1>1, <1>2, <1>3 DEF Execute

LEMMA CrashType ==
    ASSUME TypeOK, Crash
    PROVE  TypeOK'
<1>1. used' \in [Kinds -> Nat]
  BY SpendType DEF Crash, Kinds, TypeOK
<1>2. commands' \in Seq(CommandType)
  BY EmptySeq DEF Crash
<1> QED
  BY <1>1, <1>2 DEF Crash, TypeOK, outcome

LEMMA TypeNext == TypeOK /\ [Next]_vars => TypeOK'
<1> SUFFICES ASSUME TypeOK, [Next]_vars PROVE TypeOK'
  OBVIOUS
<1>1. CASE UNCHANGED vars
  BY <1>1 DEF vars, sockets, redis, outcome, history, TypeOK
<1> QED
  BY <1>1, SocketType, RequestType, ExecuteType, CrashType DEF Next

LEMMA TypeInit == Init => TypeOK
<1>1. <<>> \in Seq(CommandType)
  BY EmptySeq
<1>2. Init => unheard \cup dropped \cup crossed = {} /\ overlap = FALSE
  BY DEF Init
<1>3. Init => used \in [Kinds -> Nat]
  BY DEF Init
<1>4. Init => /\ peer \in [Connections -> BOOLEAN]
              /\ ready \in [Connections -> {"closed", "open", "closing"}]
              /\ authenticated \in [Connections -> BOOLEAN]
              /\ taken \in [Connections -> SUBSET Requests]
  BY DEF Init
<1>5. Init => /\ origin \in [Requests -> Connections \cup {None}]
              /\ at \in [Requests -> {"new", "queued", "storing", "answered"}]
              /\ received \in [Requests -> Nat]
  BY DEF Init
<1>6. Init => /\ pending \subseteq Requests
              /\ byPod \in {None} \cup {c \in Connections : ready[c] # "closed" /\ authenticated[c]}
  BY DEF Init
<1> QED
  BY <1>1, <1>2, <1>3, <1>4, <1>5, <1>6 DEF Init, TypeOK

\* Every reachable state is well typed, and connectionsByPod holds no connection
\* that has ended, whether sockets overlap or not.
THEOREM TypeCorrect == Spec => []TypeOK
BY TypeInit, TypeNext, PTL DEF Spec

-----------------------------------------------------------------------------
(* Responses are kept.                                                     *)

\* Where no socket has overlapped another: one socket at a time, and whoever has
\* said hello on it is found by every item.
OneSocket ==
    \A c, d \in Connections : ready[c] # "closed" /\ ready[d] # "closed" => c = d
HelloIsFound ==
    \A c \in Connections : ready[c] # "closed" /\ authenticated[c] => byPod = c
PeerIsOpen == \A c \in Connections : peer[c] => ready[c] = "open"
OriginLives == \A r \in Requests : origin[r] # None => ready[origin[r]] # "closed"
SocketInv == PeerIsOpen /\ OriginLives /\ (~overlap => OneSocket /\ HelloIsFound)

\* The queue: a replay belongs to one hello, and no store but of a crossed response
\* is issued while its socket is open, so that no other comes between its HGETALL
\* and its DEL.
IsReplay(i) == commands[i].kind # "store"
Safe(i) == IsReplay(i) \/ commands[i].of \in crossed
HelloFirst ==
    \A i \in DOMAIN commands :
        IsReplay(i) /\ ready[commands[i].of] # "closed" => authenticated[commands[i].of]
OneReplay ==
    \A i, j \in DOMAIN commands :
        IsReplay(i) /\ IsReplay(j) /\ commands[i].of = commands[j].of => i = j
StoresFirst ==
    \A i, k \in DOMAIN commands :
        commands[i].kind = "read" /\ ready[commands[i].of] = "open" /\ k > i => Safe(k)
DelSaw ==
    \A i \in DOMAIN commands :
        commands[i].kind = "del" /\ ready[commands[i].of] = "open"
        => /\ pending \subseteq taken[commands[i].of] \cup crossed
           /\ \A k \in DOMAIN commands : Safe(k)
CommandInv == HelloFirst /\ OneReplay /\ StoresFirst /\ DelSaw

\* NoneStranded, and nothing else is on its way to be stored either.
ReplayOver(c) == \A i \in DOMAIN commands : IsReplay(i) => commands[i].of # c
Quiet ==
    \A c \in Connections :
        peer[c] /\ authenticated[c] /\ ReplayOver(c) /\ used["fault"] = 0
        => pending \subseteq crossed /\ \A i \in DOMAIN commands : Safe(i)

RouteInv == TypeOK /\ SocketInv /\ CommandInv /\ Kept /\ Quiet

\* While the POD's one socket is open after hello, every response can be sent.
LEMMA OpenIsFound ==
    ASSUME TypeOK, SocketInv, ~overlap, NEW c \in Connections, NEW r \in Requests,
           ready[c] = "open", authenticated[c]
    PROVE  Sendable(FindConnection(r))
<1>1. byPod = c /\ c # None
  BY RoutingAssumption DEF SocketInv, HelloIsFound
<1>2. origin[r] # None => origin[r] = c
  BY DEF SocketInv, OneSocket, OriginLives, TypeOK
<1> QED
  BY <1>1, <1>2 DEF FindConnection, Sendable

\* A budget that is not used up was not used before.
LEMMA NoFaultBefore ==
    ASSUME used \in [Kinds -> Nat], NEW k \in Kinds,
           UNCHANGED used \/ Spend(k), used'["fault"] = 0
    PROVE  used["fault"] = 0 /\ ~Spend("fault")
BY DEF Spend, Kinds

-----------------------------------------------------------------------------
LEMMA ConnectKeeps ==
    ASSUME RouteInv, NEW c \in Connections, Connect(c)
    PROVE  SocketInv' /\ CommandInv' /\ Kept' /\ Quiet'
<1> USE DEF RouteInv, TypeOK
<1>1. /\ \A d \in Connections : ~peer[d]
      /\ ready[c] = "closed" /\ overlap' = Others(c)
      /\ \A i \in DOMAIN commands : commands[i].of # c
      /\ peer' = [peer EXCEPT ![c] = TRUE] /\ ready' = [ready EXCEPT ![c] = "open"]
      /\ authenticated' = [authenticated EXCEPT ![c] = FALSE]
      /\ UNCHANGED <<byPod, origin, at, commands, pending, taken, used, received,
                     unheard, dropped, crossed>>
  BY DEF Connect, Idle, redis, outcome
<1>2. SocketInv'
  <2>1. PeerIsOpen' /\ OriginLives'
    BY <1>1 DEF SocketInv, PeerIsOpen, OriginLives
  <2>2. ~overlap' => \A d \in Connections : ready'[d] # "closed" => d = c
    BY <1>1 DEF Others
  <2>3. ~overlap' => OneSocket' /\ HelloIsFound'
    BY <1>1, <2>2 DEF OneSocket, HelloIsFound
  <2> QED
    BY <2>1, <2>3 DEF SocketInv
<1>3. \A i \in DOMAIN commands : IsReplay(i) =>
          /\ ready'[commands[i].of] = ready[commands[i].of]
          /\ authenticated'[commands[i].of] = authenticated[commands[i].of]
  <2>1. ASSUME NEW i \in DOMAIN commands, IsReplay(i) PROVE commands[i].of \in Connections
    <3>1. commands[i] \in CommandType
      BY <2>1
    <3> QED
      BY <2>1, <3>1 DEF IsReplay, CommandType
  <2> QED
    BY <1>1, <2>1
<1>4. CommandInv'
  <2>1. HelloFirst' /\ OneReplay'
    BY <1>1, <1>3 DEF CommandInv, HelloFirst, OneReplay, IsReplay
  <2>2. StoresFirst' /\ DelSaw'
    BY <1>1, <1>3 DEF CommandInv, StoresFirst, DelSaw, IsReplay, Safe
  <2> QED
    BY <2>1, <2>2 DEF CommandInv
<1>5. Kept' /\ Quiet'
  BY <1>1 DEF Kept, Exceptions, Quiet, ReplayOver, IsReplay, Safe
<1> QED
  BY <1>2, <1>4, <1>5

LEMMA HelloKeeps ==
    ASSUME RouteInv, NEW c \in Connections, Hello(c)
    PROVE  SocketInv' /\ CommandInv' /\ Kept' /\ Quiet'
<1> USE DEF RouteInv, TypeOK
<1> DEFINE x == [kind |-> "read", of |-> c]  n == Len(commands')
<1>0. x \in CommandType /\ x.kind = "read" /\ x.of = c
  BY DEF CommandType
<1>1. /\ ready[c] = "open" /\ ~authenticated[c]
      /\ authenticated' = [authenticated EXCEPT ![c] = TRUE] /\ byPod' = c
      /\ commands' = Append(commands, x)
      /\ UNCHANGED <<peer, ready, origin, at, pending, taken, used, received, unheard, dropped,
                     overlap, crossed>>
  BY DEF Hello, Issue, outcome, history
<1>2. /\ Len(commands) \in Nat /\ n = Len(commands) + 1
      /\ DOMAIN commands = 1 .. Len(commands) /\ DOMAIN commands' = 1 .. n
      /\ \A i \in DOMAIN commands : commands'[i] = commands[i]
      /\ commands'[n] = x
  BY <1>0, <1>1, CommandIssued
<1>3. SocketInv'
  BY <1>1 DEF SocketInv, OneSocket, PeerIsOpen, HelloIsFound, OriginLives
<1>4. \A i \in DOMAIN commands : IsReplay(i) => commands[i].of # c
  BY <1>1 DEF CommandInv, HelloFirst
<1>5. /\ \A i \in DOMAIN commands' :
            \/ i \in DOMAIN commands /\ commands'[i] = commands[i] /\ i < n
            \/ i = n /\ commands'[i] = x
      /\ \A i \in DOMAIN commands : i \in DOMAIN commands' /\ commands'[i] = commands[i]
      /\ n \in DOMAIN commands' /\ n \in Nat
  BY <1>2
<1>6. HelloFirst' /\ OneReplay'
  <2>1. HelloFirst'
    <3>1. authenticated'[c] /\ \A d \in Connections : authenticated[d] => authenticated'[d]
      BY <1>1
    <3>2. \A i \in DOMAIN commands : IsReplay(i) => commands[i].of \in Connections
      BY DEF IsReplay, CommandType
    <3>3. \A i \in DOMAIN commands :
              IsReplay(i) /\ ready[commands[i].of] # "closed" => authenticated'[commands[i].of]
      BY <3>1, <3>2 DEF HelloFirst, CommandInv
    <3> QED
      <4>1. ASSUME NEW i \in DOMAIN commands', commands'[i].kind # "store",
                   ready'[commands'[i].of] # "closed"
            PROVE  authenticated'[commands'[i].of]
        <5>1. CASE i \in DOMAIN commands /\ commands'[i] = commands[i]
          BY <1>1, <3>3, <4>1, <5>1 DEF IsReplay
        <5>2. CASE commands'[i] = x
          BY <1>0, <3>1, <5>2
        <5> QED
          BY <1>5, <5>1, <5>2
      <4> QED
        BY <4>1 DEF HelloFirst, IsReplay
  <2>2. OneReplay'
    BY <1>0, <1>4, <1>5 DEF OneReplay, IsReplay, CommandInv
  <2> QED
    BY <2>1, <2>2
<1>7. \A i \in DOMAIN commands : Safe(i) => Safe(i)'
  BY <1>1, <1>5 DEF Safe, IsReplay
<1>8. \A i \in DOMAIN commands' : i = n => Safe(i)'
  BY <1>0, <1>5 DEF Safe, IsReplay
<1>9. StoresFirst'
  <2>1. ASSUME NEW i \in DOMAIN commands', NEW k \in DOMAIN commands',
               commands'[i].kind = "read", ready'[commands'[i].of] = "open", k > i
        PROVE  Safe(k)'
    <3>1. CASE k = n
      BY <1>8, <3>1
    <3>2. CASE k # n
      <4>1. k \in DOMAIN commands /\ i \in DOMAIN commands
        BY <1>2, <1>5, <2>1, <3>2
      <4>2. Safe(k)
        BY <1>1, <1>5, <2>1, <4>1 DEF CommandInv, StoresFirst
      <4> QED
        BY <1>7, <4>1, <4>2
    <3> QED
      BY <3>1, <3>2
  <2> QED
    BY <2>1 DEF StoresFirst
<1>10. DelSaw'
  <2>1. ASSUME NEW i \in DOMAIN commands', commands'[i].kind = "del",
               ready'[commands'[i].of] = "open"
        PROVE  /\ pending' \subseteq taken'[commands'[i].of] \cup crossed'
               /\ \A k \in DOMAIN commands' : Safe(k)'
    <3>1. i \in DOMAIN commands /\ commands'[i] = commands[i]
      BY <1>0, <1>5, <2>1
    <3>2. /\ pending \subseteq taken[commands[i].of] \cup crossed
          /\ \A k \in DOMAIN commands : Safe(k)
      BY <1>1, <2>1, <3>1 DEF CommandInv, DelSaw
    <3> QED
      BY <1>1, <1>5, <1>7, <1>8, <3>1, <3>2
  <2> QED
    BY <2>1 DEF DelSaw
<1>11. Quiet'
  <2>1. ~ReplayOver(c)'
    BY <1>0, <1>2, <1>5 DEF ReplayOver, IsReplay
  <2>2. ASSUME NEW d \in Connections, d # c, ReplayOver(d)' PROVE ReplayOver(d)
    BY <1>5, <2>2 DEF ReplayOver, IsReplay
  <2>3. ASSUME NEW d \in Connections, peer'[d], authenticated'[d], ReplayOver(d)',
               used'["fault"] = 0
        PROVE  pending' \subseteq crossed' /\ \A i \in DOMAIN commands' : Safe(i)'
    <3>1. d # c
      BY <2>1, <2>3
    <3>2. pending \subseteq crossed /\ \A i \in DOMAIN commands : Safe(i)
      BY <1>1, <2>2, <2>3, <3>1 DEF Quiet
    <3> QED
      BY <1>1, <1>5, <1>7, <1>8, <3>2
  <2> QED
    BY <2>3 DEF Quiet
<1>12. Kept'
  BY <1>1 DEF Kept, Exceptions
<1> QED
  BY <1>3, <1>6, <1>9, <1>10, <1>11, <1>12 DEF CommandInv

LEMMA LeavesKeeps ==
    ASSUME RouteInv, NEW c \in Connections, Leaves(c)
    PROVE  SocketInv' /\ CommandInv' /\ Kept' /\ Quiet'
<1> USE DEF RouteInv, TypeOK
<1>1. /\ ready[c] = "open" /\ peer' = [peer EXCEPT ![c] = FALSE]
      /\ UNCHANGED <<authenticated, byPod, origin, at, commands, pending, taken, received,
                     unheard, dropped, overlap, crossed>>
  BY DEF Leaves, redis, outcome, history, SocketInv, PeerIsOpen
<1>2. PICK state \in {"open", "closing"} : ready' = [ready EXCEPT ![c] = state]
  BY DEF Leaves
<1>3. \A d \in Connections : /\ ready'[d] # "closed" <=> ready[d] # "closed"
                             /\ ready'[d] = "open" => ready[d] = "open"
                             /\ peer'[d] => peer[d] /\ ready'[d] = ready[d]
  BY <1>1, <1>2
<1>4. SocketInv'
  BY <1>1, <1>3 DEF SocketInv, OneSocket, PeerIsOpen, HelloIsFound, OriginLives
<1>5. \A i \in DOMAIN commands : IsReplay(i) => commands[i].of \in Connections
  BY DEF IsReplay, CommandType
<1>6. CommandInv'
  BY <1>1, <1>3, <1>5
     DEF CommandInv, HelloFirst, OneReplay, StoresFirst, DelSaw, IsReplay, Safe
<1>7. Kept'
  BY <1>1 DEF Kept, Exceptions
<1>8. Quiet'
  <2>1. used["fault"] = used'["fault"]
    BY DEF Leaves, Spend, Kinds
  <2> QED
    BY <1>1, <1>3, <2>1 DEF Quiet, ReplayOver, IsReplay, Safe
<1> QED
  BY <1>4, <1>6, <1>7, <1>8

LEMMA DisconnectKeeps ==
    ASSUME RouteInv, NEW c \in Connections, Disconnect(c)
    PROVE  SocketInv' /\ CommandInv' /\ Kept' /\ Quiet'
<1> USE DEF RouteInv, TypeOK
<1>1. /\ ready[c] # "closed" /\ ~peer[c] /\ ready' = [ready EXCEPT ![c] = "closed"]
      /\ origin' = [r \in Requests |-> IF origin[r] = c THEN None ELSE origin[r]]
      /\ UNCHANGED <<peer, authenticated, at, commands, pending, taken, used, received,
                     unheard, dropped, crossed>>
      /\ overlap' = (overlap /\ Others(c))
  BY DEF Disconnect, redis, outcome, history
<1>2. /\ \A d \in Connections : d # c => ready'[d] = ready[d]
      /\ ready'[c] = "closed" /\ ~peer[c]
      /\ byPod' = Forget(c)
  BY <1>1 DEF Disconnect
<1>3. PeerIsOpen' /\ OriginLives'
  BY <1>1, <1>2 DEF SocketInv, PeerIsOpen, OriginLives
<1>4. ~overlap' => \A d \in Connections : ready'[d] = "closed"
  <2>1. ASSUME ~overlap', NEW d \in Connections, d # c PROVE ready[d] = "closed"
    BY <1>1, <2>1 DEF SocketInv, OneSocket, Others
  <2> QED
    BY <1>2, <2>1
<1>5. SocketInv'
  BY <1>3, <1>4 DEF SocketInv, OneSocket, HelloIsFound
<1>6. \A i \in DOMAIN commands : IsReplay(i) => commands[i].of \in Connections
  BY DEF IsReplay, CommandType
<1>7. CommandInv'
  BY <1>1, <1>6
     DEF CommandInv, HelloFirst, OneReplay, StoresFirst, DelSaw, IsReplay, Safe
<1>8. Kept' /\ Quiet'
  BY <1>1 DEF Kept, Exceptions, Quiet, ReplayOver, IsReplay, Safe
<1> QED
  BY <1>5, <1>7, <1>8

\* A call takes its connection along.
LEMMA CallKeeps ==
    ASSUME RouteInv, NEW r \in Requests, NEW c \in Connections, Call(r, c)
    PROVE  SocketInv' /\ CommandInv' /\ Kept' /\ Quiet'
<1> USE DEF RouteInv, TypeOK
<1>1. /\ ready[c] = "open" /\ at' = [at EXCEPT ![r] = "queued"]
      /\ origin' = [origin EXCEPT ![r] = c]
      /\ UNCHANGED <<peer, ready, authenticated, byPod, commands, pending, taken, used,
                     received, unheard, dropped, overlap, crossed>>
  BY DEF Call, sockets, redis, outcome, history
<1>2. SocketInv'
  BY <1>1 DEF SocketInv, OneSocket, PeerIsOpen, HelloIsFound, OriginLives
<1>3. CommandInv'
  BY <1>1 DEF CommandInv, HelloFirst, OneReplay, StoresFirst, DelSaw, IsReplay, Safe
<1>4. Kept' /\ Quiet'
  BY <1>1 DEF Kept, Exceptions, Quiet, ReplayOver, IsReplay, Safe
<1> QED
  BY <1>2, <1>3, <1>4

\* A response is sent, or its store is issued: while no socket is open, or else it
\* is crossed.
LEMMA DeliverKeeps ==
    ASSUME RouteInv, NEW r \in Requests, Deliver(r)
    PROVE  SocketInv' /\ CommandInv' /\ Kept' /\ Quiet'
<1> USE DEF RouteInv, TypeOK
<1> DEFINE c == FindConnection(r)
<1>1. /\ UNCHANGED <<peer, ready, authenticated, byPod, origin, pending, taken, used, dropped,
                     overlap>>
      /\ c # None => c \in Connections
  BY DEF Deliver, sockets, FindConnection
<1>2. SocketInv'
  BY <1>1 DEF SocketInv, OneSocket, PeerIsOpen, HelloIsFound, OriginLives
<1>3. CASE Sendable(c)
  <2>1. /\ at' = [at EXCEPT ![r] = "answered"] /\ Arrive({r}, c) /\ commands' = commands
        /\ ready[c] = "open" /\ c \in Connections /\ crossed' = crossed
    BY <1>1, <1>3 DEF Deliver, Sendable
  <2>2. CommandInv' /\ Quiet'
    <3>1. HelloFirst' /\ OneReplay'
      BY <1>1, <2>1 DEF CommandInv, HelloFirst, OneReplay, IsReplay
    <3>2. StoresFirst' /\ DelSaw'
      BY <1>1, <2>1 DEF CommandInv, StoresFirst, DelSaw, IsReplay, Safe
    <3>3. Quiet'
      BY <1>1, <2>1 DEF Quiet, ReplayOver, IsReplay, Safe
    <3> QED
      BY <3>1, <3>2, <3>3 DEF CommandInv
  <2>3. /\ \A q \in Requests : received[q] \in Nat /\ received'[q] \in Nat
                               /\ received'[q] >= received[q]
        /\ received'[r] > 0 \/ r \in unheard'
        /\ unheard \subseteq unheard'
    BY <2>1 DEF Arrive
  <2>4. Kept'
    BY <1>1, <2>1, <2>3 DEF Kept, Exceptions
  <2> QED
    BY <1>2, <2>2, <2>4
<1>4. CASE ~Sendable(c)
  <2> DEFINE x == [kind |-> "store", of |-> r]  n == Len(commands')
  <2>0. x \in CommandType /\ x.kind = "store" /\ x.of = r
    BY DEF CommandType
  <2>1. /\ at' = [at EXCEPT ![r] = "storing"] /\ commands' = Append(commands, x)
        /\ UNCHANGED <<received, unheard>> /\ crossed \subseteq crossed'
        /\ overlap /\ AtHome => r \in crossed'
    BY <1>4 DEF Deliver, Issue
  <2>2. /\ Len(commands) \in Nat /\ n = Len(commands) + 1
        /\ DOMAIN commands = 1 .. Len(commands) /\ DOMAIN commands' = 1 .. n
        /\ \A i \in DOMAIN commands : commands'[i] = commands[i]
        /\ commands'[n] = x
    BY <2>0, <2>1, CommandIssued
  <2>3. AtHome => r \in crossed'
    BY <1>4, <2>1, OpenIsFound DEF AtHome
  <2>4. /\ \A i \in DOMAIN commands' :
              \/ i \in DOMAIN commands /\ commands'[i] = commands[i]
              \/ i = n /\ commands'[i] = x
        /\ \A i \in DOMAIN commands : i \in DOMAIN commands' /\ commands'[i] = commands[i]
    BY <2>2
  <2>5. \A i \in DOMAIN commands' : commands'[i].kind # "store" =>
            i \in DOMAIN commands /\ IsReplay(i) /\ commands'[i] = commands[i]
    BY <2>0, <2>4 DEF IsReplay
  <2>6. \A i \in DOMAIN commands : IsReplay(i) /\ ready[commands[i].of] = "open" => AtHome
    <3>1. ASSUME NEW i \in DOMAIN commands, IsReplay(i), ready[commands[i].of] = "open"
          PROVE  AtHome
      <4>1. commands[i] \in CommandType
        BY <3>1
      <4>2. commands[i].of \in Connections
        BY <3>1, <4>1 DEF IsReplay, CommandType
      <4> QED
        BY <3>1, <4>2 DEF CommandInv, HelloFirst, AtHome
    <3> QED
      BY <3>1
  <2>7. \A i \in DOMAIN commands : Safe(i) => Safe(i)'
    BY <2>1, <2>4 DEF Safe, IsReplay
  <2>8. AtHome => \A i \in DOMAIN commands' : Safe(i)' \/ (i \in DOMAIN commands /\ ~Safe(i))
    BY <2>0, <2>3, <2>4, <2>7 DEF Safe, IsReplay
  <2>9. HelloFirst' /\ OneReplay'
    <3>1. HelloFirst'
      BY <1>1, <2>5 DEF CommandInv, HelloFirst, IsReplay
    <3>2. OneReplay'
      BY <2>5 DEF CommandInv, OneReplay, IsReplay
    <3> QED
      BY <3>1, <3>2
  <2>10. StoresFirst'
    <3>1. ASSUME NEW i \in DOMAIN commands', NEW k \in DOMAIN commands',
                 commands'[i].kind = "read", ready'[commands'[i].of] = "open", k > i
          PROVE  Safe(k)'
      <4>1. /\ i \in DOMAIN commands /\ IsReplay(i) /\ commands'[i] = commands[i]
            /\ ready' = ready
        BY <1>1, <2>5, <3>1
      <4>2. AtHome
        BY <2>6, <3>1, <4>1
      <4>3. k \in DOMAIN commands => Safe(k)
        BY <3>1, <4>1 DEF CommandInv, StoresFirst
      <4> QED
        BY <2>8, <4>2, <4>3
    <3> QED
      BY <3>1 DEF StoresFirst
  <2>11. DelSaw'
    <3>1. ASSUME NEW i \in DOMAIN commands',
                 commands'[i].kind = "del", ready'[commands'[i].of] = "open"
          PROVE  /\ pending' \subseteq taken'[commands'[i].of] \cup crossed'
                 /\ \A k \in DOMAIN commands' : Safe(k)'
      <4>1. /\ i \in DOMAIN commands /\ IsReplay(i) /\ commands'[i] = commands[i]
            /\ UNCHANGED <<ready, pending, taken>>
        BY <1>1, <2>5, <3>1
      <4>2. AtHome
        BY <2>6, <3>1, <4>1
      <4>3. /\ pending \subseteq taken[commands[i].of] \cup crossed
            /\ \A k \in DOMAIN commands : Safe(k)
        BY <3>1, <4>1 DEF CommandInv, DelSaw
      <4> QED
        BY <2>1, <2>8, <4>1, <4>2, <4>3
    <3> QED
      BY <3>1 DEF DelSaw
  <2>12. Kept'
    BY <1>1, <2>1 DEF Kept, Exceptions
  <2>13. Quiet'
    <3>1. ASSUME NEW d \in Connections, peer'[d], authenticated'[d], ReplayOver(d)',
                 used'["fault"] = 0
          PROVE  pending' \subseteq crossed' /\ \A i \in DOMAIN commands' : Safe(i)'
      <4>1. UNCHANGED <<peer, ready, authenticated, pending, used>>
        BY <1>1
      <4>2. AtHome
        BY <3>1, <4>1 DEF AtHome, SocketInv, PeerIsOpen
      <4>3. ReplayOver(d)
        BY <2>4, <3>1 DEF ReplayOver, IsReplay
      <4>4. pending \subseteq crossed /\ \A i \in DOMAIN commands : Safe(i)
        BY <3>1, <4>1, <4>3 DEF Quiet
      <4> QED
        BY <2>1, <2>8, <4>1, <4>2, <4>4
    <3> QED
      BY <3>1 DEF Quiet
  <2> QED
    BY <1>2, <2>9, <2>10, <2>11, <2>12, <2>13 DEF CommandInv
<1> QED
  BY <1>3, <1>4
-----------------------------------------------------------------------------
\* A command that is done leaves the order of the others as it is.
LEMMA DoneKeeps ==
    ASSUME TypeOK, SocketInv, CommandInv, UNCHANGED <<peer, ready, authenticated, byPod, origin, overlap, crossed>>,
           commands # <<>>, commands' = Tail(commands)
    PROVE  /\ SocketInv' /\ HelloFirst' /\ OneReplay' /\ StoresFirst'
           /\ \A i \in DOMAIN commands' : /\ i + 1 \in DOMAIN commands
                                          /\ commands'[i] = commands[i + 1]
           /\ \A i \in DOMAIN commands : i # 1 => i - 1 \in DOMAIN commands'
           /\ 1 \in DOMAIN commands /\ Head(commands) = commands[1]
           /\ \A i \in DOMAIN commands' : i \in Nat /\ i + 1 # 1
<1> USE DEF TypeOK
<1>1. /\ Len(commands) \in Nat /\ Len(commands') = Len(commands) - 1
      /\ \A i \in DOMAIN commands' : commands'[i] = commands[i + 1]
      /\ 1 \in DOMAIN commands /\ Head(commands) = commands[1]
      /\ commands' \in Seq(CommandType)
  BY CommandDone
<1>2. DOMAIN commands = 1 .. Len(commands) /\ DOMAIN commands' = 1 .. Len(commands')
  BY <1>1
<1>3. /\ \A i \in DOMAIN commands' : i + 1 \in DOMAIN commands /\ i \in Nat /\ i + 1 # 1
      /\ \A i \in DOMAIN commands : i # 1 => i - 1 \in DOMAIN commands'
      /\ \A i, k \in DOMAIN commands' : k > i => k + 1 > i + 1
      /\ \A i, k \in DOMAIN commands' : i + 1 = k + 1 => i = k
  BY <1>1, <1>2
<1>4. SocketInv'
  BY DEF SocketInv, OneSocket, PeerIsOpen, HelloIsFound, OriginLives
<1>5. HelloFirst'
  BY <1>1, <1>3 DEF CommandInv, HelloFirst, IsReplay, Safe
<1>6. OneReplay'
  BY <1>1, <1>3 DEF CommandInv, OneReplay, IsReplay, Safe
<1>7. StoresFirst'
  BY <1>1, <1>3 DEF CommandInv, StoresFirst, IsReplay, Safe
<1> QED
  BY <1>1, <1>3, <1>4, <1>5, <1>6, <1>7

\* A store finds no socket whose replay is being sent, or is over, unless it is
\* that of a crossed response.
LEMMA StoreKeeps ==
    ASSUME RouteInv, Store
    PROVE  SocketInv' /\ CommandInv' /\ Kept' /\ Quiet'
<1> USE DEF RouteInv, TypeOK
<1>1. /\ UNCHANGED <<peer, ready, authenticated, byPod, origin, taken, received,
                     unheard, dropped, overlap, crossed>>
      /\ commands # <<>> /\ commands' = Tail(commands) /\ Head(commands).kind = "store"
      /\ Of \in Requests /\ pending' \in {pending, pending \cup {Of}}
  BY HeadType DEF Store, Next1, sockets, outcome, history
<1>2. /\ SocketInv' /\ HelloFirst' /\ OneReplay' /\ StoresFirst'
      /\ \A i \in DOMAIN commands' : i + 1 \in DOMAIN commands /\ commands'[i] = commands[i + 1]
      /\ \A i \in DOMAIN commands : i # 1 => i - 1 \in DOMAIN commands'
      /\ 1 \in DOMAIN commands /\ ~IsReplay(1) /\ commands[1].of = Of
  BY <1>1, DoneKeeps DEF IsReplay, Of
<1>3. \A i \in DOMAIN commands' : Safe(i + 1) => Safe(i)'
  BY <1>1, <1>2 DEF Safe, IsReplay
<1>4. Safe(1) => Of \in crossed
  BY <1>2 DEF Safe
<1>5. DelSaw'
  <2>1. ASSUME NEW i \in DOMAIN commands',
               commands'[i].kind = "del", ready'[commands'[i].of] = "open"
        PROVE  /\ pending' \subseteq taken'[commands'[i].of] \cup crossed'
               /\ \A k \in DOMAIN commands' : Safe(k)'
    <3>1. i + 1 \in DOMAIN commands /\ commands'[i] = commands[i + 1]
      BY <1>2
    <3>2. /\ pending \subseteq taken[commands[i + 1].of] \cup crossed
          /\ \A k \in DOMAIN commands : Safe(k)
      BY <1>1, <2>1, <3>1 DEF CommandInv, DelSaw
    <3>3. Of \in crossed
      BY <1>2, <1>4, <3>2
    <3> QED
      BY <1>1, <1>2, <1>3, <3>1, <3>2, <3>3
  <2> QED
    BY <2>1 DEF DelSaw
<1>6. /\ pending \subseteq pending'
      /\ \A r \in Requests : at'[r] = "answered" => at[r] = "answered" \/ r \in pending'
  BY <1>1 DEF Store
<1>7. Kept'
  BY <1>1, <1>6 DEF Kept, Exceptions
<1>8. Quiet'
  <2>1. UNCHANGED used \/ Spend("fault")
    BY DEF Store
  <2>2. used'["fault"] = 0 => used["fault"] = 0
    BY <2>1, NoFaultBefore DEF Kinds
  <2>3. \A c \in Connections : ReplayOver(c)' => ReplayOver(c)
    <3>1. ASSUME NEW c \in Connections, ReplayOver(c)',
                 NEW i \in DOMAIN commands, IsReplay(i)
          PROVE  commands[i].of # c
      <4>1. i # 1
        BY <1>2, <3>1
      <4>2. i - 1 \in DOMAIN commands' /\ i - 1 + 1 = i
        BY <1>2, <4>1
      <4>3. commands'[i - 1] = commands[i]
        BY <1>2, <4>2
      <4> QED
        BY <3>1, <4>2, <4>3 DEF ReplayOver, IsReplay
    <3> QED
      BY <3>1 DEF ReplayOver
  <2>4. ASSUME NEW c \in Connections, peer'[c], authenticated'[c], ReplayOver(c)',
               used'["fault"] = 0
        PROVE  pending' \subseteq crossed' /\ \A i \in DOMAIN commands' : Safe(i)'
    <3>1. pending \subseteq crossed /\ \A i \in DOMAIN commands : Safe(i)
      BY <1>1, <2>2, <2>3, <2>4 DEF Quiet
    <3>2. Of \in crossed
      BY <1>2, <1>4, <3>1
    <3> QED
      BY <1>1, <1>2, <1>3, <3>1, <3>2
  <2> QED
    BY <2>4 DEF Quiet
<1> QED
  BY <1>2, <1>5, <1>7, <1>8 DEF CommandInv

\* The replay of one connection has moved on; for the others nothing has changed.
LEMMA OthersReplay ==
    ASSUME TypeOK, SocketInv, CommandInv, UNCHANGED <<peer, ready, authenticated, byPod, origin, overlap, crossed>>,
           commands # <<>>, commands' = Tail(commands), Head(commands).kind # "store",
           NEW d, d # Of, ReplayOver(d)'
    PROVE  ReplayOver(d)
<1>1. /\ \A i \in DOMAIN commands' : commands'[i] = commands[i + 1]
      /\ \A i \in DOMAIN commands : i # 1 => i - 1 \in DOMAIN commands'
      /\ Head(commands) = commands[1]
      /\ DOMAIN commands = 1 .. Len(commands)
  BY DoneKeeps DEF TypeOK
<1>2. ASSUME NEW i \in DOMAIN commands, IsReplay(i) PROVE commands[i].of # d
  <2>1. CASE i = 1
    BY <1>1, <2>1 DEF Of
  <2>2. CASE i # 1
    <3>1. i - 1 \in DOMAIN commands' /\ i - 1 + 1 = i
      BY <1>1, <2>2
    <3>2. commands'[i - 1] = commands[i]
      BY <1>1, <3>1
    <3> QED
      BY <1>2, <3>1, <3>2 DEF ReplayOver, IsReplay, Safe
  <2> QED
    BY <2>1, <2>2
<1> QED
  BY <1>2 DEF ReplayOver
\* HGETALL: a del follows it only if no store can come in between.
LEMMA ReadKeeps ==
    ASSUME RouteInv, Read
    PROVE  SocketInv' /\ CommandInv' /\ Kept' /\ Quiet'
<1> USE DEF RouteInv, TypeOK
<1>0. Of \in Connections
  BY HeadType DEF Read, Next1
<1> PICK c \in Connections : c = Of
  BY <1>0
<1>1. /\ UNCHANGED <<peer, ready, authenticated, byPod, origin, at, pending, received,
                     unheard, dropped, overlap, crossed>>
      /\ commands # <<>> /\ Head(commands).kind = "read"
  BY DEF Read, Next1, sockets, outcome, history
<1>2. Kept'
  BY <1>1 DEF Kept, Exceptions
<1>3. taken' = taken \/ taken' = [taken EXCEPT ![c] = pending]
  BY DEF Read
<1>4. CASE commands' = Tail(commands)
  <2>1. /\ SocketInv' /\ HelloFirst' /\ OneReplay' /\ StoresFirst'
        /\ \A i \in DOMAIN commands' : i + 1 \in DOMAIN commands /\ commands'[i] = commands[i + 1]
        /\ 1 \in DOMAIN commands /\ Head(commands) = commands[1]
        /\ \A i \in DOMAIN commands' : i \in Nat /\ i + 1 > 1
    BY <1>1, <1>4, DoneKeeps
  <2>2. \A d \in Connections : pending \cap taken[d] \subseteq taken'[d]
    BY <1>1, <1>3
  <2>3. \A i \in DOMAIN commands : IsReplay(i) => commands[i].of \in Connections
    BY DEF IsReplay, Safe, CommandType
  <2>4. DelSaw'
    <3>1. ASSUME NEW i \in DOMAIN commands',
                 commands'[i].kind = "del", ready'[commands'[i].of] = "open"
          PROVE  /\ pending' \subseteq taken'[commands'[i].of] \cup crossed'
                 /\ \A k \in DOMAIN commands' : Safe(k)'
      <4>1. i + 1 \in DOMAIN commands /\ commands'[i] = commands[i + 1]
        BY <2>1
      <4>2. /\ pending \subseteq taken[commands[i + 1].of] \cup crossed
            /\ \A k \in DOMAIN commands : Safe(k)
        BY <1>1, <3>1, <4>1 DEF CommandInv, DelSaw
      <4>3. commands[i + 1].of \in Connections
        BY <2>3, <3>1, <4>1 DEF IsReplay
      <4> QED
        BY <1>1, <2>1, <2>2, <4>1, <4>2, <4>3 DEF IsReplay, Safe
    <3> QED
      BY <3>1 DEF DelSaw
  <2>5. Quiet'
    <3>1. ASSUME NEW d \in Connections, peer'[d], authenticated'[d], ReplayOver(d)',
                 used'["fault"] = 0
          PROVE  pending' \subseteq crossed' /\ \A i \in DOMAIN commands' : Safe(i)'
      <4>1. UNCHANGED used \/ Spend("fault")
        BY DEF Read
      <4>2. used["fault"] = 0 /\ ~Spend("fault")
        BY <3>1, <4>1, NoFaultBefore DEF Kinds
      <4>3. pending = {}
        <5>1. CASE pending # {}
          <6>1. commands' = Append(Tail(commands), [kind |-> "del", of |-> c])
            BY <4>2, <5>1 DEF Read, IssueNext
          <6>2. [kind |-> "del", of |-> c] \in CommandType
            BY <1>1 DEF CommandType
          <6>3. Len(commands') = Len(commands)
            BY <1>1, <6>1, <6>2, CommandFollowed
          <6>4. Len(commands') = Len(commands) - 1 /\ Len(commands) \in Nat
            BY <1>1, <1>4, CommandDone
          <6> QED
            BY <6>3, <6>4
        <5> QED
          BY <5>1
      <4>4. CASE d # c
        <5>1. ReplayOver(d)
          BY <1>1, <1>4, <3>1, <4>4, OthersReplay
        <5> QED
          BY <1>1, <2>1, <3>1, <4>2, <4>3, <5>1 DEF Quiet, IsReplay, Safe
      <4>5. CASE d = c
        <5>1. ready[commands[1].of] = "open" /\ commands[1].kind = "read"
          BY <1>1, <2>1, <3>1, <4>5 DEF SocketInv, PeerIsOpen, Of
        <5>2. \A k \in DOMAIN commands : k > 1 => Safe(k)
          BY <2>1, <5>1 DEF CommandInv, StoresFirst
        <5> QED
          BY <1>1, <2>1, <4>3, <5>2 DEF IsReplay, Safe
      <4> QED
        BY <4>4, <4>5
    <3> QED
      BY <3>1 DEF Quiet
  <2> QED
    BY <1>2, <2>1, <2>4, <2>5 DEF CommandInv
<1>5. CASE commands' # Tail(commands)
  <2> DEFINE x == [kind |-> "del", of |-> c]  n == Len(commands)
  <2>0. x \in CommandType /\ x.kind = "del" /\ x.of = c
    BY <1>1 DEF CommandType
  <2>1. /\ pending # {} /\ taken' = [taken EXCEPT ![c] = pending] /\ used' = used
        /\ commands' = Append(Tail(commands), x)
    BY <1>5 DEF Read, IssueNext
  <2>2. /\ n \in Nat /\ Len(commands') = n /\ commands' \in Seq(CommandType)
        /\ \A i \in 1 .. n - 1 : commands'[i] = commands[i + 1]
        /\ commands'[n] = x
        /\ 1 \in DOMAIN commands /\ Head(commands) = commands[1]
    BY <1>1, <2>0, <2>1, CommandFollowed
  <2>3. DOMAIN commands = 1 .. n /\ DOMAIN commands' = 1 .. n
    BY <2>2
  <2>4. \A i \in DOMAIN commands' :
            \/ i = n /\ commands'[i] = x
            \/ i < n /\ i + 1 \in DOMAIN commands /\ i + 1 # 1 /\ commands'[i] = commands[i + 1]
    BY <2>2, <2>3
  <2>5. commands[1].kind = "read" /\ commands[1].of = c /\ IsReplay(1)
    BY <1>1, <2>2 DEF Of, IsReplay, Safe
  <2>6. SocketInv'
    BY <1>1 DEF SocketInv, OneSocket, PeerIsOpen, HelloIsFound, OriginLives
  <2>7. HelloFirst'
    <3>1. ASSUME NEW i \in DOMAIN commands', IsReplay(i)', ready'[commands'[i].of] # "closed"
          PROVE  authenticated'[commands'[i].of]
      <4>1. CASE i = n
        BY <1>1, <2>0, <2>2, <2>5, <3>1, <4>1 DEF CommandInv, HelloFirst
      <4>2. CASE i # n
        BY <1>1, <2>4, <3>1, <4>2 DEF CommandInv, HelloFirst, IsReplay, Safe
      <4> QED
        BY <4>1, <4>2
    <3> QED
      BY <3>1 DEF HelloFirst
  <2>8. OneReplay'
    <3>1. ASSUME NEW i \in DOMAIN commands', NEW j \in DOMAIN commands',
                 IsReplay(i)', IsReplay(j)', commands'[i].of = commands'[j].of, i < j
          PROVE  FALSE
      <4>1. i < n /\ i + 1 \in DOMAIN commands /\ i + 1 # 1 /\ commands'[i] = commands[i + 1]
        BY <2>3, <2>4, <3>1
      <4>2. commands[i + 1].of # c
        BY <2>2, <2>5, <3>1, <4>1 DEF CommandInv, OneReplay, IsReplay, Safe
      <4>3. j < n /\ j + 1 \in DOMAIN commands /\ commands'[j] = commands[j + 1]
        BY <2>0, <2>4, <3>1, <4>1, <4>2
      <4>4. i + 1 = j + 1
        BY <3>1, <4>1, <4>3 DEF CommandInv, OneReplay, IsReplay, Safe
      <4> QED
        BY <2>3, <3>1, <4>4
    <3>2. \A i, j \in DOMAIN commands' : i < j \/ j < i \/ i = j
      BY <2>3
    <3>3. ASSUME NEW i \in DOMAIN commands', NEW j \in DOMAIN commands',
                 IsReplay(i)', IsReplay(j)', commands'[i].of = commands'[j].of
          PROVE  i = j
      BY <3>1, <3>2, <3>3
    <3> QED
      BY <3>3 DEF OneReplay
  <2>9. ready[c] = "open" => \A k \in DOMAIN commands' : Safe(k)'
    <3>1. ready[c] = "open" => \A k \in DOMAIN commands : k > 1 => Safe(k)
      BY <2>2, <2>5 DEF CommandInv, StoresFirst
    <3>2. \A k \in DOMAIN commands' : k < n => k + 1 > 1
      BY <2>3
    <3> QED
      BY <1>1, <2>0, <2>4, <3>1, <3>2 DEF IsReplay, Safe
  <2>10. StoresFirst'
    <3>1. ASSUME NEW i \in DOMAIN commands', NEW k \in DOMAIN commands',
                 commands'[i].kind = "read", ready'[commands'[i].of] = "open", k > i
          PROVE  Safe(k)'
      <4>1. i < n /\ i + 1 \in DOMAIN commands /\ commands'[i] = commands[i + 1]
        BY <2>0, <2>4, <3>1
      <4>2. CASE k = n
        BY <2>0, <2>2, <4>2 DEF IsReplay, Safe
      <4>3. CASE k < n
        <5>1. k + 1 \in DOMAIN commands /\ k + 1 > i + 1 /\ commands'[k] = commands[k + 1]
          BY <2>3, <2>4, <3>1, <4>3
        <5> QED
          BY <1>1, <3>1, <4>1, <5>1 DEF CommandInv, StoresFirst, IsReplay, Safe
      <4> QED
        BY <2>3, <4>2, <4>3
    <3> QED
      BY <3>1 DEF StoresFirst
  <2>11. DelSaw'
    <3>1. ASSUME NEW i \in DOMAIN commands',
                 commands'[i].kind = "del", ready'[commands'[i].of] = "open"
          PROVE  /\ pending' \subseteq taken'[commands'[i].of] \cup crossed'
                 /\ \A k \in DOMAIN commands' : Safe(k)'
      <4>1. CASE i = n
        BY <1>1, <2>0, <2>1, <2>2, <2>9, <3>1, <4>1
      <4>2. CASE i # n
        <5>1. i + 1 \in DOMAIN commands /\ i + 1 # 1 /\ commands'[i] = commands[i + 1]
          BY <2>4, <4>2
        <5>2. /\ pending \subseteq taken[commands[i + 1].of] \cup crossed
              /\ \A k \in DOMAIN commands : Safe(k)
          BY <1>1, <3>1, <5>1 DEF CommandInv, DelSaw
        <5>3. commands[i + 1].of # c
          BY <2>2, <2>5, <3>1, <5>1 DEF CommandInv, OneReplay, IsReplay, Safe
        <5>4. pending' \subseteq taken'[commands'[i].of] \cup crossed'
          <6>1. pending' = pending
            BY <1>1
          <6>2. commands[i + 1] \in CommandType
            BY <5>1
          <6>3. commands[i + 1].of \in Connections
            BY <3>1, <5>1, <6>2 DEF CommandType
          <6>4. \A e \in Connections : e # c => taken'[e] = taken[e]
            BY <2>1
          <6>5. taken'[commands[i + 1].of] = taken[commands[i + 1].of]
            BY <5>3, <6>3, <6>4
          <6> QED
            BY <1>1, <5>1, <5>2, <6>1, <6>5
        <5>5. \A k \in DOMAIN commands' : Safe(k)'
          BY <1>1, <2>0, <2>4, <5>2 DEF IsReplay, Safe
        <5> QED
          BY <5>4, <5>5
      <4> QED
        BY <4>1, <4>2
    <3> QED
      BY <3>1 DEF DelSaw
  <2>12. Quiet'
    <3>0. n \in DOMAIN commands' /\ commands'[n].kind # "store" /\ commands'[n].of = c
      BY <2>0, <2>2, <2>3
    <3>1. ~ReplayOver(c)'
      BY <3>0 DEF ReplayOver, IsReplay, Safe
    <3>2. ASSUME NEW d \in Connections, d # c, ReplayOver(d)' PROVE ReplayOver(d)
      <4>1. \A i \in DOMAIN commands : i = 1 \/ (i - 1 \in DOMAIN commands' /\ commands'[i - 1] = commands[i])
        BY <2>2, <2>3
      <4>2. ASSUME NEW i \in DOMAIN commands, IsReplay(i) PROVE commands[i].of # d
        <5>1. CASE i = 1
          BY <2>5, <3>2, <5>1
        <5>2. CASE i # 1
          <6>1. i - 1 \in DOMAIN commands' /\ commands'[i - 1] = commands[i]
            BY <4>1, <5>2
          <6> QED
            BY <3>2, <4>2, <6>1 DEF ReplayOver, IsReplay, Safe
        <5> QED
          BY <5>1, <5>2
      <4> QED
        BY <4>2 DEF ReplayOver
    <3>3. ASSUME NEW d \in Connections, peer'[d], authenticated'[d], ReplayOver(d)',
                 used'["fault"] = 0
          PROVE  pending' \subseteq crossed' /\ \A i \in DOMAIN commands' : Safe(i)'
      <4>1. d # c
        BY <3>1, <3>3
      <4>2. pending \subseteq crossed /\ \A i \in DOMAIN commands : Safe(i)
        BY <1>1, <2>1, <3>2, <3>3, <4>1 DEF Quiet
      <4> QED
        BY <1>1, <2>0, <2>4, <4>2 DEF IsReplay, Safe
    <3> QED
      BY <3>3 DEF Quiet
  <2> QED
    BY <1>2, <2>6, <2>7, <2>8, <2>10, <2>11, <2>12 DEF CommandInv
<1> QED
  BY <1>4, <1>5
\* DEL and the sends: an open socket gets all that is deleted.
LEMMA ReplayKeeps ==
    ASSUME RouteInv, Replay
    PROVE  SocketInv' /\ CommandInv' /\ Kept' /\ Quiet'
<1> USE DEF RouteInv, TypeOK
<1>0. Of \in Connections
  BY HeadType DEF Replay, Next1
<1> PICK c \in Connections : c = Of
  BY <1>0
<1>1. /\ UNCHANGED <<peer, ready, authenticated, byPod, origin, at, overlap, crossed>>
      /\ commands # <<>> /\ commands' = Tail(commands) /\ Head(commands).kind = "del"
      /\ taken' = [taken EXCEPT ![c] = {}]
      /\ pending' \subseteq pending
  BY DEF Replay, Next1, sockets, Cleared
<1>2. /\ SocketInv' /\ HelloFirst' /\ OneReplay' /\ StoresFirst'
      /\ \A i \in DOMAIN commands' : i + 1 \in DOMAIN commands /\ commands'[i] = commands[i + 1]
      /\ 1 \in DOMAIN commands /\ Head(commands) = commands[1]
      /\ \A i \in DOMAIN commands' : i + 1 # 1
  BY <1>1, DoneKeeps
<1>3. commands[1].kind = "del" /\ commands[1].of = c
  BY <1>1, <1>2 DEF Of
<1>4. ready[c] = "open" => pending \subseteq taken[c] \cup crossed /\ \A k \in DOMAIN commands : Safe(k)
  BY <1>2, <1>3 DEF CommandInv, DelSaw
<1>5. DelSaw'
  <2>1. ASSUME NEW i \in DOMAIN commands',
               commands'[i].kind = "del", ready'[commands'[i].of] = "open"
        PROVE  /\ pending' \subseteq taken'[commands'[i].of] \cup crossed'
               /\ \A k \in DOMAIN commands' : Safe(k)'
    <3>1. i + 1 \in DOMAIN commands /\ i + 1 # 1 /\ commands'[i] = commands[i + 1]
      BY <1>2
    <3>2. /\ pending \subseteq taken[commands[i + 1].of] \cup crossed
          /\ \A k \in DOMAIN commands : Safe(k)
      BY <1>1, <2>1, <3>1 DEF CommandInv, DelSaw
    <3>3. commands[i + 1].of # c
      <4>1. IsReplay(1) /\ IsReplay(i + 1)
        BY <1>3, <2>1, <3>1 DEF IsReplay
      <4>2. commands[1].of = c /\ 1 \in DOMAIN commands
        BY <1>2, <1>3
      <4> QED
        BY <3>1, <4>1, <4>2 DEF CommandInv, OneReplay
    <3>4. taken'[commands[i + 1].of] = taken[commands[i + 1].of]
      <4>1. commands[i + 1] \in CommandType
        BY <3>1
      <4>2. commands[i + 1].of \in Connections
        BY <2>1, <3>1, <4>1 DEF CommandType
      <4> QED
        BY <1>1, <3>3, <4>2
    <3>5. pending' \subseteq taken'[commands'[i].of] \cup crossed'
      BY <1>1, <3>1, <3>2, <3>4
    <3>6. \A k \in DOMAIN commands' : Safe(k + 1) => Safe(k)'
      BY <1>1, <1>2 DEF IsReplay, Safe
    <3>7. \A k \in DOMAIN commands' : Safe(k)'
      BY <1>2, <3>2, <3>6
    <3> QED
      BY <3>5, <3>7
  <2> QED
    BY <2>1 DEF DelSaw
<1>6. Kept'
  <2>1. \/ ready[c] = "open" /\ Arrive(taken[c], c) /\ dropped' = dropped
        \/ /\ UNCHANGED <<received, unheard>>
           /\ pending \subseteq pending' \cup dropped' /\ dropped \subseteq dropped'
    BY DEF Replay, Cleared, Sendable
  <2>2. CASE ready[c] = "open" /\ Arrive(taken[c], c) /\ dropped' = dropped
    <3>1. \A r \in Requests : /\ received[r] \in Nat /\ received'[r] \in Nat
                              /\ received'[r] >= received[r]
                              /\ r \in taken[c] => received'[r] > 0 \/ r \in unheard'
                              /\ r \in unheard => r \in unheard'
      BY <2>2 DEF Arrive
    <3> QED
      BY <1>1, <1>4, <2>2, <3>1 DEF Kept, Exceptions
  <2>3. CASE /\ UNCHANGED <<received, unheard>>
             /\ pending \subseteq pending' \cup dropped' /\ dropped \subseteq dropped'
    BY <1>1, <2>3 DEF Kept, Exceptions
  <2> QED
    BY <2>1, <2>2, <2>3
<1>7. Quiet'
  <2>1. ASSUME NEW d \in Connections, peer'[d], authenticated'[d], ReplayOver(d)',
               used'["fault"] = 0
        PROVE  pending' \subseteq crossed' /\ \A i \in DOMAIN commands' : Safe(i)'
    <3>1. UNCHANGED used \/ Spend("fault")
      BY DEF Replay
    <3>2. used["fault"] = 0 /\ ~Spend("fault")
      BY <2>1, <3>1, NoFaultBefore DEF Kinds
    <3>3. pending' = {}
      BY <3>2 DEF Replay, Cleared
    <3>4. \A i \in DOMAIN commands : Safe(i)
      <4>1. CASE d = c
        BY <1>1, <1>4, <2>1, <4>1 DEF SocketInv, PeerIsOpen
      <4>2. CASE d # c
        <5>1. ReplayOver(d)
          BY <1>1, <2>1, <4>2, OthersReplay
        <5> QED
          BY <1>1, <2>1, <3>2, <5>1 DEF Quiet
      <4> QED
        BY <4>1, <4>2
    <3> QED
      BY <1>1, <1>2, <3>3, <3>4 DEF IsReplay, Safe
  <2> QED
    BY <2>1 DEF Quiet
<1> QED
  BY <1>2, <1>5, <1>6, <1>7 DEF CommandInv

\* A crash closes every socket and ends every replay.
LEMMA CrashKeeps ==
    ASSUME RouteInv, Crash
    PROVE  SocketInv' /\ CommandInv' /\ Kept' /\ Quiet'
<1>1. /\ \A c \in Connections : ready'[c] = "closed" /\ ~peer'[c]
      /\ \A r \in Requests : origin'[r] = None
      /\ DOMAIN commands' = {}
      /\ \A r \in Requests : at'[r] = "answered" => at[r] = "answered"
      /\ UNCHANGED <<pending, received, unheard, dropped, crossed>> /\ ~overlap'
  BY DEF Crash, outcome, RouteInv, TypeOK
<1>2. SocketInv'
  BY <1>1 DEF SocketInv, OneSocket, PeerIsOpen, HelloIsFound, OriginLives
<1>3. CommandInv'
  BY <1>1 DEF CommandInv, HelloFirst, OneReplay, StoresFirst, DelSaw
<1>4. Kept' /\ Quiet'
  BY <1>1 DEF RouteInv, Kept, Exceptions, Quiet
<1> QED
  BY <1>2, <1>3, <1>4

LEMMA RouteInit == Init => RouteInv
<1> SUFFICES ASSUME Init PROVE RouteInv
  OBVIOUS
<1>1. TypeOK
  BY TypeInit
<1>2. DOMAIN commands = {}
  BY DEF Init
<1>3. SocketInv
  BY DEF Init, SocketInv, OneSocket, PeerIsOpen, HelloIsFound, OriginLives
<1>4. CommandInv
  BY <1>2 DEF CommandInv, HelloFirst, OneReplay, StoresFirst, DelSaw
<1>5. Kept /\ Quiet
  BY DEF Init, Kept, Quiet
<1> QED
  BY <1>1, <1>3, <1>4, <1>5 DEF RouteInv

LEMMA RouteNext == RouteInv /\ [Next]_vars => RouteInv'
<1> SUFFICES ASSUME RouteInv, [Next]_vars PROVE RouteInv'
  OBVIOUS
<1>1. TypeOK'
  BY TypeNext DEF RouteInv
<1>2. SocketInv' /\ CommandInv' /\ Kept' /\ Quiet'
  <2>1. CASE UNCHANGED vars
    BY <2>1 DEF vars, sockets, redis, outcome, history, RouteInv, SocketInv, OneSocket, PeerIsOpen,
                HelloIsFound, OriginLives, CommandInv, HelloFirst, OneReplay, StoresFirst,
                DelSaw, IsReplay, Safe, Kept, Exceptions, Quiet, ReplayOver
  <2>2. CASE \E c \in Connections : Socket(c) \/ \E r \in Requests : Call(r, c)
    BY <2>2, ConnectKeeps, HelloKeeps, LeavesKeeps, DisconnectKeeps, CallKeeps DEF Socket
  <2>3. CASE \E r \in Requests : Deliver(r)
    BY <2>3, DeliverKeeps
  <2>4. CASE Execute
    BY <2>4, StoreKeeps, ReadKeeps, ReplayKeeps DEF Execute
  <2>5. CASE Crash
    BY <2>5, CrashKeeps
  <2> QED
    BY <2>1, <2>2, <2>3, <2>4, <2>5 DEF Next
<1> QED
  BY <1>1, <1>2 DEF RouteInv

\* Once a request is acknowledged its response is with the POD or in Redis, but for
\* what was sent on a socket that was dead unnoticed, what a replay whose socket or
\* DEL failed has taken out of Redis, and what an old socket left there while a newer
\* one was open, whatever commandClient's commands are up to.
THEOREM ResponsesKept == Spec => []Kept
<1>1. Init => RouteInv
  BY RouteInit
<1>2. RouteInv /\ [Next]_vars => RouteInv'
  BY RouteNext
<1>3. RouteInv => Kept
  BY DEF RouteInv
<1> QED
  BY <1>1, <1>2, <1>3, PTL DEF Spec

\* As long as no command of commandClient fails, nothing waits in Redis for a POD
\* that is connected and whose replay is over, but what an older socket of its left
\* there while this one was open.
THEOREM NothingStranded == Spec => []NoneStranded
<1>1. Init => RouteInv
  BY RouteInit
<1>2. RouteInv /\ [Next]_vars => RouteInv'
  BY RouteNext
<1>3. RouteInv => NoneStranded
  BY DEF RouteInv, Quiet, NoneStranded, Idle, ReplayOver
<1> QED
  BY <1>1, <1>2, <1>3, PTL DEF Spec
=============================================================================
