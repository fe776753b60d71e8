----------------------- MODULE RelayListenerProofs -----------------------
(***************************************************************************)
(* Theorems about RelayListener, for any clients and any ceiling.          *)
(*                                                                         *)
(* Slots and the active counter are both counts of connections, and what   *)
(* moves them is decided by flags of a connection (released, closed) and   *)
(* by where its closers are. StageInv ties these to the connection's       *)
(* stage; with it every step that moves a counter moves the set it counts  *)
(* by the same connection.                                                 *)
(***************************************************************************)
EXTENDS RelayListener, FiniteSetTheorems, TLAPS

\* Connections that activeConn counts.
Counted == {c \in Conns : conn[c] \in {"serving", "released"} /\ c \notin closed}

\* What the flags of a connection say of its stage.
StageInv ==
    /\ acc = "deliver" => \E c \in Conns : cur = {c}
    /\ acc # "deliver" => cur = {}
    /\ \A c \in Conns : conn[c] = "accepted" <=> c \in cur
    /\ \A c \in released : conn[c] \in {"serving", "released", "gone"}
    /\ \A c \in closed : ~zeroCopy /\ conn[c] = "serving"
    /\ \A c \in Conns : \A i \in Closers : closer[c][i] # "idle" => c \in closed
    /\ ~zeroCopy => \A c \in Conns : conn[c] \notin {"released", "gone"}
    /\ \A c \in rawOpen : conn[c] \in {"accepted", "serving", "released", "gone"}
    /\ ~zeroCopy => released \subseteq closed \ rawOpen
    /\ \A c \in Conns : \A i \in Closers : closer[c][i] \in {"once", "end"} => c \notin rawOpen

IInv == TypeOK /\ StageInv /\ SlotsAccounted /\ ActiveExact

-----------------------------------------------------------------------------
(* Sets that grow or shrink by one connection.                             *)

LEMMA Facts == /\ IsFiniteSet(Conns) /\ MaxConns \in Nat \ {0}
  BY ListenerAssumption

LEMMA FinitePart ==
  ASSUME NEW S \in SUBSET Conns
  PROVE  IsFiniteSet(S) /\ Cardinality(S) \in Nat
  BY Facts, FS_Subset, FS_CardinalityType

LEMMA Grows ==
  ASSUME NEW S \in SUBSET Conns, NEW c \in Conns, c \notin S
  PROVE  Cardinality(S \cup {c}) = Cardinality(S) + 1
  BY FinitePart, FS_AddElement

LEMMA Shrinks ==
  ASSUME NEW S \in SUBSET Conns, NEW c \in S
  PROVE  /\ Cardinality(S \ {c}) = Cardinality(S) - 1
         /\ Cardinality(S) > 0
<1>1. Cardinality(S \ {c}) = Cardinality(S) - 1
  BY FinitePart, FS_RemoveElement
<1>2. Cardinality(S \ {c}) \in Nat
  BY FinitePart
<1> QED
  BY <1>1, <1>2, FinitePart

LEMMA Parts == Holding \in SUBSET Conns /\ Counted \in SUBSET Conns
  BY DEF Holding, Counted

LEMMA Initially == Init => IInv
<1> SUFFICES ASSUME Init PROVE IInv
  OBVIOUS
<1>1. Holding = {} /\ Counted = {}
  BY DEF Init, Holding, Counted
<1>2. TypeOK
  <2>1. sem \in 0..MaxConns /\ active \in Int /\ total \in Nat
    BY Facts DEF Init
  <2> QED
    BY <2>1 DEF Init, TypeOK, Stages, Ends, Copies
<1>3. StageInv
  <2>1. /\ cur = {} /\ acc = "acquire" /\ released = {} /\ closed = {} /\ rawOpen = {}
        /\ \A c \in Conns : conn[c] = "new" /\ \A i \in Closers : closer[c][i] = "idle"
    BY DEF Init
  <2> QED
    BY <2>1 DEF StageInv
<1>4. SlotsAccounted /\ ActiveExact
  <2>1. sem = 0 /\ acc = "acquire" /\ active = 0
    BY DEF Init
  <2> QED
    BY <1>1, <2>1, FS_EmptySet DEF SlotsAccounted, ActiveExact, Counted
<1> QED
  BY <1>2, <1>3, <1>4 DEF IInv

\* The steps of a bridge: they move no slot and no counter.
Bridging ==
    \E c \in Conns : \/ Dials(c) \/ DialFails(c)
                     \/ \E e \in Ends : PeerEnds(c, e)
                     \/ \E d \in Copies : CopyEnds(c, d)

-----------------------------------------------------------------------------
(* Each action keeps StageInv.                                             *)

LEMMA StageStep == TypeOK /\ StageInv /\ [Next]_vars => StageInv'
<1> SUFFICES ASSUME TypeOK, StageInv, [Next]_vars PROVE StageInv'
  OBVIOUS
<1> USE DEF TypeOK, StageInv, listener, stopping, loop, sockets, metrics, tunnel
<1>1. ASSUME NEW c \in Conns, Connect(c) PROVE StageInv'
  BY <1>1 DEF Connect, Stages
<1>2. CASE AcceptLoop
  <2>1. CASE AcquireSlot \/ AcquireClosed \/ Normalise \/ OnError \/ Wake \/ AcceptFails
    BY <2>1 DEF AcquireSlot, AcquireClosed, Normalise, OnError, Wake, AcceptFails
  <2>2. ASSUME NEW c \in Conns, AcceptReturns(c) PROVE StageInv'
    BY <2>2 DEF AcceptReturns, Stages
  <2>3. CASE Spawn
    BY <2>3 DEF Spawn, Stages
  <2> QED
    BY <1>2, <2>1, <2>2, <2>3 DEF AcceptLoop
<1>3. CASE AcceptFails
  BY <1>3 DEF AcceptFails
<1>4. ASSUME NEW c \in Conns, NEW i \in Closers, BeginClose(c, i) PROVE StageInv'
  BY <1>4 DEF BeginClose, Stages, Closers
<1>5. ASSUME NEW c \in Conns, NEW i \in Closers, CloseRaw(c, i) PROVE StageInv'
  BY <1>5 DEF CloseRaw, Stages, Closers
<1>6. ASSUME NEW c \in Conns, NEW i \in Closers, CloseReleases(c, i) PROVE StageInv'
  BY <1>6 DEF CloseReleases, Stages, Closers
<1>7. ASSUME NEW c \in Conns, HandlerCloses(c) PROVE StageInv'
  BY <1>7 DEF HandlerCloses
<1>8. ASSUME NEW c \in Conns, HandlerReleases(c) PROVE StageInv'
  BY <1>8 DEF HandlerReleases, Stages
<1>9. ASSUME NEW c \in Conns, HandlerUncounts(c) PROVE StageInv'
  BY <1>9 DEF HandlerUncounts, Stages
<1>10. CASE CloseStop \/ CloseDone
  BY <1>10 DEF CloseStop, CloseDone
<1>11. CASE CloseSocket
  BY <1>11 DEF CloseSocket, Stages
<1>12. CASE UNCHANGED vars
  BY <1>12 DEF vars
<1>13. CASE Bridging
  BY <1>13 DEF Bridging, Dials, DialFails, PeerEnds, CopyEnds
<1> HIDE DEF TypeOK, StageInv, listener, stopping, loop, sockets, metrics, tunnel
<1> QED
  BY <1>1, <1>2, <1>3, <1>4, <1>5, <1>6, <1>7, <1>8, <1>9, <1>10, <1>11, <1>12, <1>13
  DEF Next, Dialling, Bridging, Closing, HandlerEnds, Stop, Settled, Closers

-----------------------------------------------------------------------------
(* The sets that are counted, step by step: each either stays, or grows or *)
(* shrinks by one connection.                                              *)

Joins(S, T, c) == c \notin S /\ T = S \cup {c}
Leaves(S, T, c) == c \in S /\ T = S \ {c}

LEMMA JoinCounts ==
  ASSUME NEW S \in SUBSET Conns, NEW T \in SUBSET Conns, NEW c \in Conns, Joins(S, T, c)
  PROVE  Cardinality(T) = Cardinality(S) + 1
  BY Grows DEF Joins

LEMMA LeaveCounts ==
  ASSUME NEW S \in SUBSET Conns, NEW T \in SUBSET Conns, NEW c \in Conns, Leaves(S, T, c)
  PROVE  Cardinality(T) = Cardinality(S) - 1 /\ Cardinality(S) > 0
  BY Shrinks DEF Leaves

\* The connections that hold a slot, the accept loop and the semaphore move
\* together; a connection that has released never holds one again.
SlotMoves ==
    \/ /\ Holding' = Holding /\ released' = released
       /\ sem' = sem /\ (acc = "accept" <=> acc' = "accept")
    \/ /\ Holding' = Holding /\ released' = released
       /\ acc # "accept" /\ acc' = "accept" /\ sem' = sem + 1 /\ sem < MaxConns
    \/ /\ Holding' = Holding /\ released' = released
       /\ acc = "accept" /\ acc' # "accept" /\ sem' = sem - 1
    \/ /\ \E c \in Conns : c \notin released /\ Joins(Holding, Holding', c)
       /\ released' = released
       /\ sem' = sem /\ acc = "accept" /\ acc' # "accept"
    \/ /\ \E c \in Conns : Leaves(Holding, Holding', c) /\ released' = released \cup {c}
       /\ sem' = sem - 1 /\ (acc = "accept" <=> acc' = "accept")

LEMMA SlotStep == TypeOK /\ StageInv /\ [Next]_vars => SlotMoves
<1> SUFFICES ASSUME TypeOK, StageInv, [Next]_vars PROVE SlotMoves
  OBVIOUS
<1> USE DEF TypeOK, StageInv, listener, stopping, loop, sockets, metrics, tunnel, Holding, SlotMoves
<1>1. ASSUME NEW c \in Conns, Connect(c) PROVE SlotMoves
  BY <1>1 DEF Connect, Stages
<1>2. CASE AcquireSlot
  BY <1>2 DEF AcquireSlot
<1>3. CASE AcquireClosed \/ Normalise \/ OnError \/ Wake
  BY <1>3 DEF AcquireClosed, Normalise, OnError, Wake
<1>4. CASE AcceptFails
  BY <1>4 DEF AcceptFails
<1>5. ASSUME NEW c \in Conns, AcceptReturns(c) PROVE SlotMoves
  <2>1. c \notin released /\ Joins(Holding, Holding', c)
    BY <1>5 DEF AcceptReturns, Stages, Joins
  <2> QED
    BY <1>5, <2>1 DEF AcceptReturns
<1>6. CASE Spawn
  BY <1>6 DEF Spawn, Stages
<1>7. ASSUME NEW c \in Conns, NEW i \in Closers, BeginClose(c, i) \/ CloseRaw(c, i)
      PROVE  SlotMoves
  BY <1>7 DEF BeginClose, CloseRaw
<1>8. ASSUME NEW c \in Conns, NEW i \in Closers, CloseReleases(c, i) PROVE SlotMoves
  <2>1. c \in closed
    BY <1>8 DEF CloseReleases
  <2>2. conn[c] = "serving" /\ conn' = conn /\ acc' = acc
    BY <1>8, <2>1 DEF CloseReleases
  <2>3. CASE c \in released
    <3>1. released' = released /\ sem' = sem
      BY <1>8, <2>3 DEF CloseReleases
    <3> QED
      BY <2>2, <3>1
  <2>4. CASE c \notin released
    <3>1. released' = released \cup {c} /\ sem' = sem - 1
      BY <1>8, <2>4 DEF CloseReleases
    <3>2. Leaves(Holding, Holding', c)
      BY <2>2, <2>4, <3>1 DEF Leaves
    <3> QED
      BY <2>2, <3>1, <3>2
  <2> QED
    BY <2>3, <2>4
<1>9. ASSUME NEW c \in Conns, HandlerCloses(c) \/ HandlerUncounts(c) PROVE SlotMoves
  BY <1>9 DEF HandlerCloses, HandlerUncounts, Stages
<1>10. ASSUME NEW c \in Conns, HandlerReleases(c) PROVE SlotMoves
  <2>1. CASE c \in released
    BY <1>10, <2>1 DEF HandlerReleases, Stages
  <2>2. CASE c \notin released
    <3>1. Leaves(Holding, Holding', c)
      BY <1>10, <2>2 DEF HandlerReleases, Stages, Leaves
    <3> QED
      BY <1>10, <2>2, <3>1 DEF HandlerReleases
  <2> QED
    BY <2>1, <2>2
<1>11. CASE CloseStop \/ CloseDone
  BY <1>11 DEF CloseStop, CloseDone
<1>12. CASE CloseSocket
  BY <1>12 DEF CloseSocket, Stages
<1>13. CASE UNCHANGED vars
  BY <1>13 DEF vars
<1>14. CASE Bridging
  BY <1>14 DEF Bridging, Dials, DialFails, PeerEnds, CopyEnds
<1> HIDE DEF TypeOK, StageInv, listener, stopping, loop, sockets, metrics, tunnel, Holding, SlotMoves
<1> QED
  BY <1>1, <1>2, <1>3, <1>4, <1>5, <1>6, <1>7, <1>8, <1>9, <1>10, <1>11, <1>12, <1>13, <1>14
  DEF Next, AcceptLoop, Dialling, Bridging, Closing, HandlerEnds, Stop, Settled, Closers

\* The same for activeConn.
CountMoves ==
    \/ Counted' = Counted /\ active' = active
    \/ \E c \in Conns : Joins(Counted, Counted', c) /\ active' = active + 1
    \/ \E c \in Conns : Leaves(Counted, Counted', c) /\ active' = active - 1

LEMMA CountStep == TypeOK /\ StageInv /\ [Next]_vars => CountMoves
<1> SUFFICES ASSUME TypeOK, StageInv, [Next]_vars PROVE CountMoves
  OBVIOUS
<1> USE DEF TypeOK, StageInv, listener, stopping, loop, sockets, metrics, tunnel, Counted, CountMoves
<1>1. ASSUME NEW c \in Conns, Connect(c) \/ AcceptReturns(c) PROVE CountMoves
  BY <1>1 DEF Connect, AcceptReturns, Stages
<1>2. CASE AcquireSlot \/ AcquireClosed \/ AcceptFails \/ Normalise \/ OnError \/ Wake
  BY <1>2 DEF AcquireSlot, AcquireClosed, AcceptFails, Normalise, OnError, Wake
<1>3. CASE Spawn
  <2>1. PICK c \in Conns : cur = {c}
    BY <1>3 DEF Spawn
  <2>2. Joins(Counted, Counted', c)
    BY <1>3, <2>1 DEF Spawn, Stages, Joins
  <2> QED
    BY <1>3, <2>2 DEF Spawn
<1>4. ASSUME NEW c \in Conns, NEW i \in Closers, BeginClose(c, i) PROVE CountMoves
  <2>1. CASE c \in closed
    <3>1. closed' = closed /\ conn' = conn /\ active' = active
      BY <1>4, <2>1 DEF BeginClose
    <3> QED
      BY <3>1
  <2>2. CASE c \notin closed
    <3>1. closed' = closed \cup {c} /\ conn' = conn /\ active' = active - 1
      BY <1>4, <2>2 DEF BeginClose
    <3>2. Leaves(Counted, Counted', c)
      BY <1>4, <2>2, <3>1 DEF BeginClose, Leaves
    <3> QED
      BY <3>1, <3>2
  <2> QED
    BY <2>1, <2>2
<1>5. ASSUME NEW c \in Conns, NEW i \in Closers, CloseRaw(c, i) \/ CloseReleases(c, i)
      PROVE  CountMoves
  BY <1>5 DEF CloseRaw, CloseReleases
<1>6. ASSUME NEW c \in Conns, HandlerCloses(c) \/ HandlerReleases(c) PROVE CountMoves
  BY <1>6 DEF HandlerCloses, HandlerReleases, Stages
<1>7. ASSUME NEW c \in Conns, HandlerUncounts(c) PROVE CountMoves
  <2>1. Leaves(Counted, Counted', c)
    BY <1>7 DEF HandlerUncounts, Stages, Leaves
  <2> QED
    BY <1>7, <2>1 DEF HandlerUncounts
<1>8. CASE CloseStop \/ CloseDone
  BY <1>8 DEF CloseStop, CloseDone
<1>9. CASE CloseSocket
  BY <1>9 DEF CloseSocket, Stages
<1>10. CASE UNCHANGED vars
  BY <1>10 DEF vars
<1>11. CASE Bridging
  BY <1>11 DEF Bridging, Dials, DialFails, PeerEnds, CopyEnds
<1> HIDE DEF TypeOK, StageInv, listener, stopping, loop, sockets, metrics, tunnel, Counted, CountMoves
<1> QED
  BY <1>1, <1>2, <1>3, <1>4, <1>5, <1>6, <1>7, <1>8, <1>9, <1>10, <1>11
  DEF Next, AcceptLoop, Dialling, Bridging, Closing, HandlerEnds, Stop, Settled, Closers

-----------------------------------------------------------------------------
(* The counters, from the sets.                                            *)

LEMMA SlotsStep ==
  ASSUME IInv, [Next]_vars
  PROVE  SlotsAccounted' /\ sem' \in 0..MaxConns
<1> USE DEF IInv, SlotsAccounted
<1>1. SlotMoves
  BY SlotStep
<1>2. Holding \in SUBSET Conns /\ Holding' \in SUBSET Conns
  BY DEF Holding
<1>3. Cardinality(Holding) \in Nat /\ sem \in 0..MaxConns /\ MaxConns \in Nat
  BY <1>2, FinitePart, Facts DEF TypeOK
<1>4. CASE Holding' = Holding /\ sem' = sem /\ (acc = "accept" <=> acc' = "accept")
  BY <1>3, <1>4
<1>5. CASE Holding' = Holding /\ acc # "accept" /\ acc' = "accept" /\ sem' = sem + 1 /\ sem < MaxConns
  BY <1>3, <1>5
<1>6. CASE Holding' = Holding /\ acc = "accept" /\ acc' # "accept" /\ sem' = sem - 1
  BY <1>3, <1>6
<1>7. ASSUME NEW c \in Conns, Joins(Holding, Holding', c), sem' = sem, acc = "accept", acc' # "accept"
      PROVE  SlotsAccounted' /\ sem' \in 0..MaxConns
  <2>1. Cardinality(Holding') = Cardinality(Holding) + 1
    BY <1>2, <1>7, JoinCounts
  <2> QED
    BY <1>3, <1>7, <2>1
<1>8. ASSUME NEW c \in Conns, Leaves(Holding, Holding', c), sem' = sem - 1,
             acc = "accept" <=> acc' = "accept"
      PROVE  SlotsAccounted' /\ sem' \in 0..MaxConns
  <2>1. Cardinality(Holding') = Cardinality(Holding) - 1 /\ Cardinality(Holding) > 0
    BY <1>2, <1>8, LeaveCounts
  <2> QED
    BY <1>3, <1>8, <2>1
<1> QED
  BY <1>1, <1>4, <1>5, <1>6, <1>7, <1>8 DEF SlotMoves

LEMMA ActiveStep ==
  ASSUME IInv, [Next]_vars
  PROVE  ActiveExact' /\ active' \in Int
<1> USE DEF IInv
<1>1. CountMoves
  BY CountStep
<1>2. Counted \in SUBSET Conns /\ Counted' \in SUBSET Conns
  BY DEF Counted
<1>3. Cardinality(Counted) \in Nat /\ active = Cardinality(Counted)
  BY <1>2, FinitePart DEF ActiveExact, Counted
<1>4. active' = Cardinality(Counted')
  <2>1. CASE Counted' = Counted /\ active' = active
    BY <1>3, <2>1
  <2>2. ASSUME NEW c \in Conns, Joins(Counted, Counted', c), active' = active + 1
        PROVE  active' = Cardinality(Counted')
    BY <1>2, <1>3, <2>2, JoinCounts
  <2>3. ASSUME NEW c \in Conns, Leaves(Counted, Counted', c), active' = active - 1
        PROVE  active' = Cardinality(Counted')
    BY <1>2, <1>3, <2>3, LeaveCounts
  <2> QED
    BY <1>1, <2>1, <2>2, <2>3 DEF CountMoves
<1>5. Cardinality(Counted') \in Nat
  BY <1>2, FinitePart
<1> QED
  BY <1>4, <1>5 DEF ActiveExact, Counted

LEMMA TypeStep ==
  ASSUME IInv, [Next]_vars
  PROVE  TypeOK'
<1>1. sem' \in 0..MaxConns /\ active' \in Int
  BY SlotsStep, ActiveStep
<1> USE DEF IInv, TypeOK, listener, stopping, loop, sockets, metrics, tunnel
<1>2. CASE UNCHANGED vars
  BY <1>1, <1>2 DEF vars
<1>3. ASSUME NEW c \in Conns, Connect(c) \/ AcceptReturns(c) \/ HandlerCloses(c)
                              \/ HandlerReleases(c) \/ HandlerUncounts(c)
      PROVE  TypeOK'
  BY <1>1, <1>3
  DEF Connect, AcceptReturns, HandlerCloses, HandlerReleases, HandlerUncounts, Stages
<1>4. ASSUME NEW c \in Conns, NEW i \in Closers,
             BeginClose(c, i) \/ CloseRaw(c, i) \/ CloseReleases(c, i)
      PROVE  TypeOK'
  <2>1. BeginClose(c, i) => closer' \in [Conns -> [Closers -> {"idle", "raw", "once", "end"}]]
    BY <1>4 DEF BeginClose
  <2>2. CloseRaw(c, i) => closer' \in [Conns -> [Closers -> {"idle", "raw", "once", "end"}]]
    BY <1>4 DEF CloseRaw
  <2>3. CloseReleases(c, i) => closer' \in [Conns -> [Closers -> {"idle", "raw", "once", "end"}]]
    BY <1>4 DEF CloseReleases
  <2>4. CASE BeginClose(c, i)
    BY <1>1, <2>1, <2>4 DEF BeginClose
  <2>5. CASE CloseRaw(c, i)
    BY <1>1, <2>2, <2>5 DEF CloseRaw
  <2>6. CASE CloseReleases(c, i)
    BY <1>1, <2>3, <2>6 DEF CloseReleases
  <2> QED
    BY <1>4, <2>4, <2>5, <2>6
<1>5. CASE AcquireSlot \/ AcquireClosed \/ AcceptFails \/ Normalise \/ OnError \/ Wake
  BY <1>1, <1>5 DEF AcquireSlot, AcquireClosed, AcceptFails, Normalise, OnError, Wake
<1>6. CASE Spawn
  BY <1>1, <1>6 DEF Spawn, Stages
<1>7. CASE CloseStop \/ CloseDone \/ CloseSocket
  <2>1. CASE CloseStop
    BY <1>1, <2>1 DEF CloseStop
  <2>2. CASE CloseDone
    BY <1>1, <2>2 DEF CloseDone
  <2>3. CASE CloseSocket
    <3>1. conn' \in [Conns -> Stages]
      BY <2>3 DEF CloseSocket, Stages
    <3> QED
      BY <1>1, <2>3, <3>1 DEF CloseSocket
  <2> QED
    BY <1>7, <2>1, <2>2, <2>3
<1>8. CASE Bridging
  <2>1. PICK c \in Conns : Dials(c) \/ DialFails(c) \/ (\E e \in Ends : PeerEnds(c, e))
                            \/ (\E d \in Copies : CopyEnds(c, d))
    BY <1>8 DEF Bridging
  <2>2. CASE Dials(c)
    <3>1. bridge' \in [Conns -> {"none", "piping", "failed", "over"}]
      BY <2>2 DEF Dials
    <3>2. copies' \in [Conns -> SUBSET Copies]
      BY <2>2 DEF Dials
    <3> QED
      BY <1>1, <2>2, <3>1, <3>2 DEF Dials
  <2>5. CASE DialFails(c)
    BY <1>1, <2>5 DEF DialFails
  <2>3. ASSUME NEW e \in Ends, PeerEnds(c, e) PROVE TypeOK'
    BY <1>1, <2>3 DEF PeerEnds
  <2>4. ASSUME NEW d \in Copies, CopyEnds(c, d) PROVE TypeOK'
    <3>1. {e \in {To(d)} : Forwards(e)} \subseteq Ends
      BY <2>4 DEF To, Ends
    <3>2. copies' \in [Conns -> SUBSET Copies]
      BY <2>4 DEF CopyEnds
    <3>3. bridge' \in [Conns -> {"none", "piping", "failed", "over"}]
      BY <2>4 DEF CopyEnds
    <3>4. ended' \in [Conns -> SUBSET Ends]
      BY <2>4 DEF CopyEnds
    <3>5. told' \in [Conns -> SUBSET Ends]
      BY <2>4, <3>1 DEF CopyEnds
    <3>6. UNCHANGED <<listener, stopping, loop, sockets, metrics, zeroCopy>>
      BY <2>4 DEF CopyEnds
    <3> QED
      BY <1>1, <3>2, <3>3, <3>4, <3>5, <3>6
  <2> QED
    BY <2>1, <2>2, <2>3, <2>4, <2>5
<1> HIDE DEF TypeOK, IInv
<1> QED
  BY <1>2, <1>3, <1>4, <1>5, <1>6, <1>7, <1>8
  DEF Next, AcceptLoop, Dialling, Bridging, Closing, HandlerEnds, Stop, Settled, Closers

LEMMA Inductive == IInv /\ [Next]_vars => IInv'
  BY TypeStep, StageStep, SlotsStep, ActiveStep DEF IInv

LEMMA Always == Spec => []IInv
  BY Initially, Inductive, PTL DEF Spec

-----------------------------------------------------------------------------
(* What follows from the invariant.                                        *)

\* Every variable of the listener stays in its domain; above all the semaphore of
\* limitListener between 0 and its capacity.
THEOREM ListenerTypes == Spec => []TypeOK
  BY Always, PTL DEF IInv

\* Every token of limitListener's semaphore belongs to one connection or to the
\* accept in progress, for any number of clients and closers in any order.
THEOREM NoSlotLost == Spec => []SlotsAccounted
  BY Always, PTL DEF IInv

\* activeConn of a relay counts each connection once, in both modes.
THEOREM ActiveCountExact == Spec => []ActiveExact
  BY Always, PTL DEF IInv

\* Connections that all hold a slot are no more than the ceiling.
LEMMA WithinCeiling ==
  ASSUME IInv, NEW S \in SUBSET Holding
  PROVE  Cardinality(S) <= MaxConns
<1>1. IsFiniteSet(Holding) /\ Cardinality(Holding) \in Nat
  BY Parts, FinitePart
<1>2. Cardinality(S) <= Cardinality(Holding) /\ Cardinality(S) \in Nat
  BY <1>1, FS_Subset, FS_CardinalityType
<1>3. Cardinality(Holding) <= sem
  BY <1>1 DEF IInv, SlotsAccounted, TypeOK
<1> QED
  BY <1>1, <1>2, <1>3, Facts DEF IInv, TypeOK

\* limitListener's ceiling bounds the sockets accepted and not yet closed.
THEOREM FdTheorem == Spec => []FdCeiling
<1>1. ASSUME IInv PROVE FdCeiling
  <2>1. CASE ~zeroCopy
    <3>1. rawOpen \in SUBSET Holding
      BY <1>1, <2>1 DEF IInv, TypeOK, StageInv, Holding
    <3> QED
      BY <1>1, <3>1, WithinCeiling DEF FdCeiling
  <2> QED
    BY <2>1 DEF FdCeiling
<1> QED
  BY <1>1, Always, PTL

\* In counting mode the status never reports more connections than the ceiling;
\* in zero-copy mode it may.
THEOREM CountWithinCeiling == Spec => []ActiveWithinCeiling
<1>1. ASSUME IInv, ~zeroCopy PROVE ActiveWithinCeiling
  <2>1. Counted \in SUBSET Holding
    BY <1>1 DEF IInv, TypeOK, StageInv, Counted, Holding
  <2>2. active = Cardinality(Counted)
    BY <1>1 DEF IInv, ActiveExact, Counted
  <2> QED
    BY <1>1, <2>1, <2>2, WithinCeiling DEF ActiveWithinCeiling
<1>2. IInv => ActiveWithinCeiling
  BY <1>1 DEF ActiveWithinCeiling
<1> QED
  BY <1>2, Always, PTL

\* limitListener, accept loop, closers and stopListener together implement
\* bounded admission.
THEOREM Refinement == Spec => ImplementsAdmission
<1>1. Init => Bounded!Init
  BY DEF Init, Bounded!Init, Holding
<1>2. ASSUME IInv, [Next]_vars PROVE [Bounded!Next]_<<Holding, released>>
  <2>1. SlotMoves
    BY <1>2, SlotStep DEF IInv
  <2>2. Cardinality(Holding) \in Nat /\ sem \in 0..MaxConns /\ MaxConns \in Nat
    BY <1>2, Parts, FinitePart, Facts DEF IInv, TypeOK
  <2>3. ASSUME NEW c \in Conns, c \notin released, Joins(Holding, Holding', c),
               released' = released, acc = "accept"
        PROVE  Bounded!Admit(c)
    <3>1. Cardinality(Holding) < MaxConns
      BY <1>2, <2>2, <2>3 DEF IInv, SlotsAccounted
    <3>2. Cardinality(Holding) = Bounded!Cardinality(Holding)
      BY DEF Cardinality, Bounded!Cardinality
    <3> QED
      BY <2>3, <3>1, <3>2 DEF Bounded!Admit, Joins
  <2>4. ASSUME NEW c \in Conns, Leaves(Holding, Holding', c), released' = released \cup {c}
        PROVE  Bounded!Leave(c)
    BY <2>4 DEF Bounded!Leave, Leaves
  <2> QED
    BY <2>1, <2>3, <2>4 DEF SlotMoves, Bounded!Next
<1> QED
  BY <1>1, <1>2, Always, PTL DEF Spec, ImplementsAdmission, Bounded!Spec

-----------------------------------------------------------------------------
(* What the abstract specification promises by itself, whoever implements  *)
(* it: these two steps use nothing but module Admission.                   *)

Promised ==
    /\ Holding \subseteq Conns /\ Cardinality(Holding) <= MaxConns
    /\ Holding \cap released = {}

LEMMA AdmissionStep ==
  ASSUME Promised, [Bounded!Next]_<<Holding, released>>
  PROVE  Promised' /\ released \subseteq released'
<1> DEFINE H == Holding
<1>1. H \in SUBSET Conns /\ Cardinality(H) \in Nat /\ Cardinality(H) <= MaxConns /\ MaxConns \in Nat
  BY FinitePart, Facts DEF Promised
<1>2. Cardinality(H) = Bounded!Cardinality(H)
  BY DEF Cardinality, Bounded!Cardinality
<1>3. ASSUME NEW c \in Conns, Bounded!Admit(c) PROVE Promised' /\ released \subseteq released'
  <2>1. c \notin H /\ H' = H \cup {c} /\ released' = released /\ c \notin released
    BY <1>3 DEF Bounded!Admit
  <2>2. Cardinality(H) < MaxConns
    BY <1>2, <1>3 DEF Bounded!Admit
  <2>3. Cardinality(H') = Cardinality(H) + 1
    BY <1>1, <2>1, Grows
  <2>4. Cardinality(H') <= MaxConns
    <3> HIDE DEF H
    <3> QED
      BY <1>1, <2>2, <2>3
  <2> QED
    BY <1>1, <2>1, <2>4 DEF Promised
<1>4. ASSUME NEW c \in Conns, Bounded!Leave(c) PROVE Promised' /\ released \subseteq released'
  <2>1. c \in H /\ H' = H \ {c} /\ released' = released \cup {c}
    BY <1>4 DEF Bounded!Leave
  <2>2. Cardinality(H') = Cardinality(H) - 1
    BY <1>1, <2>1, Shrinks
  <2>3. Cardinality(H') <= MaxConns
    <3> HIDE DEF H
    <3> QED
      BY <1>1, <2>2
  <2> QED
    BY <1>1, <2>1, <2>3 DEF Promised
<1>5. CASE UNCHANGED <<Holding, released>>
  BY <1>5 DEF Promised
<1> QED
  BY <1>3, <1>4, <1>5 DEF Bounded!Next

\* An implementation of Admission never has more than MaxConns connections admitted, and
\* one that left does not come back: Refinement says that limitListener is one.
THEOREM AdmissionPromise ==
    ImplementsAdmission => []Promised /\ [][released \subseteq released']_<<Holding, released>>
<1>1. Bounded!Init => Promised
  BY Facts, FS_EmptySet DEF Bounded!Init, Promised
<1>2. Promised /\ [Bounded!Next]_<<Holding, released>>
        => Promised' /\ [released \subseteq released']_<<Holding, released>>
  BY AdmissionStep
<1> QED
  BY <1>1, <1>2, PTL DEF ImplementsAdmission, Bounded!Spec
=============================================================================
