--------------------------- MODULE DaemonProofs ---------------------------
(***************************************************************************)
(* What is proved of module Daemon: the safety properties of the           *)
(* configuration file and of the status socket.                            *)
(***************************************************************************)
EXTENDS Daemon, ConfigProofs, TLAPS

(* What the actions do to the two Boolean histories. *)
LEMMA HistoriesAreBoolean ==
    ASSUME TypeOK, NEW p \in Procs
    PROVE  /\ \A l : Start(p, l) => alone' \in [Daemons -> BOOLEAN] /\ missed' \in [Procs -> BOOLEAN]
           /\ Unloaded(p) => alone' \in [Daemons -> BOOLEAN] /\ missed' \in [Procs -> BOOLEAN]
           /\ Loaded(p) => alone' \in [Daemons -> BOOLEAN] /\ missed' \in [Procs -> BOOLEAN]
<1>1. \A b \in BOOLEAN : [missed EXCEPT ![p] = b] \in [Procs -> BOOLEAN]
  BY Zenon DEF TypeOK
<1>2. ASSUME NEW l, Start(p, l) PROVE alone' \in [Daemons -> BOOLEAN] /\ missed' \in [Procs -> BOOLEAN]
  <2>1. missed' \in [Procs -> BOOLEAN]
    BY <1>1, <1>2, Zenon DEF Start
  <2>2. CASE p \in Daemons
    <3>1. alone' = [d \in Daemons |-> d = p /\ \A e \in Daemons \ {p} : pc[e] = "off"]
      BY <1>2, <2>2, Zenon DEF Start
    <3> QED BY <2>1, <3>1, Zenon
  <2>3. CASE p \notin Daemons
    <3>1. alone' = alone
      BY <1>2, <2>3, Zenon DEF Start
    <3> QED BY <2>1, <3>1, Zenon DEF TypeOK
  <2> QED BY <2>2, <2>3
<1>3. ASSUME Unloaded(p) PROVE alone' \in [Daemons -> BOOLEAN] /\ missed' \in [Procs -> BOOLEAN]
  BY <1>1, <1>3, Zenon DEF Unloaded
<1>4. ASSUME Loaded(p) PROVE alone' \in [Daemons -> BOOLEAN] /\ missed' \in [Procs -> BOOLEAN]
  BY <1>1, <1>4, Zenon DEF Loaded, TypeOK
<1> QED BY <1>2, <1>3, <1>4, Zenon

(* Next keeps the types. *)
LEMMA TypeStep ==
    ASSUME TypeOK, [Next]_vars
    PROVE  TypeOK'
<1> USE DaemonAssumption
<1>1. ASSUME NEW p \in Procs, Create(p) PROVE TypeOK'
  BY <1>1 DEF Create, Goto, config, ipc, query, TypeOK, Open, Served, Procs, Loading, Writing,
      Binding, Up, Closing, Asking
<1>2. ASSUME NEW p \in Procs, Fill(p) PROVE TypeOK'
  <2>1. alone' \in [Daemons -> BOOLEAN] /\ missed' \in [Procs -> BOOLEAN]
    BY <1>2, HistoriesAreBoolean DEF Fill, TypeOK
  <2> QED
    BY <1>2, <2>1
    DEF Fill, Written, Loaded, Goto, config, ipc, query, TypeOK, Open, Served, Procs, Loading,
        Writing, Binding, Up, Closing, Asking
<1>3. ASSUME NEW p \in Procs, LoadFails(p) PROVE TypeOK'
  BY <1>3 DEF LoadFails, Unloaded, Goto, config, ipc, query, TypeOK, Open, Served, Procs,
      Loading, Writing, Binding, Up, Closing, Asking
<1>4. ASSUME NEW p \in Procs, Stat(p) PROVE TypeOK'
  <2>1. alone' \in [Daemons -> BOOLEAN] /\ missed' \in [Procs -> BOOLEAN]
    BY <1>4, HistoriesAreBoolean DEF Stat, TypeOK
  <2> QED
    BY <1>4, <2>1
    DEF Stat, Unloaded, Goto, config, ipc, query, TypeOK, Open, Served, Procs, Loading, Writing,
        Binding, Up, Closing, Asking
<1>5. ASSUME NEW p \in Procs, Read(p) PROVE TypeOK'
  <2>1. alone' \in [Daemons -> BOOLEAN] /\ missed' \in [Procs -> BOOLEAN]
    BY <1>5, HistoriesAreBoolean DEF Read, TypeOK
  <2> QED
    BY <1>5, <2>1
    DEF Read, Unloaded, Loaded, Goto, config, ipc, query, TypeOK, Open, Served, Procs, Loading,
        Writing, Binding, Up, Closing, Asking
<1>6. ASSUME NEW d \in Daemons, Ensure(d) PROVE TypeOK'
  <2>1. alone' \in [Daemons -> BOOLEAN] /\ missed' \in [Procs -> BOOLEAN]
    BY <1>6, HistoriesAreBoolean DEF Ensure, Procs
  <2> QED
    BY <1>6, <2>1
    DEF Ensure, Start, Goto, config, ipc, query, TypeOK, Open, Served, Procs, Loading, Writing,
        Binding, Up, Closing, Asking
<1>7. ASSUME NEW d \in Daemons, Lstat(d) PROVE TypeOK'
  BY <1>7 DEF Lstat, Goto, config, ipc, query, TypeOK, Open, Served, Procs, Loading, Writing,
      Binding, Up, Closing, Asking
<1>8. ASSUME NEW d \in Daemons, Unlink(d) PROVE TypeOK'
  BY <1>8 DEF Unlink, Goto, config, ipc, query, TypeOK, Open, Served, Procs, Loading, Writing,
      Binding, Up, Closing, Asking
<1>9. ASSUME NEW d \in Daemons, Bind(d) PROVE TypeOK'
  BY <1>9 DEF Bind, Goto, config, ipc, query, TypeOK, Open, Served, Procs, Loading, Writing,
      Binding, Up, Closing, Asking
<1>10. ASSUME NEW d \in Daemons, TakeLock(d) PROVE TypeOK'
  BY <1>10 DEF TakeLock, Goto, config, ipc, query, TypeOK, Open, Served, Procs, Loading, Writing,
      Binding, Up, Closing, Asking
<1>11. ASSUME NEW d \in Daemons, DropLock(d) PROVE TypeOK'
  BY <1>11 DEF DropLock, Goto, config, ipc, query, TypeOK, Open, Served, Procs, Loading, Writing,
      Binding, Up, Closing, Asking
<1>12. ASSUME NEW d \in Daemons, Signal(d) PROVE TypeOK'
  BY <1>12 DEF Signal, Goto, config, ipc, query, TypeOK, Open, Served, Procs, Loading, Writing,
      Binding, Up, Closing, Asking
<1>13. ASSUME NEW d \in Daemons, Stop(d) PROVE TypeOK'
  BY <1>13 DEF Stop, Goto, config, ipc, query, TypeOK, Open, Served, Procs, Loading, Writing,
      Binding, Up, Closing, Asking
<1>14. ASSUME NEW d \in Daemons, CloseListener(d) PROVE TypeOK'
  BY <1>14 DEF CloseListener, Disconnects, Queued, Goto, config, ipc, query, TypeOK, Open, Served,
      Procs, Loading, Writing, Binding, Up, Closing, Asking
<1>15. ASSUME NEW d \in Daemons, RemovePath(d) PROVE TypeOK'
  BY <1>15 DEF RemovePath, Goto, config, ipc, query, TypeOK, Open, Served, Procs, Loading,
      Writing, Binding, Up, Closing, Asking
<1>16. ASSUME NEW d \in Daemons, Exit(d) PROVE TypeOK'
  BY <1>16 DEF Exit, Off, Disconnects, Goto, config, ipc, query, TypeOK, Open, Served, Procs,
      Loading, Writing, Binding, Up, Closing, Asking
<1>17. ASSUME NEW d \in Daemons, Crash(d) PROVE TypeOK'
  BY <1>17 DEF Crash, Off, Disconnects, Goto, config, ipc, query, TypeOK, Open, Served, Procs,
      Loading, Writing, Binding, Up, Closing, Asking
<1>18. ASSUME NEW d \in Daemons, AcceptFails(d) PROVE TypeOK'
  BY <1>18 DEF AcceptFails, Goto, config, ipc, query, TypeOK, Open, Served, Procs, Loading,
      Writing, Binding, Up, Closing, Asking
<1>19. ASSUME NEW d \in Daemons, Wake(d) PROVE TypeOK'
  BY <1>19 DEF Wake, Goto, config, ipc, query, TypeOK, Open, Served, Procs, Loading, Writing,
      Binding, Up, Closing, Asking
<1>20. ASSUME NEW d \in Daemons, ServeReturns(d) PROVE TypeOK'
  BY <1>20 DEF ServeReturns, Goto, config, ipc, query, TypeOK, Open, Served, Procs, Loading,
      Writing, Binding, Up, Closing, Asking
<1>21. ASSUME NEW c \in Clients, Ask(c) PROVE TypeOK'
  <2>1. alone' \in [Daemons -> BOOLEAN] /\ missed' \in [Procs -> BOOLEAN]
    BY <1>21, HistoriesAreBoolean DEF Ask, Procs
  <2> QED
    BY <1>21, <2>1
    DEF Ask, Start, Goto, config, ipc, query, TypeOK, Open, Served, Procs, Loading, Writing,
        Binding, Up, Closing, Asking
<1>22. ASSUME NEW c \in Clients, Dial(c) PROVE TypeOK'
  BY <1>22 DEF Dial, Finish, Goto, config, ipc, query, TypeOK, Open, Served, Procs, Loading,
      Writing, Binding, Up, Closing, Asking
<1>23. ASSUME NEW c \in Clients, Accept(c) PROVE TypeOK'
  BY <1>23 DEF Accept, Goto, config, ipc, query, TypeOK, Open, Served, Procs, Loading, Writing,
      Binding, Up, Closing, Asking
<1>24. ASSUME NEW c \in Clients, Answer(c) PROVE TypeOK'
  BY <1>24 DEF Answer, Finish, Goto, config, ipc, query, TypeOK, Open, Served, Procs, Loading,
      Writing, Binding, Up, Closing, Asking
<1>25. ASSUME NEW c \in Clients, Expire(c) PROVE TypeOK'
  BY <1>25 DEF Expire, Finish, Goto, config, ipc, query, TypeOK, Open, Served, Procs, Loading,
      Writing, Binding, Up, Closing, Asking
<1>26. ASSUME Edit PROVE TypeOK'
  BY <1>26 DEF Edit, Goto, config, ipc, query, TypeOK, Open, Served, Procs, Loading, Writing,
      Binding, Up, Closing, Asking
<1>27. CASE UNCHANGED vars
  BY <1>27 DEF vars, TypeOK, Open, Served, Procs, Loading, Writing,
      Binding, Up, Closing, Asking
<1>28. ASSUME NEW d \in Daemons, ServerFails(d) PROVE TypeOK'
  BY <1>28 DEF ServerFails, Goto, config, ipc, query, TypeOK, Open, Served, Procs,
      Loading, Writing, Binding, Up, Closing, Asking
<1> QED
  BY <1>1, <1>2, <1>3, <1>4, <1>5, <1>6, <1>7, <1>8, <1>9, <1>10, <1>11, <1>12,
     <1>13, <1>14, <1>15, <1>16, <1>17, <1>18, <1>19, <1>20, <1>21, <1>22, <1>23, <1>24,
     <1>25, <1>26, <1>27, <1>28
     DEF Next, Loads, Runs, Serves, Queries

-----------------------------------------------------------------------------
(* A process about to write could have found the file missing since it started. *)
FileWatched ==
    \A p \in Procs : pc[p] \in Writing \/ (pc[p] \in Loading /\ file = NoFile) => missed[p]

(* Whoever runs alone has the others off, an empty path when it binds, and its own
   name on the path in service. *)
OthersOff == \A d \in Daemons : alone[d] => \A e \in Daemons \ {d} : pc[e] = "off"
SoleBinds == \A d \in Daemons : pc[d] = "bind" /\ alone[d] => path = "none"

IInv == TypeOK /\ FileWatched /\ PathIsServed /\ OthersOff /\ SoleBinds /\ SoleDaemonReachable

\* A step that neither touches the file nor brings a process to load it.
StaysOut == \A q \in Procs : pc'[q] = pc[q] \/ pc'[q] \notin Loading

LEMMA FileUntouched ==
    ASSUME FileWatched, UNCHANGED config, StaysOut
    PROVE  FileWatched'
<1> SUFFICES ASSUME NEW p \in Procs,
                    pc'[p] \in Writing \/ (pc'[p] \in Loading /\ file = NoFile)
             PROVE  missed[p]
  BY Zenon DEF FileWatched, config
<1>1. pc'[p] \in Loading
  BY Zenon DEF Loading
<1>2. pc'[p] = pc[p]
  BY <1>1, Zenon DEF StaysOut
<1> QED BY <1>2, Zenon DEF FileWatched

LEMMA GotoOut ==
    ASSUME TypeOK, NEW p \in Procs, NEW l, l \notin Loading, Goto(p, l)
    PROVE  StaysOut
<1> SUFFICES ASSUME NEW q \in Procs PROVE pc'[q] = pc[q] \/ pc'[q] \notin Loading
  BY Zenon DEF StaysOut
<1>1. pc' = [pc EXCEPT ![p] = l] /\ DOMAIN pc = Procs
  BY Zenon DEF Goto, TypeOK
<1> QED BY <1>1, Zenon

LEMMA DisconnectsOut ==
    ASSUME NEW d, NEW l, NEW cs, l \notin Loading, Disconnects(d, l, cs)
    PROVE  StaysOut
  BY Zenon DEF Disconnects, StaysOut, Loading, Writing

\* One process moves and may find the file missing; the others stay.
LEMMA OneMoves ==
    ASSUME TypeOK, FileWatched, NEW p \in Procs, NEW l, NEW b \in BOOLEAN,
           Goto(p, l), missed' = [missed EXCEPT ![p] = b],
           file' = file,
           l \in Writing \/ (l \in Loading /\ file = NoFile) => b
    PROVE  FileWatched'
<1> SUFFICES ASSUME NEW q \in Procs,
                    pc'[q] \in Writing \/ (pc'[q] \in Loading /\ file = NoFile)
             PROVE  missed'[q]
  BY Zenon DEF FileWatched
<1>1. pc' = [pc EXCEPT ![p] = l] /\ DOMAIN pc = Procs /\ DOMAIN missed = Procs
  BY Zenon DEF Goto, TypeOK
<1>2. CASE q = p
  BY <1>1, <1>2, Zenon
<1>3. CASE q # p
  <2>1. pc'[q] = pc[q] /\ missed'[q] = missed[q]
    BY <1>1, <1>3, Zenon
  <2> QED BY <2>1, Zenon DEF FileWatched
<1> QED BY <1>2, <1>3

\* A process writes: it was watching before, and what the file holds is not NoFile.
LEMMA FileWritten ==
    ASSUME TypeOK, FileWatched, NEW p \in Procs, NEW l, pc[p] \in Writing, Goto(p, l),
           missed' = missed, file' # NoFile \/ file' = file
    PROVE  FileWatched'
<1> SUFFICES ASSUME NEW q \in Procs,
                    pc'[q] \in Writing \/ (pc'[q] \in Loading /\ file' = NoFile)
             PROVE  missed[q]
  BY Zenon DEF FileWatched
<1>1. pc' = [pc EXCEPT ![p] = l] /\ DOMAIN pc = Procs
  BY Zenon DEF Goto, TypeOK
<1>2. CASE q = p
  BY <1>2, Zenon DEF FileWatched
<1>3. CASE q # p
  <2>1. pc'[q] = pc[q]
    BY <1>1, <1>3, Zenon
  <2> QED BY <2>1, Zenon DEF FileWatched
<1> QED BY <1>2, <1>3

LEMMA LoadKeepsWatch ==
    ASSUME TypeOK, FileWatched, NEW p \in Procs, Unloaded(p) \/ Loaded(p),
           file' # NoFile \/ file' = file
    PROVE  FileWatched'
<1> SUFFICES ASSUME NEW q \in Procs,
                    pc'[q] \in Writing \/ (pc'[q] \in Loading /\ file' = NoFile)
             PROVE  missed'[q]
  BY Zenon DEF FileWatched
<1>1. missed' = [missed EXCEPT ![p] = FALSE] /\ DOMAIN pc = Procs /\ DOMAIN missed = Procs
  BY Zenon DEF Unloaded, Loaded, TypeOK
<1>2. PICK l \in {"off", "dial", "lstat"} : pc' = [pc EXCEPT ![p] = l]
  BY Zenon DEF Unloaded, Loaded, Goto
<1>3. l \notin Loading
  BY DEF Loading, Writing
<1>4. CASE q = p
  <2>1. pc'[q] \in Loading
    BY Zenon DEF Loading
  <2> QED BY <1>1, <1>2, <1>3, <1>4, <2>1, Zenon
<1>5. CASE q # p
  <2>1. pc'[q] = pc[q] /\ missed'[q] = missed[q]
    BY <1>1, <1>2, <1>5, Zenon
  <2> QED BY <2>1, Zenon DEF FileWatched
<1> QED BY <1>4, <1>5

LEMMA FileStep ==
    ASSUME TypeOK, FileWatched, [Next]_vars
    PROVE  FileWatched'
<1> USE DaemonAssumption
<1>1. ASSUME NEW p \in Procs, Create(p) PROVE FileWatched'
  <2>1. pc[p] \in Writing /\ missed' = missed /\ file' # NoFile
    BY <1>1 DEF Create, Writing
  <2> QED BY <1>1, <2>1, FileWritten, Zenon DEF Create
<1>2. ASSUME NEW p \in Procs, Fill(p) PROVE FileWatched'
  <2>1. file' # NoFile \/ file' = file
    BY <1>2 DEF Fill, Written
  <2>2. pc[p] \in Writing
    BY <1>2 DEF Fill, Writing
  <2>3. CASE Loaded(p)
    BY <2>1, <2>3, LoadKeepsWatch, Zenon
  <2>4. CASE Goto(p, "stat") /\ missed' = missed
    BY <2>1, <2>2, <2>4, FileWritten, Zenon
  <2> QED BY <1>2, <2>3, <2>4, Zenon DEF Fill
<1>3. ASSUME NEW p \in Procs, LoadFails(p) PROVE FileWatched'
  BY <1>3, LoadKeepsWatch, Zenon DEF LoadFails
<1>4. ASSUME NEW p \in Procs, Stat(p) PROVE FileWatched'
  <2>1. CASE Unloaded(p)
    BY <1>4, <2>1, LoadKeepsWatch, Zenon DEF Stat
  <2>2. CASE file # NoFile /\ Goto(p, "read") /\ missed' = missed
    <3>1. "read" \notin Writing
      BY DEF Writing
    <3>2. missed[p] \in BOOLEAN /\ missed' = [missed EXCEPT ![p] = missed[p]]
      BY <2>2, Zenon DEF TypeOK
    <3> QED BY <1>4, <2>2, <3>1, <3>2, OneMoves, Zenon DEF Stat
  <2> QED BY <1>4, <2>1, <2>2, Zenon DEF Stat
<1>5. ASSUME NEW p \in Procs, Read(p) PROVE FileWatched'
  <2>1. CASE Unloaded(p) \/ Loaded(p)
    BY <1>5, <2>1, LoadKeepsWatch, Zenon DEF Read
  <2>2. CASE file = NoFile /\ Goto(p, "recreate") /\ missed' = missed
    <3>1. pc[p] \in Loading
      BY <1>5 DEF Read, Loading
    <3>2. missed[p] /\ missed' = [missed EXCEPT ![p] = missed[p]]
      BY <2>2, <3>1, Zenon DEF TypeOK, FileWatched
    <3>3. missed[p] \in BOOLEAN
      BY Zenon DEF TypeOK
    <3> QED BY <1>5, <2>2, <3>2, <3>3, OneMoves, Zenon DEF Read
  <2> QED BY <1>5, <2>1, <2>2, Zenon DEF Read
<1>6. ASSUME NEW p \in Procs, NEW l, Start(p, l), l \in Writing => file = NoFile
      PROVE  FileWatched'
  <2>1. (file = NoFile /\ l \in Loading) \in BOOLEAN
    BY Zenon
  <2>2. l \in Writing => l \in Loading
    BY Zenon DEF Loading
  <2>3. Goto(p, l) /\ missed' = [missed EXCEPT ![p] = file = NoFile /\ l \in Loading] /\ file' = file
    BY <1>6, Zenon DEF Start
  <2> QED BY <1>6, <2>1, <2>2, <2>3, OneMoves, Zenon
<1>7. ASSUME NEW d \in Daemons, Ensure(d) PROVE FileWatched'
  <2>1. "stat" \notin Writing
    BY DEF Writing
  <2> QED BY <1>6, <1>7, <2>1, Zenon DEF Ensure, Procs
<1>8. ASSUME NEW c \in Clients, Ask(c) PROVE FileWatched'
  <2>1. "stat" \notin Writing /\ "dial" \notin Writing
    BY DEF Writing
  <2> QED BY <1>6, <1>8, <2>1, Zenon DEF Ask, Procs
<1>9. /\ Daemons \subseteq Procs /\ Clients \subseteq Procs
      /\ \A l \in Binding \cup Up \cup Closing \cup Asking \cup {"off"} : l \notin Loading
  BY DEF Procs, Loading, Writing, Binding, Up, Closing, Asking
<1>10. ASSUME NEW d \in Daemons,
              \/ Lstat(d) \/ Unlink(d) \/ Bind(d) \/ ServerFails(d) \/ TakeLock(d)
              \/ DropLock(d) \/ Stop(d) \/ RemovePath(d)
       PROVE  FileWatched'
  <2>1. UNCHANGED config
    BY <1>10, Zenon
       DEF Lstat, Unlink, Bind, ServerFails, TakeLock, DropLock, Stop, RemovePath
  <2>2. \E l \in Binding \cup Up \cup Closing : Goto(d, l)
    BY <1>10, Zenon
       DEF Lstat, Unlink, Bind, ServerFails, TakeLock, DropLock, Stop, RemovePath,
           Binding, Up, Closing
  <2> QED BY <1>9, <2>1, <2>2, GotoOut, FileUntouched, Zenon
<1>11. ASSUME NEW d \in Daemons, Signal(d) \/ AcceptFails(d) \/ Wake(d) \/ ServeReturns(d)
       PROVE  FileWatched'
  <2>1. UNCHANGED config /\ UNCHANGED pc
    BY <1>11, Zenon DEF Signal, AcceptFails, Wake, ServeReturns
  <2>2. StaysOut
    BY <2>1, Zenon DEF StaysOut
  <2> QED BY <2>1, <2>2, FileUntouched, Zenon
<1>12. ASSUME NEW d \in Daemons, CloseListener(d) PROVE FileWatched'
  <2>1. "remove" \notin Loading
    BY DEF Loading, Writing
  <2> QED BY <1>12, <2>1, DisconnectsOut, FileUntouched, Zenon DEF CloseListener
<1>13. ASSUME NEW d \in Daemons, Exit(d) \/ Crash(d) PROVE FileWatched'
  <2>1. file' = file /\ Off(d)
    BY <1>13, Zenon DEF Exit, Crash
  <2>2. \A q \in Procs : (pc'[q] = "off" \/ (q # d /\ pc'[q] = pc[q]))
    BY <2>1, Zenon DEF Off, Disconnects
  <2>3. \A q \in Procs : q # d => missed'[q] = missed[q]
    <3>1. missed' = [missed EXCEPT ![d] = FALSE] /\ DOMAIN missed = Procs
      BY <2>1, Zenon DEF Off, TypeOK
    <3> QED BY <3>1, Zenon
  <2>4. "off" \notin Loading /\ "off" \notin Writing
    BY DEF Loading, Writing
  <2> QED BY <2>1, <2>2, <2>3, <2>4, Zenon DEF FileWatched
<1>14. ASSUME NEW c \in Clients, Dial(c) \/ Accept(c) \/ Answer(c) \/ Expire(c)
       PROVE  FileWatched'
  <2>1. UNCHANGED config
    BY <1>14, Zenon DEF Dial, Accept, Answer, Expire
  <2>2. \E l \in Asking \cup {"off"} : Goto(c, l)
    BY <1>14, Zenon DEF Dial, Accept, Answer, Expire, Finish, Asking
  <2> QED BY <1>9, <2>1, <2>2, GotoOut, FileUntouched, Zenon
<1>15. CASE Edit
  <2> SUFFICES ASSUME NEW p \in Procs,
                      pc[p] \in Writing \/ (pc[p] \in Loading /\ file' = NoFile)
               PROVE  missed'[p]
    BY <1>15, Zenon DEF Edit, FileWatched
  <2>1. missed'[p] = (missed[p] \/ (file' = NoFile /\ pc[p] \in Loading))
    BY <1>15, Zenon DEF Edit
  <2> QED BY <2>1, Zenon DEF FileWatched
<1>16. CASE UNCHANGED vars
  BY <1>16, Zenon DEF vars, FileWatched
<1> QED
  BY <1>1, <1>2, <1>3, <1>4, <1>5, <1>7, <1>8, <1>10, <1>11, <1>12, <1>13, <1>14, <1>15,
     <1>16, Zenon
     DEF Next, Loads, Runs, Serves, Queries

LEMMA PathStep ==
    ASSUME TypeOK, PathIsServed, [Next]_vars
    PROVE  PathIsServed'
<1> USE DaemonAssumption
<1>1. ASSUME NEW p \in Procs, Create(p) PROVE PathIsServed'
  BY <1>1 DEF Create, Goto, config, ipc, query, TypeOK, PathIsServed, Open, Served, Procs,
      Loading, Writing, Binding, Up, Closing, Asking
<1>2. ASSUME NEW p \in Procs, Fill(p) PROVE PathIsServed'
  BY <1>2 DEF Fill, Written, Loaded, Goto, config, ipc, query, TypeOK, PathIsServed, Open, Served,
      Procs, Loading, Writing, Binding, Up, Closing, Asking
<1>3. ASSUME NEW p \in Procs, LoadFails(p) PROVE PathIsServed'
  BY <1>3 DEF LoadFails, Unloaded, Goto, config, ipc, query, TypeOK, PathIsServed, Open, Served,
      Procs, Loading, Writing, Binding, Up, Closing, Asking
<1>4. ASSUME NEW p \in Procs, Stat(p) PROVE PathIsServed'
  BY <1>4 DEF Stat, Unloaded, Goto, config, ipc, query, TypeOK, PathIsServed, Open, Served, Procs,
      Loading, Writing, Binding, Up, Closing, Asking
<1>5. ASSUME NEW p \in Procs, Read(p) PROVE PathIsServed'
  BY <1>5 DEF Read, Unloaded, Loaded, Goto, config, ipc, query, TypeOK, PathIsServed,
      Open, Served, Procs, Loading, Writing, Binding, Up, Closing, Asking
<1>6. ASSUME NEW d \in Daemons, Ensure(d) PROVE PathIsServed'
  BY <1>6 DEF Ensure, Start, Goto, config, ipc, query, TypeOK, PathIsServed, Open, Served, Procs,
      Loading, Writing, Binding, Up, Closing, Asking
<1>7. ASSUME NEW d \in Daemons, Lstat(d) PROVE PathIsServed'
  BY <1>7 DEF Lstat, Goto, config, ipc, query, TypeOK, PathIsServed, Open, Served, Procs, Loading,
      Writing, Binding, Up, Closing, Asking
<1>8. ASSUME NEW d \in Daemons, Unlink(d) PROVE PathIsServed'
  BY <1>8 DEF Unlink, Goto, config, ipc, query, TypeOK, PathIsServed, Open, Served, Procs,
      Loading, Writing, Binding, Up, Closing, Asking
<1>9. ASSUME NEW d \in Daemons, Bind(d) PROVE PathIsServed'
  BY <1>9 DEF Bind, Goto, config, ipc, query, TypeOK, PathIsServed, Open, Served, Procs, Loading,
      Writing, Binding, Up, Closing, Asking
<1>10. ASSUME NEW d \in Daemons, TakeLock(d) PROVE PathIsServed'
  BY <1>10 DEF TakeLock, Goto, config, ipc, query, TypeOK, PathIsServed, Open, Served, Procs,
      Loading, Writing, Binding, Up, Closing, Asking
<1>11. ASSUME NEW d \in Daemons, DropLock(d) PROVE PathIsServed'
  BY <1>11 DEF DropLock, Goto, config, ipc, query, TypeOK, PathIsServed, Open, Served, Procs,
      Loading, Writing, Binding, Up, Closing, Asking
<1>12. ASSUME NEW d \in Daemons, Signal(d) PROVE PathIsServed'
  BY <1>12 DEF Signal, Goto, config, ipc, query, TypeOK, PathIsServed, Open, Served, Procs,
      Loading, Writing, Binding, Up, Closing, Asking
<1>13. ASSUME NEW d \in Daemons, Stop(d) PROVE PathIsServed'
  BY <1>13 DEF Stop, Goto, config, ipc, query, TypeOK, PathIsServed, Open, Served, Procs, Loading,
      Writing, Binding, Up, Closing, Asking
<1>14. ASSUME NEW d \in Daemons, CloseListener(d) PROVE PathIsServed'
  BY <1>14 DEF CloseListener, Disconnects, Queued, Goto, config, ipc, query, TypeOK,
      PathIsServed, Open, Served, Procs, Loading, Writing, Binding, Up, Closing, Asking
<1>15. ASSUME NEW d \in Daemons, RemovePath(d) PROVE PathIsServed'
  BY <1>15 DEF RemovePath, Goto, config, ipc, query, TypeOK, PathIsServed, Open, Served, Procs,
      Loading, Writing, Binding, Up, Closing, Asking
<1>16. ASSUME NEW d \in Daemons, Exit(d) PROVE PathIsServed'
  BY <1>16 DEF Exit, Off, Disconnects, Goto, config, ipc, query, TypeOK, PathIsServed,
      Open, Served, Procs, Loading, Writing, Binding, Up, Closing, Asking
<1>17. ASSUME NEW d \in Daemons, Crash(d) PROVE PathIsServed'
  BY <1>17 DEF Crash, Off, Disconnects, Goto, config, ipc, query, TypeOK, PathIsServed,
      Open, Served, Procs, Loading, Writing, Binding, Up, Closing, Asking
<1>18. ASSUME NEW d \in Daemons, AcceptFails(d) PROVE PathIsServed'
  BY <1>18 DEF AcceptFails, Goto, config, ipc, query, TypeOK, PathIsServed, Open, Served, Procs,
      Loading, Writing, Binding, Up, Closing, Asking
<1>19. ASSUME NEW d \in Daemons, Wake(d) PROVE PathIsServed'
  BY <1>19 DEF Wake, Goto, config, ipc, query, TypeOK, PathIsServed, Open, Served, Procs, Loading,
      Writing, Binding, Up, Closing, Asking
<1>20. ASSUME NEW d \in Daemons, ServeReturns(d) PROVE PathIsServed'
  BY <1>20 DEF ServeReturns, Goto, config, ipc, query, TypeOK, PathIsServed, Open, Served, Procs,
      Loading, Writing, Binding, Up, Closing, Asking
<1>21. ASSUME NEW c \in Clients, Ask(c) PROVE PathIsServed'
  BY <1>21 DEF Ask, Start, Goto, config, ipc, query, TypeOK, PathIsServed, Open, Served, Procs,
      Loading, Writing, Binding, Up, Closing, Asking
<1>22. ASSUME NEW c \in Clients, Dial(c) PROVE PathIsServed'
  BY <1>22 DEF Dial, Finish, Goto, config, ipc, query, TypeOK, PathIsServed, Open, Served, Procs,
      Loading, Writing, Binding, Up, Closing, Asking
<1>23. ASSUME NEW c \in Clients, Accept(c) PROVE PathIsServed'
  BY <1>23 DEF Accept, Goto, config, ipc, query, TypeOK, PathIsServed, Open, Served, Procs,
      Loading, Writing, Binding, Up, Closing, Asking
<1>24. ASSUME NEW c \in Clients, Answer(c) PROVE PathIsServed'
  BY <1>24 DEF Answer, Finish, Goto, config, ipc, query, TypeOK, PathIsServed, Open, Served,
      Procs, Loading, Writing, Binding, Up, Closing, Asking
<1>25. ASSUME NEW c \in Clients, Expire(c) PROVE PathIsServed'
  BY <1>25 DEF Expire, Finish, Goto, config, ipc, query, TypeOK, PathIsServed, Open, Served,
      Procs, Loading, Writing, Binding, Up, Closing, Asking
<1>26. ASSUME Edit PROVE PathIsServed'
  BY <1>26 DEF Edit, Goto, config, ipc, query, TypeOK, PathIsServed, Open, Served, Procs, Loading,
      Writing, Binding, Up, Closing, Asking
<1>27. CASE UNCHANGED vars
  BY <1>27 DEF vars, TypeOK, PathIsServed, Open, Served, Procs,
      Loading, Writing, Binding, Up, Closing, Asking
<1>28. ASSUME NEW d \in Daemons, ServerFails(d) PROVE PathIsServed'
  BY <1>28 DEF ServerFails, Goto, config, ipc, query, TypeOK, PathIsServed, Open, Served, Procs,
      Loading, Writing, Binding, Up, Closing, Asking
<1> QED
  BY <1>1, <1>2, <1>3, <1>4, <1>5, <1>6, <1>7, <1>8, <1>9, <1>10, <1>11, <1>12,
     <1>13, <1>14, <1>15, <1>16, <1>17, <1>18, <1>19, <1>20, <1>21, <1>22, <1>23, <1>24,
     <1>25, <1>26, <1>27, <1>28
     DEF Next, Loads, Runs, Serves, Queries

LEMMA SoleStep ==
    ASSUME TypeOK, PathIsServed, OthersOff, SoleBinds, SoleDaemonReachable, [Next]_vars
    PROVE  OthersOff' /\ SoleBinds' /\ SoleDaemonReachable'
<1> USE DaemonAssumption
<1>1. ASSUME NEW p \in Procs, Create(p) PROVE OthersOff' /\ SoleBinds' /\ SoleDaemonReachable'
  BY <1>1 DEF Create, Goto, config, ipc, query, TypeOK, PathIsServed, OthersOff,
      SoleBinds, SoleDaemonReachable, Open, Served, Procs, Loading, Writing, Binding, Up, Closing,
      Asking
<1>2. ASSUME NEW p \in Procs, Fill(p) PROVE OthersOff' /\ SoleBinds' /\ SoleDaemonReachable'
  BY <1>2 DEF Fill, Written, Loaded, Goto, config, ipc, query, TypeOK, PathIsServed,
      OthersOff, SoleBinds, SoleDaemonReachable, Open, Served, Procs, Loading, Writing, Binding,
      Up, Closing, Asking
<1>3. ASSUME NEW p \in Procs, LoadFails(p) PROVE OthersOff' /\ SoleBinds' /\ SoleDaemonReachable'
  BY <1>3 DEF LoadFails, Unloaded, Goto, config, ipc, query, TypeOK, PathIsServed,
      OthersOff, SoleBinds, SoleDaemonReachable, Open, Served, Procs, Loading, Writing, Binding,
      Up, Closing, Asking
<1>4. ASSUME NEW p \in Procs, Stat(p) PROVE OthersOff' /\ SoleBinds' /\ SoleDaemonReachable'
  BY <1>4 DEF Stat, Unloaded, Goto, config, ipc, query, TypeOK, PathIsServed, OthersOff,
      SoleBinds, SoleDaemonReachable, Open, Served, Procs, Loading, Writing, Binding, Up, Closing,
      Asking
<1>5. ASSUME NEW p \in Procs, Read(p) PROVE OthersOff' /\ SoleBinds' /\ SoleDaemonReachable'
  BY <1>5 DEF Read, Unloaded, Loaded, Goto, config, ipc, query, TypeOK, PathIsServed,
      OthersOff, SoleBinds, SoleDaemonReachable, Open, Served, Procs, Loading, Writing, Binding,
      Up, Closing, Asking
<1>6. ASSUME NEW d \in Daemons, Ensure(d) PROVE OthersOff' /\ SoleBinds' /\ SoleDaemonReachable'
  <2>1. \A e \in Daemons :
          alone'[e] => e = d /\ \A f \in Daemons \ {d} : pc[f] = "off"
    BY <1>6, Zenon DEF Ensure, Start
  <2>2. path' = path /\ \E l \in {"create", "stat"} : pc' = [pc EXCEPT ![d] = l]
    BY <1>6 DEF Ensure, Start, Goto, ipc
  <2> QED
    BY <2>1, <2>2
    DEF TypeOK, OthersOff, SoleBinds, SoleDaemonReachable, Procs, Up
<1>7. ASSUME NEW d \in Daemons, Lstat(d) PROVE OthersOff' /\ SoleBinds' /\ SoleDaemonReachable'
  BY <1>7 DEF Lstat, Goto, config, ipc, query, TypeOK, PathIsServed, OthersOff, SoleBinds,
      SoleDaemonReachable, Open, Served, Procs, Loading, Writing, Binding, Up, Closing, Asking
<1>8. ASSUME NEW d \in Daemons, Unlink(d) PROVE OthersOff' /\ SoleBinds' /\ SoleDaemonReachable'
  BY <1>8 DEF Unlink, Goto, config, ipc, query, TypeOK, PathIsServed, OthersOff,
      SoleBinds, SoleDaemonReachable, Open, Served, Procs, Loading, Writing, Binding, Up, Closing,
      Asking
<1>9. ASSUME NEW d \in Daemons, Bind(d) PROVE OthersOff' /\ SoleBinds' /\ SoleDaemonReachable'
  BY <1>9 DEF Bind, Goto, config, ipc, query, TypeOK, PathIsServed, OthersOff, SoleBinds,
      SoleDaemonReachable, Open, Served, Procs, Loading, Writing, Binding, Up, Closing, Asking
<1>10. ASSUME NEW d \in Daemons, TakeLock(d) PROVE OthersOff' /\ SoleBinds' /\ SoleDaemonReachable'
  BY <1>10 DEF TakeLock, Goto, config, ipc, query, TypeOK, PathIsServed, OthersOff,
      SoleBinds, SoleDaemonReachable, Open, Served, Procs, Loading, Writing, Binding, Up, Closing,
      Asking
<1>11. ASSUME NEW d \in Daemons, DropLock(d) PROVE OthersOff' /\ SoleBinds' /\ SoleDaemonReachable'
  BY <1>11 DEF DropLock, Goto, config, ipc, query, TypeOK, PathIsServed, OthersOff,
      SoleBinds, SoleDaemonReachable, Open, Served, Procs, Loading, Writing, Binding, Up, Closing,
      Asking
<1>12. ASSUME NEW d \in Daemons, Signal(d) PROVE OthersOff' /\ SoleBinds' /\ SoleDaemonReachable'
  BY <1>12 DEF Signal, Goto, config, ipc, query, TypeOK, PathIsServed, OthersOff,
      SoleBinds, SoleDaemonReachable, Open, Served, Procs, Loading, Writing, Binding, Up, Closing,
      Asking
<1>13. ASSUME NEW d \in Daemons, Stop(d) PROVE OthersOff' /\ SoleBinds' /\ SoleDaemonReachable'
  BY <1>13 DEF Stop, Goto, config, ipc, query, TypeOK, PathIsServed, OthersOff, SoleBinds,
      SoleDaemonReachable, Open, Served, Procs, Loading, Writing, Binding, Up, Closing, Asking
<1>14. ASSUME NEW d \in Daemons, CloseListener(d) PROVE OthersOff' /\ SoleBinds' /\ SoleDaemonReachable'
  BY <1>14 DEF CloseListener, Disconnects, Queued, Goto, config, ipc, query, TypeOK,
      PathIsServed, OthersOff, SoleBinds, SoleDaemonReachable, Open, Served, Procs, Loading,
      Writing, Binding, Up, Closing, Asking
<1>15. ASSUME NEW d \in Daemons, RemovePath(d) PROVE OthersOff' /\ SoleBinds' /\ SoleDaemonReachable'
  BY <1>15 DEF RemovePath, Goto, config, ipc, query, TypeOK, PathIsServed, OthersOff,
      SoleBinds, SoleDaemonReachable, Open, Served, Procs, Loading, Writing, Binding, Up, Closing,
      Asking
<1>16. ASSUME NEW d \in Daemons, Exit(d) PROVE OthersOff' /\ SoleBinds' /\ SoleDaemonReachable'
  BY <1>16 DEF Exit, Off, Disconnects, Goto, config, ipc, query, TypeOK, PathIsServed,
      OthersOff, SoleBinds, SoleDaemonReachable, Open, Served, Procs, Loading, Writing, Binding,
      Up, Closing, Asking
<1>17. ASSUME NEW d \in Daemons, Crash(d) PROVE OthersOff' /\ SoleBinds' /\ SoleDaemonReachable'
  BY <1>17 DEF Crash, Off, Disconnects, Goto, config, ipc, query, TypeOK, PathIsServed,
      OthersOff, SoleBinds, SoleDaemonReachable, Open, Served, Procs, Loading, Writing, Binding,
      Up, Closing, Asking
<1>18. ASSUME NEW d \in Daemons, AcceptFails(d) PROVE OthersOff' /\ SoleBinds' /\ SoleDaemonReachable'
  BY <1>18 DEF AcceptFails, Goto, config, ipc, query, TypeOK, PathIsServed, OthersOff,
      SoleBinds, SoleDaemonReachable, Open, Served, Procs, Loading, Writing, Binding, Up, Closing,
      Asking
<1>19. ASSUME NEW d \in Daemons, Wake(d) PROVE OthersOff' /\ SoleBinds' /\ SoleDaemonReachable'
  BY <1>19 DEF Wake, Goto, config, ipc, query, TypeOK, PathIsServed, OthersOff, SoleBinds,
      SoleDaemonReachable, Open, Served, Procs, Loading, Writing, Binding, Up, Closing, Asking
<1>20. ASSUME NEW d \in Daemons, ServeReturns(d) PROVE OthersOff' /\ SoleBinds' /\ SoleDaemonReachable'
  BY <1>20 DEF ServeReturns, Goto, config, ipc, query, TypeOK, PathIsServed, OthersOff,
      SoleBinds, SoleDaemonReachable, Open, Served, Procs, Loading, Writing, Binding, Up, Closing,
      Asking
<1>21. ASSUME NEW c \in Clients, Ask(c) PROVE OthersOff' /\ SoleBinds' /\ SoleDaemonReachable'
  BY <1>21 DEF Ask, Start, Goto, config, ipc, query, TypeOK, PathIsServed, OthersOff,
      SoleBinds, SoleDaemonReachable, Open, Served, Procs, Loading, Writing, Binding, Up, Closing,
      Asking
<1>22. ASSUME NEW c \in Clients, Dial(c) PROVE OthersOff' /\ SoleBinds' /\ SoleDaemonReachable'
  BY <1>22 DEF Dial, Finish, Goto, config, ipc, query, TypeOK, PathIsServed, OthersOff,
      SoleBinds, SoleDaemonReachable, Open, Served, Procs, Loading, Writing, Binding, Up, Closing,
      Asking
<1>23. ASSUME NEW c \in Clients, Accept(c) PROVE OthersOff' /\ SoleBinds' /\ SoleDaemonReachable'
  BY <1>23 DEF Accept, Goto, config, ipc, query, TypeOK, PathIsServed, OthersOff,
      SoleBinds, SoleDaemonReachable, Open, Served, Procs, Loading, Writing, Binding, Up, Closing,
      Asking
<1>24. ASSUME NEW c \in Clients, Answer(c) PROVE OthersOff' /\ SoleBinds' /\ SoleDaemonReachable'
  BY <1>24 DEF Answer, Finish, Goto, config, ipc, query, TypeOK, PathIsServed, OthersOff,
      SoleBinds, SoleDaemonReachable, Open, Served, Procs, Loading, Writing, Binding, Up, Closing,
      Asking
<1>25. ASSUME NEW c \in Clients, Expire(c) PROVE OthersOff' /\ SoleBinds' /\ SoleDaemonReachable'
  BY <1>25 DEF Expire, Finish, Goto, config, ipc, query, TypeOK, PathIsServed, OthersOff,
      SoleBinds, SoleDaemonReachable, Open, Served, Procs, Loading, Writing, Binding, Up, Closing,
      Asking
<1>26. ASSUME Edit PROVE OthersOff' /\ SoleBinds' /\ SoleDaemonReachable'
  BY <1>26 DEF Edit, Goto, config, ipc, query, TypeOK, PathIsServed, OthersOff, SoleBinds,
      SoleDaemonReachable, Open, Served, Procs, Loading, Writing, Binding, Up, Closing, Asking
<1>27. CASE UNCHANGED vars
  BY <1>27 DEF vars, TypeOK, PathIsServed, OthersOff,
      SoleBinds, SoleDaemonReachable, Open, Served, Procs, Loading, Writing, Binding, Up, Closing,
      Asking
<1>28. ASSUME NEW d \in Daemons, ServerFails(d) PROVE OthersOff' /\ SoleBinds' /\ SoleDaemonReachable'
  BY <1>28 DEF ServerFails, Goto, config, ipc, query, TypeOK, PathIsServed, OthersOff, SoleBinds,
      SoleDaemonReachable, Open, Served, Procs,
      Loading, Writing, Binding, Up, Closing, Asking
<1> QED
  BY <1>1, <1>2, <1>3, <1>4, <1>5, <1>6, <1>7, <1>8, <1>9, <1>10, <1>11, <1>12,
     <1>13, <1>14, <1>15, <1>16, <1>17, <1>18, <1>19, <1>20, <1>21, <1>22, <1>23, <1>24,
     <1>25, <1>26, <1>27, <1>28
     DEF Next, Loads, Runs, Serves, Queries

-----------------------------------------------------------------------------
(* The invariant holds at the start, every step keeps it, and the properties follow. *)
LEMMA InvInit == Init => IInv
<1> SUFFICES ASSUME Init PROVE IInv
  OBVIOUS
<1>1. /\ missed = [p \in Procs |-> FALSE] /\ term = [d \in Daemons |-> FALSE]
      /\ alone = [d \in Daemons |-> FALSE]
  BY DEF Init
<1>2. /\ missed \in [Procs -> BOOLEAN] /\ term \in [Daemons -> BOOLEAN]
      /\ alone \in [Daemons -> BOOLEAN] /\ \A d \in Daemons : ~alone[d]
  BY <1>1, Zenon
<1>3. TypeOK
  BY <1>2, DaemonAssumption DEF Init, TypeOK, Procs, Asking, Open, Served
<1>4. PathIsServed
  BY DaemonAssumption DEF Init, PathIsServed
<1>5. FileWatched
  BY DEF Init, FileWatched, Loading, Writing
<1>6. OthersOff /\ SoleBinds /\ SoleDaemonReachable
  BY <1>2 DEF OthersOff, SoleBinds, SoleDaemonReachable
<1> QED BY <1>3, <1>4, <1>5, <1>6 DEF IInv

LEMMA InvStep == IInv /\ [Next]_vars => IInv'
<1> SUFFICES ASSUME IInv, [Next]_vars PROVE IInv'
  OBVIOUS
<1>1. TypeOK' /\ FileWatched' /\ PathIsServed'
  BY TypeStep, FileStep, PathStep DEF IInv
<1>2. OthersOff' /\ SoleBinds' /\ SoleDaemonReachable'
  BY SoleStep DEF IInv
<1> QED BY <1>1, <1>2 DEF IInv

THEOREM Invariance == Spec => []IInv
  BY InvInit, InvStep, PTL DEF Spec

(* The variables keep their types, however many daemons and queries there are. *)
THEOREM Typing == Spec => []TypeOK
<1>1. IInv => TypeOK
  BY DEF IInv
<1> QED BY <1>1, Invariance, PTL

(* The path names an open listener, what a crash left, or nothing. *)
THEOREM PathServed == Spec => []PathIsServed
<1>1. IInv => PathIsServed
  BY DEF IInv
<1> QED BY <1>1, Invariance, PTL

(* A daemon no other ran beside is the one a query reaches. *)
THEOREM SoleReachable == Spec => []SoleDaemonReachable
<1>1. IInv => SoleDaemonReachable
  BY DEF IInv
<1> QED BY <1>1, Invariance, PTL

(* Every daemon that goes into service has read a sound configuration: Read refuses
   the rest, whatever happened to the file since the process looked at it first. *)
THEOREM LoadsOnlySound == Spec => LoadsSound
<1>1. ASSUME TypeOK, [Next]_vars
      PROVE  \A d \in Daemons : pc[d] = "read" /\ pc'[d] = "lstat" => ConfigSound(file)
  <2> SUFFICES ASSUME NEW d \in Daemons, pc[d] = "read", pc'[d] = "lstat"
               PROVE  ConfigSound(file)
    OBVIOUS
  <2>1. file \in Texts /\ ~Refused(file)
    <3>1. ASSUME NEW p \in Procs, Loads(p) PROVE file \in Texts /\ ~Refused(file)
      BY <3>1, <1>1, DaemonAssumption DEF Loads, Create, Fill, LoadFails, Stat, Read,
         Written, Loaded, Unloaded, Goto, config, ipc, query, TypeOK, Procs, Up, Closing,
         Asking, Loading, Writing
    <3>2. ASSUME NEW e \in Daemons, Runs(e) PROVE file \in Texts /\ ~Refused(file)
      BY <3>2, <1>1, DaemonAssumption DEF Runs, Ensure, Lstat, Unlink, Bind, ServerFails, TakeLock,
         DropLock, Signal, Stop, CloseListener, RemovePath, Exit, Crash, Start,
         Disconnects, Queued, Off, Goto, config, ipc, query, TypeOK, Procs, Up, Closing,
         Asking, Loading, Writing
    <3>3. ASSUME NEW e \in Daemons, Serves(e) PROVE file \in Texts /\ ~Refused(file)
      BY <3>3, <1>1, DaemonAssumption DEF Serves, AcceptFails, Wake, ServeReturns, Goto,
         config, ipc, query, TypeOK, Procs, Up, Closing, Asking, Loading, Writing
    <3>4. ASSUME NEW c \in Clients, Queries(c) PROVE file \in Texts /\ ~Refused(file)
      BY <3>4, <1>1, DaemonAssumption DEF Queries, Ask, Dial, Accept, Answer, Expire,
         Start, Finish, Goto, config, ipc, query, TypeOK, Procs, Up, Closing, Asking,
         Loading, Writing
    <3>5. ASSUME Edit PROVE file \in Texts /\ ~Refused(file)
      BY <3>5, <1>1, DaemonAssumption DEF Edit, Goto, config, ipc, query, TypeOK, Procs,
         Up, Closing, Asking, Loading, Writing
    <3>6. CASE UNCHANGED vars
      BY <3>6, <1>1, DaemonAssumption DEF vars, TypeOK, Procs, Up, Closing, Asking, Loading, Writing
    <3> QED
      BY <1>1, <3>1, <3>2, <3>3, <3>4, <3>5, <3>6 DEF Next
  <2> QED BY <2>1, AcceptedIsSound
<1>2. TypeOK /\ [Next]_vars => [\A d \in Daemons : pc[d] = "read" /\ pc'[d] = "lstat" => ConfigSound(file)]_vars
  BY <1>1
<1> QED BY <1>2, Typing, PTL DEF Spec, LoadsSound

(* The operator's text is written over only by a process that could have found the
   file missing since it started. *)
THEOREM TextKept == Spec => OperatorTextKept
<1> DEFINE Kept ==
        (file \in Customs /\ file' \notin Customs \cup {NoFile}) =>
            (\E p \in Procs : missed[p] /\ pc[p] \in Writing)
<1>1. ASSUME IInv, [Next]_vars PROVE Kept
  <2> SUFFICES ASSUME file \in Customs, file' \notin Customs \cup {NoFile}
               PROVE  \E p \in Procs : missed[p] /\ pc[p] \in Writing
    OBVIOUS
  <2>1. \E p \in Procs : pc[p] \in Writing
    <3>1. ASSUME NEW p \in Procs, Loads(p) PROVE \E q \in Procs : pc[q] \in Writing
      BY <3>1 DEF Loads, Create, Fill, LoadFails, Stat, Read, Written, Loaded, Unloaded,
         Goto, config, ipc, query, Writing
    <3>2. ASSUME NEW e \in Daemons, Runs(e) PROVE \E q \in Procs : pc[q] \in Writing
      BY <3>2 DEF Runs, Ensure, Lstat, Unlink, Bind, ServerFails, TakeLock, DropLock, Signal, Stop,
         CloseListener, RemovePath, Exit, Crash, Start, Disconnects, Queued, Off, Goto,
         config, ipc, query, Writing
    <3>3. ASSUME NEW e \in Daemons, Serves(e) PROVE \E q \in Procs : pc[q] \in Writing
      BY <3>3 DEF Serves, AcceptFails, Wake, ServeReturns, Goto, config, ipc, query,
         Writing
    <3>4. ASSUME NEW c \in Clients, Queries(c) PROVE \E q \in Procs : pc[q] \in Writing
      BY <3>4 DEF Queries, Ask, Dial, Accept, Answer, Expire, Start, Finish, Goto, config,
         ipc, query, Writing
    <3>5. ASSUME Edit PROVE \E q \in Procs : pc[q] \in Writing
      BY <3>5 DEF Edit, Goto, config, ipc, query, Writing
    <3>6. CASE UNCHANGED vars
      BY <3>6 DEF vars, Writing
    <3> QED
      BY <1>1, <3>1, <3>2, <3>3, <3>4, <3>5, <3>6 DEF Next
  <2> QED BY <1>1, <2>1 DEF IInv, FileWatched
<1>2. IInv /\ [Next]_vars => [Kept]_vars
  BY <1>1
<1> QED BY <1>2, Invariance, PTL DEF Spec, OperatorTextKept

=============================================================================
