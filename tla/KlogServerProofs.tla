-------------------------- MODULE KlogServerProofs --------------------------
(***************************************************************************)
(* Theorems about KlogServer for any number of clients, descriptors,       *)
(* characters and faults: its typing, that the counter the server's loop   *)
(* depends on is right, that no client misses a character, and that the    *)
(* ordinary end of the loop closes nobody's connection.                    *)
(***************************************************************************)
EXTENDS KlogServer, TLAPS, FiniteSetTheorems

Serving == {"select", "accept", "read", "write", "check"}

\* What is open where the thread is.
Places ==
    /\ file_open <=> pc \in Serving \cup {"close"}
    /\ sockfd = "listening" <=> pc \in Serving \cup {"wait", "open", "close"}
    /\ sockfd = "open" <=> pc = "setup"
    /\ ~file_open => output_set = {}
    /\ pc # "write" => todo = {}
    /\ pc = "write" => pos > 0
    /\ pc = "accept" /\ ready.server => queue # <<>>
    /\ pc \in {"accept", "read"} /\ ready.file => pos < log

\* A client waits at most once, is not served yet, and has been sent nothing.
Queued ==
    /\ sockfd # "listening" => queue = <<>>
    /\ \A i, j \in 1 .. Len(queue) : queue[i] = queue[j] => i = j
    /\ \A i \in 1 .. Len(queue) :
          /\ queue[i] \notin output_set
          /\ conn[queue[i]] # "away" /\ conn[queue[i]] # "forgotten"
          /\ stream[queue[i]] = <<>>
    /\ \A c \in output_set : conn[c] # "away" /\ conn[c] # "forgotten"

\* The counter is the number of connections as long as anybody looks at it, and
\* without an error the loop only ends when there is none.
Count ==
    /\ pc \in Serving => nb_connections = Cardinality(output_set)
    /\ pc = "close" /\ ~err => output_set = {}

\* No client is connected but those that are served or wait.
Tracked ==
    \A c \in Clients :
       conn[c] \in {"here", "stalled", "gone"} => c \in output_set \/ Contains(queue, c)

IInv == TypeOK /\ Places /\ Queued /\ Count /\ Tracked

USE DEF fileVars, socketVars, clientVars, procVars, At, Goto, Fault, Backlog, Serving

-----------------------------------------------------------------------------
\* The initial state is in its types.
LEMMA TypeInit == Init => TypeOK
<1> SUFFICES ASSUME Init PROVE TypeOK OBVIOUS
<1>1. stream \in [Clients -> Seq(1 .. MaxLog)]
  BY DEF Init
<1>2. queue \in Seq(Clients) /\ Len(queue) <= Backlog
  BY DEF Init
<1>3. conn \in [Clients -> {"away", "here", "stalled", "gone", "forgotten"}]
  BY DEF Init
<1>4. ready \in [server : BOOLEAN, file : BOOLEAN]
  BY DEF Init
<1>5. log = 0 /\ pos = 0 /\ faults = 0 /\ leaked = 0 /\ nb_connections = 0
  BY DEF Init
<1>6. faults \in 0 .. MaxFaults /\ log <= MaxLog /\ pos <= log
  BY <1>5, KlogAssumption
<1>7. /\ pc = "interfaces" /\ sockfd = "none" /\ port = "free" /\ sigpipe = "default"
      /\ output_set = {} /\ todo = {} /\ file_open = FALSE /\ err = FALSE /\ up = TRUE
  BY DEF Init
<1> QED BY <1>1, <1>2, <1>3, <1>4, <1>5, <1>6, <1>7 DEF TypeOK

\* Every step keeps the types; the counter is lowered only when it is positive,
\* which is why Count is assumed.
LEMMA TypeNext ==
    ASSUME TypeOK, Places, Count, [Next]_vars
    PROVE  TypeOK'
<1> USE KlogAssumption DEF TypeOK
<1>1. CASE Interfaces BY <1>1 DEF Interfaces
<1>2. CASE Socket BY <1>2 DEF Socket
<1>3. CASE Setup BY <1>3 DEF Setup
<1>4. CASE Wait BY <1>4 DEF Wait
<1>5. CASE OpenFile BY <1>5 DEF OpenFile
<1>6. CASE OpenFileFails BY <1>6 DEF OpenFileFails, Reset
<1>7. CASE Select BY <1>7 DEF Select
<1>8. CASE SelectTimeout BY <1>8 DEF SelectTimeout
<1>9. CASE Accept BY <1>9 DEF Accept, Places
<1>10. CASE AcceptFails BY <1>10 DEF AcceptFails
<1>11. CASE NothingToAccept BY <1>11 DEF NothingToAccept
<1>12. CASE Read BY <1>12 DEF Read, Places
<1>13. CASE ReadFails BY <1>13 DEF ReadFails
<1>14. CASE NothingToRead BY <1>14 DEF NothingToRead
<1>15. ASSUME NEW c \in Clients, WriteTo(c) PROVE TypeOK'
  BY <1>15 DEF WriteTo, Places
<1>16. ASSUME NEW c \in Clients, Drop(c) PROVE TypeOK'
  <2>1. IsFiniteSet(output_set) BY FS_Subset
  <2>2. nb_connections = Cardinality(output_set) /\ c \in output_set
    BY <1>16 DEF Drop, Count
  <2>3. nb_connections # 0 BY <2>1, <2>2, FS_EmptySet
  <2> QED BY <1>16, <2>3 DEF Drop
<1>17. ASSUME NEW c \in Clients, BrokenPipe(c) PROVE TypeOK'
  BY <1>17 DEF BrokenPipe
<1>18. CASE Written BY <1>18 DEF Written
<1>19. CASE Check BY <1>19 DEF Check
<1>20. CASE CloseAll
  <2>1. conn' \in [Clients -> {"away", "here", "stalled", "gone", "forgotten"}]
    BY <1>20 DEF CloseAll
  <2>2. queue' \in Seq(Clients) /\ Len(queue') <= Backlog
    <3>1. queue' = <<>> \/ queue' = queue
      BY <1>20 DEF CloseAll
    <3>2. <<>> \in Seq(Clients) /\ Len(<<>>) <= Backlog
      OBVIOUS
    <3>3. queue \in Seq(Clients) /\ Len(queue) <= Backlog
      OBVIOUS
    <3>4. CASE queue' = queue BY <3>3, <3>4
    <3>5. CASE queue' = <<>> BY <3>2, <3>5
    <3> QED BY <3>1, <3>4, <3>5
  <2>3. /\ pc' \in {"wait", "sleep"} /\ sockfd' \in {"none", sockfd}
        /\ output_set' = {} /\ todo' = {} /\ file_open' = FALSE
        /\ UNCHANGED <<nb_connections, ready, err, leaked, port, stream, log, pos, procVars,
                       faults>>
    BY <1>20 DEF CloseAll
  <2> QED BY <2>1, <2>2, <2>3
<1>21. CASE Retry BY <1>21 DEF Retry
<1>22. ASSUME NEW c \in Clients, Connect(c) PROVE TypeOK'
  BY <1>22 DEF Connect
<1>23. ASSUME NEW c \in Clients, Behave(c) PROVE TypeOK'
  <2>1. conn' \in [Clients -> {"away", "here", "stalled", "gone", "forgotten"}]
    BY <1>23 DEF Behave
  <2> QED BY <1>23, <2>1 DEF Behave
<1>24. CASE KernelLogs BY <1>24 DEF KernelLogs
<1>25. CASE FtpMain BY <1>25 DEF FtpMain
<1>26. CASE UNCHANGED vars BY <1>26 DEF vars
<1>27. CASE SetupFails BY <1>27 DEF SetupFails
<1>28. CASE WaitFails BY <1>28 DEF WaitFails, Forget
<1>29. CASE SelectFails
  <2>1. Cardinality(output_set) \in Nat BY FS_Subset, FS_CardinalityType
  <2>2. todo = {} BY <1>29 DEF SelectFails, Places
  <2>3. conn' \in [Clients -> {"away", "here", "stalled", "gone", "forgotten"}]
    <3>1. Reset(queue) \in [Clients -> {"away", "here", "stalled", "gone", "forgotten"}]
      BY DEF Reset
    <3> QED BY <1>29, <3>1 DEF SelectFails, Forget
  <2>4. queue' \in Seq(Clients) /\ Len(queue') <= Backlog
    BY <1>29 DEF SelectFails
  <2>5. leaked' \in Nat /\ faults' \in 0 .. MaxFaults
    BY <1>29, <2>1 DEF SelectFails
  <2>6. /\ pc' = "sleep" /\ sockfd' = "none" /\ output_set' = {} /\ file_open' = FALSE
        /\ UNCHANGED <<nb_connections, ready, todo, err, port, stream, log, pos, sigpipe, up>>
    BY <1>29 DEF SelectFails
  <2> QED BY <2>2, <2>3, <2>4, <2>5, <2>6
<1>30. ASSUME NEW c \in Clients, ConnectUnheard(c) PROVE TypeOK'
  BY <1>30 DEF ConnectUnheard
<1> QED BY <1>1, <1>2, <1>3, <1>4, <1>5, <1>6, <1>7, <1>8, <1>9, <1>10, <1>11,
       <1>12, <1>13, <1>14, <1>15, <1>16, <1>17, <1>18, <1>19, <1>20, <1>21,
       <1>22, <1>23, <1>24, <1>25, <1>26, <1>27, <1>28, <1>29, <1>30
    DEF Next, Serve, Dead

\* Every step keeps what is open in step with the place of the thread.
LEMMA PlacesNext ==
    ASSUME TypeOK, Places, Queued, [Next]_vars
    PROVE  Places'
<1> USE KlogAssumption DEF TypeOK, Places
<1>1. CASE Interfaces BY <1>1 DEF Interfaces
<1>2. CASE Socket BY <1>2 DEF Socket
<1>3. CASE Setup BY <1>3 DEF Setup
<1>4. CASE Wait BY <1>4 DEF Wait
<1>5. CASE OpenFile BY <1>5 DEF OpenFile
<1>6. CASE OpenFileFails BY <1>6 DEF OpenFileFails, Reset
<1>7. CASE Select BY <1>7 DEF Select
<1>8. CASE SelectTimeout BY <1>8 DEF SelectTimeout
<1>9. CASE Accept BY <1>9 DEF Accept
<1>10. CASE AcceptFails BY <1>10 DEF AcceptFails
<1>11. CASE NothingToAccept BY <1>11 DEF NothingToAccept
<1>12. CASE Read BY <1>12 DEF Read
<1>13. CASE ReadFails BY <1>13 DEF ReadFails
<1>14. CASE NothingToRead BY <1>14 DEF NothingToRead
<1>15. ASSUME NEW c \in Clients, WriteTo(c) PROVE Places'
  BY <1>15 DEF WriteTo
<1>16. ASSUME NEW c \in Clients, Drop(c) PROVE Places'
  BY <1>16 DEF Drop
<1>17. ASSUME NEW c \in Clients, BrokenPipe(c) PROVE Places'
  BY <1>17 DEF BrokenPipe
<1>18. CASE Written BY <1>18 DEF Written
<1>19. CASE Check BY <1>19 DEF Check
<1>20. CASE CloseAll BY <1>20 DEF CloseAll
<1>21. CASE Retry BY <1>21 DEF Retry
<1>22. ASSUME NEW c \in Clients, Connect(c) PROVE Places'
  <2>1. queue' = Append(queue, c) BY <1>22 DEF Connect
  <2>2. Len(queue') = Len(queue) + 1 BY <2>1
  <2>3. queue' # <<>> BY <2>2
  <2> QED BY <1>22, <2>3 DEF Connect
<1>23. ASSUME NEW c \in Clients, Behave(c) PROVE Places'
  BY <1>23 DEF Behave
<1>24. CASE KernelLogs BY <1>24 DEF KernelLogs
<1>25. CASE FtpMain BY <1>25 DEF FtpMain
<1>26. CASE UNCHANGED vars BY <1>26 DEF vars
<1>27. CASE SetupFails BY <1>27 DEF SetupFails
<1>28. CASE WaitFails BY <1>28 DEF WaitFails, Forget
<1>29. CASE SelectFails BY <1>29 DEF SelectFails, Forget, Reset
<1>30. ASSUME NEW c \in Clients, ConnectUnheard(c) PROVE Places'
  BY <1>30 DEF ConnectUnheard
<1> QED BY <1>1, <1>2, <1>3, <1>4, <1>5, <1>6, <1>7, <1>8, <1>9, <1>10, <1>11,
       <1>12, <1>13, <1>14, <1>15, <1>16, <1>17, <1>18, <1>19, <1>20, <1>21,
       <1>22, <1>23, <1>24, <1>25, <1>26, <1>27, <1>28, <1>29, <1>30
    DEF Next, Serve, Dead

\* Every step keeps waiting and served clients apart.
LEMMA QueuedNext ==
    ASSUME TypeOK, Places, Queued, [Next]_vars
    PROVE  Queued'
<1> USE KlogAssumption DEF TypeOK, Places, Queued
<1>1. CASE Interfaces BY <1>1 DEF Interfaces
<1>2. CASE Socket BY <1>2 DEF Socket
<1>3. CASE Setup BY <1>3 DEF Setup
<1>4. CASE Wait BY <1>4 DEF Wait
<1>5. CASE OpenFile BY <1>5 DEF OpenFile
<1>6. CASE OpenFileFails BY <1>6 DEF OpenFileFails, Reset
<1>7. CASE Select BY <1>7 DEF Select
<1>8. CASE SelectTimeout BY <1>8 DEF SelectTimeout
<1>9. CASE Accept
  <2>1. queue # <<>> /\ Head(queue) = queue[1] /\ 1 \in 1 .. Len(queue)
    BY <1>9 DEF Accept
  <2>2. \A i \in 1 .. Len(Tail(queue)) : i + 1 \in 1 .. Len(queue) /\ Tail(queue)[i] = queue[i + 1]
    BY <2>1
  <2>3. /\ output_set' = output_set \cup {queue[1]} /\ queue' = Tail(queue)
        /\ UNCHANGED <<conn, stream, sockfd>> /\ sockfd = "listening"
    BY <1>9, <2>1 DEF Accept
  <2>4. \A i, k \in 1 .. Len(queue') : queue'[i] = queue'[k] => i = k
    BY <2>2, <2>3
  <2>5. \A i \in 1 .. Len(queue') : queue'[i] \notin output_set'
    BY <2>1, <2>2, <2>3
  <2>6. \A i \in 1 .. Len(queue') :
           conn[queue'[i]] # "away" /\ conn[queue'[i]] # "forgotten" /\ stream[queue'[i]] = <<>>
    <3>1. \A i \in 1 .. Len(queue') : i + 1 \in 1 .. Len(queue) /\ queue'[i] = queue[i + 1]
      BY <2>2, <2>3
    <3> HIDE DEF TypeOK, Places
    <3> QED BY <3>1
  <2>7. \A c \in output_set' : conn[c] # "away" /\ conn[c] # "forgotten"
    BY <2>1, <2>3
  <2> HIDE DEF TypeOK, Places
  <2> QED BY <2>3, <2>4, <2>5, <2>6, <2>7
<1>10. CASE AcceptFails BY <1>10 DEF AcceptFails
<1>11. CASE NothingToAccept BY <1>11 DEF NothingToAccept
<1>12. CASE Read BY <1>12 DEF Read
<1>13. CASE ReadFails BY <1>13 DEF ReadFails
<1>14. CASE NothingToRead BY <1>14 DEF NothingToRead
<1>15. ASSUME NEW c \in Clients, WriteTo(c) PROVE Queued'
  BY <1>15 DEF WriteTo
<1>16. ASSUME NEW c \in Clients, Drop(c) PROVE Queued'
  BY <1>16 DEF Drop
<1>17. ASSUME NEW c \in Clients, BrokenPipe(c) PROVE Queued'
  BY <1>17 DEF BrokenPipe
<1>18. CASE Written BY <1>18 DEF Written
<1>19. CASE Check BY <1>19 DEF Check
<1>20. CASE CloseAll BY <1>20 DEF CloseAll
<1>21. CASE Retry BY <1>21 DEF Retry
<1>22. ASSUME NEW c \in Clients, Connect(c) PROVE Queued'
  BY <1>22 DEF Connect
<1>23. ASSUME NEW c \in Clients, Behave(c) PROVE Queued'
  BY <1>23 DEF Behave
<1>24. CASE KernelLogs BY <1>24 DEF KernelLogs
<1>25. CASE FtpMain BY <1>25 DEF FtpMain
<1>26. CASE UNCHANGED vars BY <1>26 DEF vars
<1>27. CASE SetupFails BY <1>27 DEF SetupFails
<1>28. CASE WaitFails BY <1>28 DEF WaitFails, Forget
<1>29. CASE SelectFails BY <1>29 DEF SelectFails, Forget, Reset
<1>30. ASSUME NEW c \in Clients, ConnectUnheard(c) PROVE Queued'
  BY <1>30 DEF ConnectUnheard
<1> QED BY <1>1, <1>2, <1>3, <1>4, <1>5, <1>6, <1>7, <1>8, <1>9, <1>10, <1>11,
       <1>12, <1>13, <1>14, <1>15, <1>16, <1>17, <1>18, <1>19, <1>20, <1>21,
       <1>22, <1>23, <1>24, <1>25, <1>26, <1>27, <1>28, <1>29, <1>30
    DEF Next, Serve, Dead

\* Every step keeps the counter right; accept counts a connection that was not
\* in the set (Queued), a failing write uncounts one that was.
LEMMA CountNext ==
    ASSUME TypeOK, Places, Queued, Count, [Next]_vars
    PROVE  Count'
<1> USE KlogAssumption DEF TypeOK, Places, Count
<1>1. CASE Interfaces BY <1>1 DEF Interfaces
<1>2. CASE Socket BY <1>2 DEF Socket
<1>3. CASE Setup BY <1>3 DEF Setup
<1>4. CASE Wait BY <1>4 DEF Wait
<1>5. CASE OpenFile
  <2>1. output_set' = {} /\ nb_connections' = 0
    BY <1>5 DEF OpenFile
  <2> QED BY <2>1, FS_EmptySet
<1>6. CASE OpenFileFails BY <1>6 DEF OpenFileFails, Reset
<1>7. CASE Select BY <1>7 DEF Select
<1>8. CASE SelectTimeout BY <1>8 DEF SelectTimeout
<1>9. CASE Accept
  <2>1. IsFiniteSet(output_set) BY FS_Subset
  <2>2. queue # <<>> /\ nb_connections = Cardinality(output_set)
    BY <1>9 DEF Accept
  <2>3. 1 \in 1 .. Len(queue) /\ Head(queue) = queue[1]
    BY <2>2
  <2>4. Head(queue) \notin output_set BY <2>3 DEF Queued
  <2>5. Cardinality(output_set \cup {Head(queue)}) = Cardinality(output_set) + 1
    BY <2>1, <2>4, FS_AddElement
  <2> QED BY <1>9, <2>2, <2>5 DEF Accept
<1>10. CASE AcceptFails BY <1>10 DEF AcceptFails
<1>11. CASE NothingToAccept BY <1>11 DEF NothingToAccept
<1>12. CASE Read BY <1>12 DEF Read
<1>13. CASE ReadFails BY <1>13 DEF ReadFails
<1>14. CASE NothingToRead BY <1>14 DEF NothingToRead
<1>15. ASSUME NEW c \in Clients, WriteTo(c) PROVE Count'
  BY <1>15 DEF WriteTo
<1>16. ASSUME NEW c \in Clients, Drop(c) PROVE Count'
  <2>1. IsFiniteSet(output_set) BY FS_Subset
  <2>2. nb_connections = Cardinality(output_set) /\ c \in output_set
    BY <1>16 DEF Drop
  <2>3. Cardinality(output_set \ {c}) = Cardinality(output_set) - 1
    BY <2>1, <2>2, FS_RemoveElement
  <2> QED BY <1>16, <2>2, <2>3 DEF Drop
<1>17. ASSUME NEW c \in Clients, BrokenPipe(c) PROVE Count'
  BY <1>17 DEF BrokenPipe
<1>18. CASE Written BY <1>18 DEF Written
<1>19. CASE Check
  <2>1. IsFiniteSet(output_set) BY FS_Subset
  <2>2. nb_connections = Cardinality(output_set) BY <1>19 DEF Check
  <2>3. CASE nb_connections > 0 BY <1>19, <2>2, <2>3 DEF Check
  <2>4. CASE nb_connections = 0
    <3>1. output_set = {} BY <2>1, <2>2, <2>4, FS_EmptySet
    <3> QED BY <1>19, <2>4, <3>1 DEF Check
  <2> QED BY <2>3, <2>4
<1>20. CASE CloseAll BY <1>20 DEF CloseAll
<1>21. CASE Retry BY <1>21 DEF Retry
<1>22. ASSUME NEW c \in Clients, Connect(c) PROVE Count'
  BY <1>22 DEF Connect
<1>23. ASSUME NEW c \in Clients, Behave(c) PROVE Count'
  BY <1>23 DEF Behave
<1>24. CASE KernelLogs BY <1>24 DEF KernelLogs
<1>25. CASE FtpMain BY <1>25 DEF FtpMain
<1>26. CASE UNCHANGED vars BY <1>26 DEF vars
<1>27. CASE SetupFails BY <1>27 DEF SetupFails
<1>28. CASE WaitFails BY <1>28 DEF WaitFails, Forget
<1>29. CASE SelectFails BY <1>29 DEF SelectFails, Forget, Reset
<1>30. ASSUME NEW c \in Clients, ConnectUnheard(c) PROVE Count'
  BY <1>30 DEF ConnectUnheard
<1> QED BY <1>1, <1>2, <1>3, <1>4, <1>5, <1>6, <1>7, <1>8, <1>9, <1>10, <1>11,
       <1>12, <1>13, <1>14, <1>15, <1>16, <1>17, <1>18, <1>19, <1>20, <1>21,
       <1>22, <1>23, <1>24, <1>25, <1>26, <1>27, <1>28, <1>29, <1>30
    DEF Next, Serve, Dead

\* Every step keeps track of who is connected: what leaves the queue or the set of
\* served connections is served, reset, closed or forgotten.
LEMMA TrackedNext ==
    ASSUME TypeOK, Places, Tracked, [Next]_vars
    PROVE  Tracked'
<1> USE DEF TypeOK, Tracked, Contains
<1>1. ASSUME UNCHANGED <<conn, output_set, queue>> PROVE Tracked'
  BY <1>1
<1>2. CASE \/ Interfaces \/ Socket \/ Setup \/ SetupFails \/ Wait \/ OpenFile \/ Select
           \/ SelectTimeout \/ AcceptFails \/ NothingToAccept \/ Read \/ ReadFails
           \/ NothingToRead \/ Written \/ Check \/ Retry \/ KernelLogs \/ FtpMain
           \/ UNCHANGED vars
  <2>1. UNCHANGED <<conn, output_set, queue>>
    BY <1>2
    DEF Interfaces, Socket, Setup, SetupFails, Wait, OpenFile, Select, SelectTimeout,
        AcceptFails, NothingToAccept, Read, ReadFails, NothingToRead, Written, Check, Retry,
        KernelLogs, FtpMain, vars
  <2> QED BY <1>1, <2>1
<1>3. CASE OpenFileFails
  <2>1. output_set = {} BY <1>3 DEF OpenFileFails, Places
  <2> QED BY <1>3, <2>1 DEF OpenFileFails, Reset
<1>4. CASE WaitFails
  <2>1. output_set = {} BY <1>4 DEF WaitFails, Places
  <2> QED BY <1>4, <2>1 DEF WaitFails, Forget
<1>5. CASE SelectFails
  BY <1>5 DEF SelectFails, Forget, Reset
<1>6. CASE Accept
  <2>1. queue # <<>> BY <1>6 DEF Accept, Places
  <2>2. ASSUME NEW i \in 1 .. Len(queue), queue[i] # Head(queue)
        PROVE  \E k \in 1 .. Len(Tail(queue)) : Tail(queue)[k] = queue[i]
    <3>1. i - 1 \in 1 .. Len(Tail(queue)) /\ Tail(queue)[i - 1] = queue[i]
      BY <2>1, <2>2
    <3> QED BY <3>1
  <2>3. /\ output_set' = output_set \cup {Head(queue)} /\ queue' = Tail(queue)
        /\ UNCHANGED conn
    BY <1>6 DEF Accept
  <2>4. ASSUME NEW c \in Clients, conn[c] \in {"here", "stalled", "gone"}
        PROVE  c \in output_set' \/ \E k \in 1 .. Len(queue') : queue'[k] = c
    <3>1. CASE c \in output_set BY <2>3, <3>1
    <3>2. CASE \E i \in 1 .. Len(queue) : queue[i] = c
      <4>1. PICK i \in 1 .. Len(queue) : queue[i] = c BY <3>2
      <4>2. CASE queue[i] = Head(queue) BY <2>3, <4>1, <4>2
      <4>3. CASE queue[i] # Head(queue)
        <5>1. \E k \in 1 .. Len(Tail(queue)) : Tail(queue)[k] = queue[i] BY <2>2, <4>3
        <5>2. queue' = Tail(queue) BY <2>3
        <5> HIDE DEF TypeOK, Tracked
        <5> QED BY <4>1, <5>1, <5>2
      <4> QED BY <4>2, <4>3
    <3> QED BY <2>4, <3>1, <3>2
  <2> QED BY <2>3, <2>4
<1>7. ASSUME NEW c \in Clients, WriteTo(c) \/ BrokenPipe(c) PROVE Tracked'
  BY <1>1, <1>7 DEF WriteTo, BrokenPipe
<1>8. ASSUME NEW c \in Clients, Drop(c) PROVE Tracked'
  BY <1>8 DEF Drop
<1>9. CASE CloseAll
  <2>1. queue' = <<>> \/ queue' = queue BY <1>9 DEF CloseAll
  <2>2. ASSUME NEW c \in Clients, conn'[c] \in {"here", "stalled", "gone"}
        PROVE  c \notin output_set /\ conn[c] = conn'[c] /\ (err => ~Contains(queue, c))
    BY <1>9, <2>2 DEF CloseAll
  <2>3. ~err => queue' = queue BY <1>9 DEF CloseAll
  <2>4. ASSUME NEW c \in Clients, conn'[c] \in {"here", "stalled", "gone"}
        PROVE  \E i \in 1 .. Len(queue') : queue'[i] = c
    <3>1. c \notin output_set /\ conn[c] = conn'[c] /\ (err => ~Contains(queue, c))
      BY <2>2, <2>4
    <3>2. \E i \in 1 .. Len(queue) : queue[i] = c
      BY <2>4, <3>1
    <3>3. ~err BY <3>1, <3>2
    <3> QED BY <2>3, <3>2, <3>3
  <2> QED BY <2>4
<1>10. ASSUME NEW c \in Clients, Connect(c) PROVE Tracked'
  <2>1. queue' = Append(queue, c) /\ conn' = [conn EXCEPT ![c] = "here"] /\ UNCHANGED output_set
    BY <1>10 DEF Connect
  <2>2. /\ Len(queue') = Len(queue) + 1 /\ queue'[Len(queue) + 1] = c
        /\ \A i \in 1 .. Len(queue) : queue'[i] = queue[i]
    BY <2>1
  <2>3. ASSUME NEW d \in Clients, conn'[d] \in {"here", "stalled", "gone"}
        PROVE  d \in output_set \/ \E i \in 1 .. Len(queue') : queue'[i] = d
    <3>1. CASE d = c
      <4>1. Len(queue) + 1 \in 1 .. Len(queue') BY <2>2
      <4> QED BY <2>2, <3>1, <4>1
    <3>2. CASE d # c
      <4>1. conn'[d] = conn[d] BY <2>1, <3>2
      <4>2. CASE d \in output_set BY <4>2
      <4>3. CASE \E i \in 1 .. Len(queue) : queue[i] = d
        <5>1. PICK i \in 1 .. Len(queue) : queue[i] = d BY <4>3
        <5>2. i \in 1 .. Len(queue') /\ queue'[i] = d BY <2>2, <5>1
        <5> QED BY <5>2
      <4> QED BY <2>3, <4>1, <4>2, <4>3
    <3> QED BY <3>1, <3>2
  <2> QED BY <2>1, <2>3
<1>11. ASSUME NEW c \in Clients, Behave(c) \/ ConnectUnheard(c) PROVE Tracked'
  <2>1. UNCHANGED <<output_set, queue>> BY <1>11 DEF Behave, ConnectUnheard
  <2>2. ASSUME NEW d \in Clients, conn'[d] \in {"here", "stalled", "gone"}
        PROVE  conn[d] \in {"here", "stalled", "gone"}
    BY <1>11, <2>2 DEF Behave, ConnectUnheard
  <2> QED BY <2>1, <2>2
<1> QED BY <1>2, <1>3, <1>4, <1>5, <1>6, <1>7, <1>8, <1>9, <1>10, <1>11 DEF Next, Serve, Dead

-----------------------------------------------------------------------------
\* The inductive invariant.
LEMMA Inductive == Spec => []IInv
<1>1. Init => IInv
  BY TypeInit, FS_EmptySet DEF Init, IInv, Places, Queued, Count, Tracked
<1>2. IInv /\ [Next]_vars => IInv'
  BY TypeNext, PlacesNext, QueuedNext, CountNext, TrackedNext DEF IInv
<1> QED BY <1>1, <1>2, PTL DEF Spec

\* Every variable of the server stays in its type; the counter never goes below
\* zero.
THEOREM TypeCorrect == Spec => []TypeOK
<1>1. IInv => TypeOK BY DEF IInv
<1> QED BY <1>1, Inductive, PTL

\* While connections are served nb_connections is their number; outside the loop
\* none is served, the file is closed, and no client is connected but those that
\* wait to be accepted and those a failing select forgot (klog.c, the loop of
\* serve_file_while_connected, its cleanup and its early return).
THEOREM CountIsRight == Spec => []Counted
<1>1. IInv => Counted
  <2>1. ASSUME Queued, Tracked, TypeOK PROVE Known = output_set \cup ToSet(queue)
    <3>1. /\ output_set \subseteq Clients /\ queue \in Seq(Clients)
          /\ \A c \in Clients :
                conn[c] \in {"here", "stalled", "gone"} <=> conn[c] \notin {"away", "forgotten"}
      BY <2>1 DEF TypeOK
    <3>2. DOMAIN queue = 1 .. Len(queue) /\ \A i \in 1 .. Len(queue) : queue[i] \in Clients
      BY <3>1
    <3>3. ASSUME NEW c \in output_set \cup ToSet(queue) PROVE c \in Known
      <4>1. CASE c \in output_set BY <2>1, <3>1, <4>1 DEF Queued, Known
      <4>2. CASE c \in ToSet(queue)
        <5>1. PICK i \in 1 .. Len(queue) : c = queue[i] BY <3>2, <4>2 DEF ToSet
        <5> QED BY <2>1, <3>1, <3>2, <5>1 DEF Queued, Known
      <4> QED BY <3>3, <4>1, <4>2
    <3>4. ASSUME NEW c \in Known PROVE c \in output_set \cup ToSet(queue)
      <4>1. c \in output_set \/ Contains(queue, c) BY <2>1, <3>4 DEF Tracked, Known
      <4>2. Contains(queue, c) => c \in ToSet(queue) BY <3>2 DEF Contains, ToSet
      <4> QED BY <4>1, <4>2
    <3> QED BY <3>3, <3>4
  <2> QED BY <2>1 DEF IInv, Places, Queued, Count, Counted
<1> QED BY <1>1, Inductive, PTL

\* Every step keeps the characters of each connection in an unbroken run.
LEMMA NoGapsNext ==
    ASSUME TypeOK, Places, Queued, NoGaps, [Next]_vars
    PROVE  NoGaps'
<1> USE KlogAssumption DEF TypeOK, Places, NoGaps, Last
<1>1. CASE Interfaces BY <1>1 DEF Interfaces
<1>2. CASE Socket BY <1>2 DEF Socket
<1>3. CASE Setup BY <1>3 DEF Setup
<1>4. CASE Wait BY <1>4 DEF Wait
<1>5. CASE OpenFile BY <1>5 DEF OpenFile
<1>6. CASE OpenFileFails BY <1>6 DEF OpenFileFails, Reset
<1>7. CASE Select BY <1>7 DEF Select
<1>8. CASE SelectTimeout BY <1>8 DEF SelectTimeout
<1>9. CASE Accept
  <2>1. queue # <<>> /\ 1 \in 1 .. Len(queue) /\ Head(queue) = queue[1]
    BY <1>9 DEF Accept
  <2>2. stream[Head(queue)] = <<>> BY <2>1 DEF Queued
  <2>3. todo = {} /\ UNCHANGED <<stream, todo, pos>>
        /\ output_set' = output_set \cup {Head(queue)}
    BY <1>9 DEF Accept
  <2> QED BY <2>2, <2>3
<1>10. CASE AcceptFails BY <1>10 DEF AcceptFails
<1>11. CASE NothingToAccept BY <1>11 DEF NothingToAccept
<1>12. CASE Read BY <1>12 DEF Read
<1>13. CASE ReadFails BY <1>13 DEF ReadFails
<1>14. CASE NothingToRead BY <1>14 DEF NothingToRead
<1>15. ASSUME NEW c \in Clients, WriteTo(c) PROVE NoGaps'
  BY <1>15 DEF WriteTo
<1>16. ASSUME NEW c \in Clients, Drop(c) PROVE NoGaps'
  BY <1>16 DEF Drop
<1>17. ASSUME NEW c \in Clients, BrokenPipe(c) PROVE NoGaps'
  BY <1>17 DEF BrokenPipe
<1>18. CASE Written BY <1>18 DEF Written
<1>19. CASE Check BY <1>19 DEF Check
<1>20. CASE CloseAll BY <1>20 DEF CloseAll
<1>21. CASE Retry BY <1>21 DEF Retry
<1>22. ASSUME NEW c \in Clients, Connect(c) PROVE NoGaps'
  BY <1>22 DEF Connect
<1>23. ASSUME NEW c \in Clients, Behave(c) PROVE NoGaps'
  BY <1>23 DEF Behave
<1>24. CASE KernelLogs BY <1>24 DEF KernelLogs
<1>25. CASE FtpMain BY <1>25 DEF FtpMain
<1>26. CASE UNCHANGED vars BY <1>26 DEF vars
<1>27. CASE SetupFails BY <1>27 DEF SetupFails
<1>28. CASE WaitFails BY <1>28 DEF WaitFails, Forget
<1>29. CASE SelectFails BY <1>29 DEF SelectFails, Forget, Reset
<1>30. ASSUME NEW c \in Clients, ConnectUnheard(c) PROVE NoGaps'
  BY <1>30 DEF ConnectUnheard
<1> QED BY <1>1, <1>2, <1>3, <1>4, <1>5, <1>6, <1>7, <1>8, <1>9, <1>10, <1>11,
       <1>12, <1>13, <1>14, <1>15, <1>16, <1>17, <1>18, <1>19, <1>20, <1>21,
       <1>22, <1>23, <1>24, <1>25, <1>26, <1>27, <1>28, <1>29, <1>30
    DEF Next, Serve, Dead

\* A client that is served has been sent, since it was accepted, the characters
\* read in an unbroken run up to the current one (klog.c, the loop that writes
\* each character to every connection and drops the broken ones).
THEOREM NothingSkipped == Spec => []NoGaps
<1>1. Init => NoGaps
  BY DEF Init, NoGaps
<1>2. IInv /\ NoGaps /\ [Next]_vars => NoGaps'
  BY NoGapsNext DEF IInv
<1> QED BY <1>1, <1>2, Inductive, PTL DEF Spec

\* A connection is given up only when its client has gone, when accept or read has
\* failed, or unclosed when select has (klog.c, the ends of
\* serve_file_while_connected).
THEOREM NobodyCutOff == Spec => ClosesOnlyGone
<1>1. IInv /\ [Next]_vars =>
         [up /\ up' => \A c \in output_set \ output_set' :
                          conn[c] = "gone" \/ err \/ conn'[c] = "forgotten"]_vars
  <2> SUFFICES ASSUME IInv, [Next]_vars, NEW c \in output_set \ output_set'
               PROVE  conn[c] = "gone" \/ err \/ conn'[c] = "forgotten"
    OBVIOUS
  <2> USE DEF IInv
  <2>1. CASE CloseAll BY <2>1 DEF CloseAll, Count, TypeOK
  <2>2. ASSUME NEW d \in Clients, Drop(d) PROVE conn[c] = "gone"
    BY <2>2 DEF Drop
  <2>3. CASE output_set \subseteq output_set' BY <2>3
  <2>4. CASE SelectFails BY <2>4 DEF SelectFails, Forget, TypeOK
  <2>5. Next => output_set \subseteq output_set' \/ CloseAll \/ SelectFails
                  \/ \E d \in Clients : Drop(d)
    BY DEF Next, Serve, Dead, vars, Interfaces, Socket, Setup, SetupFails, Wait, WaitFails,
       OpenFile, OpenFileFails, Select, SelectTimeout, Accept, AcceptFails,
       NothingToAccept, Read, ReadFails, NothingToRead, WriteTo, BrokenPipe,
       Written, Check, Retry, Connect, ConnectUnheard, Behave, KernelLogs, FtpMain
  <2> QED BY <2>1, <2>2, <2>3, <2>4, <2>5 DEF vars
<1> QED BY <1>1, Inductive, PTL DEF Spec, ClosesOnlyGone
=============================================================================
