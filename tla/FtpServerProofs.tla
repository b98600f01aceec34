-------------------------- MODULE FtpServerProofs --------------------------
(***************************************************************************)
(* Theorems about FtpServer for any number of clients, descriptors,        *)
(* commands and faults: its typing, the accounting of descriptors, and     *)
(* that it implements FtpProtocol.                                         *)
(***************************************************************************)
EXTENDS FtpServer, TLAPS

USE DEF envVars, handlerVars, serverVars

-----------------------------------------------------------------------------
(* Typing.                                                                 *)

LEMMA TypeInit == Init => TypeOK
  BY MaxCommandsAssumption
  DEF Init, TypeOK, Entries, Free, Entry, Labels, NoFd

\* Every step of a thread leaves every variable in its type.
LEMMA TypeNext ==
    ASSUME TypeOK, [Next]_vars
    PROVE  TypeOK'
<1> USE DEF TypeOK, Labels, NoFd, Goto
<1>1. CASE UNCHANGED vars
  BY <1>1 DEF vars, envVars, handlerVars, serverVars
<1>2. ASSUME NEW s \in Sessions, ThreadStep(s), ~Transfer(s)
     PROVE  TypeOK'
  <2>1. CASE Greet(s)
    BY <2>1 DEF Greet, Say, Noted, SocketKinds
  <2>2. CASE Disconnected(s)
    BY <2>2 DEF Disconnected
  <2>3. CASE Reply(s)
    BY <2>3 DEF Reply, Answer, Return, Say, Noted, SocketKinds
  <2>4. CASE Simple(s)
    BY <2>4 DEF Simple, Answer, Return, Say, Noted, SocketKinds, Executing
  <2>5. CASE Quit(s)
    BY <2>5 DEF Quit, Executing, Return, Say, Noted, SocketKinds
  <2>6. CASE Kill(s)
    BY <2>6 DEF Kill, Executing, Exit, Free, Entry, Entries
  <2>7. CASE Port(s)
    <3>1. CASE FreeFds = {} /\ UNCHANGED <<fdt, sin_port>>
               /\ data_fd' = [data_fd EXCEPT ![s] = NoFd]
      BY <2>7, <3>1 DEF Port
    <3>2. ASSUME NEW f \in Fds, NEW port \in BOOLEAN,
                 Open(f, Entry("port", s, "new")),
                 data_fd' = [data_fd EXCEPT ![s] = f],
                 sin_port' = [sin_port EXCEPT ![s] = port]
          PROVE  TypeOK'
      BY <2>7, <3>2 DEF Port, Open, Entry, Entries, Kinds, SocketKinds
    <3> QED BY <2>7, <3>1, <3>2 DEF Port
  <2>8. CASE PortUsage(s)
    BY <2>8 DEF PortUsage, Answer, Return, Say, Noted, SocketKinds, Executing
  <2>9. CASE ExitActive(s)
    BY <2>9 DEF ExitActive, CloseIfPositive, Close, Free, Entry, Entries
  <2>10. CASE ExitPassive(s)
    BY <2>10 DEF ExitPassive, CloseIfPositive, Close, Free, Entry, Entries
  <2>11. CASE ExitData(s)
    BY <2>11 DEF ExitData, CloseIfPositive, Close, Free, Entry, Entries
  <2>12. CASE PasvClose(s)
    BY <2>12 DEF PasvClose, Close, Free, Entry, Executing, Entries
  <2>13. CASE PasvRefused(s)
    BY <2>13 DEF PasvRefused, Answer, Return, Say, Noted, SocketKinds,
       Executing
  <2>14. CASE PasvSocket(s)
    BY <2>14 DEF PasvSocket, Entry, FreeFds, Free, Lowest, Open, Entries,
       Kinds, SocketKinds, FileKinds
  <2>15. CASE PasvListen(s)
    BY <2>15 DEF PasvListen, SocketKinds, Open, Entries, Kinds, FileKinds,
       IsNewSocket, Free, Entry
  <2>16. CASE PasvFail(s)
    BY <2>16 DEF PasvFail, AnswerThen, Say, Noted, SocketKinds
  <2>17. CASE PasvAbort(s)
    BY <2>17 DEF PasvAbort, Close, Free, Entry, Return, Entries
  <2> QED BY <1>2, <2>1, <2>2, <2>3, <2>4, <2>5, <2>6, <2>7, <2>8, <2>9, <2>10,
       <2>11, <2>12, <2>13, <2>14, <2>15, <2>16, <2>17 DEF ThreadStep, Pasv
<1>3. ASSUME NEW s \in Sessions, Transfer(s)
     PROVE  TypeOK'
  <2>1. CASE Refuse(s)
    BY <2>1 DEF Refuse, Answer, Return, Say, Noted, SocketKinds, Transfers
  <2>2. CASE Appe(s)
    BY <2>2 DEF Appe, Executing, AllCommands
  <2>3. CASE OpenLocal(s)
    BY <2>3 DEF OpenLocal, Entry, LocalKind, Lowest, FreeFds, Free, Open,
       Transfers, Entries, Kinds, SocketKinds, FileKinds
  <2>4. CASE SeekFail(s)
    BY <2>4 DEF SeekFail, AnswerThen, Say, Noted, SocketKinds
  <2>5. CASE Mark(s)
    BY <2>5 DEF Mark, SocketKinds
  <2>6. CASE Connect(s)
    BY <2>6 DEF Connect, DataOpened, SocketKinds, Open, Entries, Kinds,
       FileKinds, IsNewSocket, Free, Entry
  <2>7. CASE AcceptData(s)
    BY <2>7 DEF AcceptData
  <2>8. CASE DataRefused(s)
    <3>1. data_fd' \in [Sessions -> Fds \cup {NoFd}]
      BY <2>8 DEF DataRefused
    <3>2. CASE cmd[s] = "LIST"
      <4>1. PICK ok \in BOOLEAN : Say(s, ok) /\ Return(s, ok)
        BY <2>8, <3>2 DEF DataRefused, GiveUp, Answer
      <4>2. UNCHANGED <<fdt, active_fd, passive_fd, sin_port, gone, serverVars>>
        BY <2>8 DEF DataRefused
      <4> QED BY <3>1, <4>1, <4>2 DEF Return, Say, Noted
    <3>3. CASE cmd[s] # "LIST"
      BY <2>8, <3>1, <3>3 DEF DataRefused, GiveUp, AnswerThen, Say, Noted
    <3> QED BY <3>2, <3>3
  <2>9. CASE TransferEnd(s)
    BY <2>9 DEF TransferEnd
  <2>10. CASE TransferFail(s)
    BY <2>10 DEF TransferFail, AnswerThen, Say, Noted, SocketKinds
  <2>11. CASE Truncate(s)
    BY <2>11 DEF Truncate, SocketKinds
  <2>12. CASE TruncateFail(s)
    BY <2>12 DEF TruncateFail, AnswerThen, Say, Noted, SocketKinds
  <2>13. CASE AbortData(s)
    BY <2>13 DEF AbortData, Close, Free, Entry, Entries
  <2>14. CASE AbortFile(s)
    BY <2>14 DEF AbortFile, Close, Free, Entry, Return, Entries
  <2>15. CASE FinFile(s)
    BY <2>15 DEF FinFile, Close, Free, Entry, Entries
  <2>16. CASE FinData(s)
    BY <2>16 DEF FinData, Close, Free, Entry, Entries
  <2>17. CASE FinFailed(s)
    BY <2>17 DEF FinFailed, AnswerThen, Say, Noted, SocketKinds
  <2>18. CASE FinDir(s)
    BY <2>18 DEF FinDir, Close, Free, Entry, Entries
  <2> QED BY <1>3, <2>1, <2>2, <2>3, <2>4, <2>5, <2>6, <2>7, <2>8, <2>9, <2>10,
       <2>11, <2>12, <2>13, <2>14, <2>15, <2>16, <2>17, <2>18 DEF Transfer
<1>4. ASSUME NEW s \in Sessions, ClientStep(s)
     PROVE  TypeOK'
  <2>1. CASE Receive(s)
    BY <2>1, CommandsAssumption DEF Receive, Unlimited
  <2>2. CASE DataConnected(s)
    BY <2>2 DEF DataConnected, DataOpened, Entry, Lowest, FreeFds, Free, Open,
       Entries, Kinds, SocketKinds, FileKinds
  <2>3. CASE AcceptDataFail(s)
    BY <2>3 DEF AcceptDataFail, GiveUp, Answer, Return, Say, Noted,
       SocketKinds, AnswerThen
  <2>4. CASE HangUp(s)
    BY <2>4 DEF HangUp
  <2> QED BY <1>4, <2>1, <2>2, <2>3, <2>4 DEF ClientStep
<1>5. CASE ServerStep
  <2>1. CASE SrvExit
    BY <2>1 DEF SrvExit, Exit, Free, Entry, Entries
  <2>2. CASE SrvRetry
    BY <2>2 DEF SrvRetry, vars
  <2>3. CASE SrvSocket
    BY <2>3 DEF SrvSocket, Entry, Lowest, FreeFds, Free, Open, Entries, Kinds,
       SocketKinds, FileKinds
  <2>4. CASE SrvListen
    BY <2>4 DEF SrvListen, SocketKinds, Open, Entries, Kinds, FileKinds,
       IsNewSocket, Free, Entry
  <2>5. CASE SrvBindFail
    BY <2>5 DEF SrvBindFail, SocketKinds
  <2>6. CASE SrvAccept
    BY <2>6 DEF SrvAccept
  <2>7. ASSUME NEW s \in Sessions, SrvConnected(s)
       PROVE  TypeOK'
    BY <2>7 DEF SrvConnected, Entry, Lowest, FreeFds, Free, Open, Entries,
       Kinds, SocketKinds, FileKinds
  <2>8. CASE SrvThreadLost
    BY <2>8 DEF SrvThreadLost, Entry, Lowest, FreeFds, Free, Open, Entries,
       Kinds, SocketKinds, FileKinds
  <2>9. CASE SrvAcceptFail
    BY <2>9 DEF SrvAcceptFail, FreeFds, Free, Entry
  <2>10. CASE SrvClose
    BY <2>10 DEF SrvClose, Close, Free, Entry, Entries
  <2> QED BY <1>5, <2>1, <2>2, <2>3, <2>4, <2>5, <2>6, <2>7, <2>8, <2>9, <2>10 DEF ServerStep
<1>6. CASE Dead
  BY <1>1, <1>6 DEF Dead
<1> QED BY <1>1, <1>2, <1>3, <1>4, <1>5, <1>6 DEF Next

\* The variables keep their types: every descriptor variable is -1 or a number
\* of the table (ftp_env in cmd.h, srvfd, and the handlers' fd and dir).
THEOREM TypeCorrect == Spec => []TypeOK
<1>1. TypeOK /\ [Next]_vars => TypeOK'
  BY TypeNext
<1> QED BY TypeInit, <1>1, PTL DEF Spec

-----------------------------------------------------------------------------
(* The accounting of descriptors.                                          *)

LEMMA AccountedInit == Init => Accounted
  BY ServerAssumption DEF Init, Accounted, Free, Entry

\* A step moves one thread: the entries of the others stay where they are (or
\* are closed under them, which only frees them), and its own open entries stay
\* within Holds because each error path closes what it leaves.
LEMMA AccountedNext ==
    ASSUME TypeOK, Accounted, [Next]_vars
    PROVE  Accounted'
<1> USE DEF TypeOK, Accounted, Holds, Goto, NoFd
<1>1. CASE UNCHANGED vars
  BY <1>1 DEF vars, envVars, handlerVars, serverVars
<1>2. ASSUME NEW s \in Sessions, ThreadStep(s), ~Transfer(s)
     PROVE  Accounted'
  <2>1. CASE Greet(s)
    BY <2>1, ServerAssumption DEF Greet
  <2>2. CASE Disconnected(s)
    BY <2>2, ServerAssumption DEF Disconnected
  <2>3. CASE Reply(s)
    BY <2>3, ServerAssumption DEF Reply, Answer, Return
  <2>4. CASE Simple(s)
    BY <2>4, ServerAssumption DEF Simple, Answer, Return, Executing
  <2>5. CASE Quit(s)
    BY <2>5, ServerAssumption DEF Quit, Executing, Return
  <2>6. CASE Kill(s)
    BY <2>6, ServerAssumption DEF Kill, Executing, Exit, Free, Entry
  <2>7. CASE Port(s)
    BY <2>7, ServerAssumption DEF Port, Entry, Executing, Free, Open
  <2>8. CASE PortUsage(s)
    BY <2>8, ServerAssumption DEF PortUsage, Answer, Return, Executing
  <2>9. CASE ExitActive(s)
    BY <2>9, ServerAssumption, FdsAssumption DEF ExitActive, CloseIfPositive,
       Close, Free, Entry
  <2>10. CASE ExitPassive(s)
    BY <2>10, ServerAssumption, FdsAssumption DEF ExitPassive, CloseIfPositive,
       Close, Free, Entry
  <2>11. CASE ExitData(s)
    BY <2>11, ServerAssumption, FdsAssumption DEF ExitData, CloseIfPositive,
       Close, Free, Entry
  <2>12. CASE PasvClose(s)
    BY <2>12, ServerAssumption, FdsAssumption DEF PasvClose, Close, Free,
       Entry, Executing
  <2>13. CASE PasvRefused(s)
    BY <2>13, ServerAssumption DEF PasvRefused, Answer, Return, Executing
  <2>14. CASE PasvSocket(s)
    BY <2>14, ServerAssumption DEF PasvSocket, Entry, Free, Open
  <2>15. CASE PasvListen(s)
    BY <2>15, ServerAssumption DEF PasvListen, Open, IsNewSocket
  <2>16. CASE PasvFail(s)
    BY <2>16, ServerAssumption DEF PasvFail, AnswerThen
  <2>17. CASE PasvAbort(s)
    BY <2>17, ServerAssumption DEF PasvAbort, Close, Free, Entry, Return
  <2> QED BY <1>2, <2>1, <2>2, <2>3, <2>4, <2>5, <2>6, <2>7, <2>8, <2>9, <2>10,
       <2>11, <2>12, <2>13, <2>14, <2>15, <2>16, <2>17 DEF ThreadStep, Pasv
<1>3. ASSUME NEW s \in Sessions, Transfer(s)
     PROVE  Accounted'
  <2>1. CASE Refuse(s)
    BY <2>1, ServerAssumption DEF Refuse, Answer, Return, Transfers
  <2>2. CASE Appe(s)
    BY <2>2, ServerAssumption DEF Appe, Executing
  <2>3. CASE OpenLocal(s)
    BY <2>3, ServerAssumption DEF OpenLocal, Entry, LocalKind, Free, Open,
       Transfers
  <2>4. CASE SeekFail(s)
    BY <2>4, ServerAssumption DEF SeekFail, AnswerThen
  <2>5. CASE Mark(s)
    BY <2>5, ServerAssumption DEF Mark
  <2>6. CASE Connect(s)
    BY <2>6, ServerAssumption DEF Connect, DataOpened, Open, IsNewSocket
  <2>7. CASE AcceptData(s)
    BY <2>7, ServerAssumption DEF AcceptData
  <2>8. CASE DataRefused(s)
    BY <2>8, ServerAssumption DEF DataRefused, GiveUp, Answer, Return,
       AnswerThen
  <2>9. CASE TransferEnd(s)
    BY <2>9, ServerAssumption DEF TransferEnd
  <2>10. CASE TransferFail(s)
    BY <2>10, ServerAssumption DEF TransferFail, AnswerThen
  <2>11. CASE Truncate(s)
    BY <2>11, ServerAssumption DEF Truncate
  <2>12. CASE TruncateFail(s)
    BY <2>12, ServerAssumption DEF TruncateFail, AnswerThen
  <2>13. CASE AbortData(s)
    BY <2>13, ServerAssumption DEF AbortData, Close, Free, Entry
  <2>14. CASE AbortFile(s)
    BY <2>14, ServerAssumption DEF AbortFile, Close, Free, Entry, Return
  <2>15. CASE FinFile(s)
    BY <2>15, ServerAssumption DEF FinFile, Close, Free, Entry
  <2>16. CASE FinData(s)
    BY <2>16, ServerAssumption DEF FinData, Close, Free, Entry
  <2>17. CASE FinFailed(s)
    BY <2>17, ServerAssumption DEF FinFailed, AnswerThen
  <2>18. CASE FinDir(s)
    BY <2>18, ServerAssumption DEF FinDir, Close, Free, Entry
  <2> QED BY <1>3, <2>1, <2>2, <2>3, <2>4, <2>5, <2>6, <2>7, <2>8, <2>9, <2>10,
       <2>11, <2>12, <2>13, <2>14, <2>15, <2>16, <2>17, <2>18 DEF Transfer
<1>4. ASSUME NEW s \in Sessions, ClientStep(s)
     PROVE  Accounted'
  <2>1. CASE Receive(s)
    BY <2>1, ServerAssumption DEF Receive
  <2>2. CASE DataConnected(s)
    BY <2>2, ServerAssumption DEF DataConnected, DataOpened, Entry, Free, Open
  <2>3. CASE AcceptDataFail(s)
    BY <2>3, ServerAssumption DEF AcceptDataFail, GiveUp, Answer, Return,
       AnswerThen
  <2>4. CASE HangUp(s)
    BY <2>4, ServerAssumption DEF HangUp
  <2> QED BY <1>4, <2>1, <2>2, <2>3, <2>4 DEF ClientStep
<1>5. CASE ServerStep
  <2>1. CASE SrvExit
    BY <2>1, ServerAssumption DEF SrvExit, Exit, Free, Entry
  <2>2. CASE SrvRetry
    BY <2>2, ServerAssumption DEF SrvRetry, vars
  <2>3. CASE SrvSocket
    BY <2>3, ServerAssumption DEF SrvSocket, Entry, Free, Open
  <2>4. CASE SrvListen
    BY <2>4, ServerAssumption DEF SrvListen, Open, IsNewSocket
  <2>5. CASE SrvBindFail
    BY <2>5, ServerAssumption DEF SrvBindFail
  <2>6. CASE SrvAccept
    BY <2>6, ServerAssumption DEF SrvAccept
  <2>7. ASSUME NEW s \in Sessions, SrvConnected(s)
       PROVE  Accounted'
    BY <2>7, ServerAssumption DEF SrvConnected, Entry, Free, Open
  <2>8. CASE SrvThreadLost
    BY <2>8, ServerAssumption DEF SrvThreadLost, Entry, Free, Open
  <2>9. CASE SrvAcceptFail
    BY <2>9, ServerAssumption DEF SrvAcceptFail, Free, Entry
  <2>10. CASE SrvClose
    BY <2>10, ServerAssumption DEF SrvClose, Close, Free, Entry
  <2> QED BY <1>5, <2>1, <2>2, <2>3, <2>4, <2>5, <2>6, <2>7, <2>8, <2>9, <2>10 DEF ServerStep
<1>6. CASE Dead
  BY <1>1, <1>6 DEF Dead
<1> QED BY <1>1, <1>2, <1>3, <1>4, <1>5, <1>6 DEF Next

\* No error path of a handler or of ftp_thread loses a control connection, a
\* passive socket, an accepted data connection or a file, however many clients
\* there are and however their descriptor numbers get mixed up.
THEOREM NothingLost == Spec => []Accounted
<1>1. TypeOK /\ Accounted /\ [Next]_vars => Accounted'
  BY AccountedNext
<1> QED BY AccountedInit, TypeCorrect, <1>1, PTL DEF Spec

-----------------------------------------------------------------------------
(* The dialogue with the client.                                           *)

Unanswered(s) == replied[s] \in {"none", "prelim"}

\* What has been said to the client at each place: a handler that still has to
\* answer has not, and the error exits have answered exactly when rc says so.
ReplyInv ==
    \A s \in Sessions :
        /\ pc[s] \in {"idle", "greet", "command", "pasv_socket", "pasv_bind", "mark"}
              => replied[s] = "none"
        /\ pc[s] = "ready" => replied[s] = "final"
        /\ pc[s] \in {"data_open", "data_accept"}
              => replied[s] = IF cmd[s] = "LIST" THEN "none" ELSE "prelim"
        /\ pc[s] \in {"reply", "transfer", "truncate", "fin_file", "fin_data",
                     "fin_failed", "fin_dir"}
              => Unanswered(s)
        /\ pc[s] \in {"pasv_abort", "abort_data", "abort_file"}
              => IF rc[s] THEN replied[s] = "final" ELSE Unanswered(s)

LEMMA ReplyInit == Init => ReplyInv
  BY DEF Init, ReplyInv

\* Every handler says what ReplyInv expects of it at its next place.
LEMMA ReplyNext ==
    ASSUME TypeOK, ReplyInv, [Next]_vars
    PROVE  ReplyInv'
<1> USE DEF TypeOK, ReplyInv, Unanswered, Goto
<1>1. CASE UNCHANGED vars
  BY <1>1 DEF vars, envVars, handlerVars, serverVars
<1>2. ASSUME NEW s \in Sessions, ThreadStep(s), ~Transfer(s)
     PROVE  ReplyInv'
  <2>1. CASE Greet(s)
    BY <2>1 DEF Greet, Say, Noted
  <2>2. CASE Disconnected(s)
    BY <2>2 DEF Disconnected
  <2>3. CASE Reply(s)
    BY <2>3 DEF Reply, Answer, Return, Say, Noted
  <2>4. CASE Simple(s)
    BY <2>4 DEF Simple, Answer, Return, Say, Noted, Executing
  <2>5. CASE Quit(s)
    BY <2>5 DEF Quit, Executing, Return, Say, Noted
  <2>6. CASE Kill(s)
    BY <2>6 DEF Kill, Executing, Exit
  <2>7. CASE Port(s)
    BY <2>7 DEF Port, Executing
  <2>8. CASE PortUsage(s)
    BY <2>8 DEF PortUsage, Answer, Return, Say, Noted, Executing
  <2>9. CASE ExitActive(s)
    BY <2>9 DEF ExitActive
  <2>10. CASE ExitPassive(s)
    BY <2>10 DEF ExitPassive
  <2>11. CASE ExitData(s)
    BY <2>11 DEF ExitData
  <2>12. CASE PasvClose(s)
    BY <2>12 DEF PasvClose, Executing
  <2>13. CASE PasvRefused(s)
    BY <2>13 DEF PasvRefused, Answer, Return, Say, Noted, Executing
  <2>14. CASE PasvSocket(s)
    BY <2>14 DEF PasvSocket
  <2>15. CASE PasvListen(s)
    BY <2>15 DEF PasvListen
  <2>16. CASE PasvFail(s)
    BY <2>16 DEF PasvFail, AnswerThen, Say, Noted
  <2>17. CASE PasvAbort(s)
    BY <2>17 DEF PasvAbort, Return
  <2> QED BY <1>2, <2>1, <2>2, <2>3, <2>4, <2>5, <2>6, <2>7, <2>8, <2>9, <2>10,
       <2>11, <2>12, <2>13, <2>14, <2>15, <2>16, <2>17 DEF ThreadStep, Pasv
<1>3. ASSUME NEW s \in Sessions, Transfer(s)
     PROVE  ReplyInv'
  <2>1. CASE Refuse(s)
    BY <2>1 DEF Refuse, Answer, Return, Say, Noted, Transfers
  <2>2. CASE Appe(s)
    BY <2>2 DEF Appe, Executing
  <2>3. CASE OpenLocal(s)
    BY <2>3 DEF OpenLocal, Transfers
  <2>4. CASE SeekFail(s)
    BY <2>4 DEF SeekFail, AnswerThen, Say, Noted
  <2>5. CASE Mark(s)
    BY <2>5 DEF Mark
  <2>6. CASE Connect(s)
    BY <2>6 DEF Connect, DataOpened
  <2>7. CASE AcceptData(s)
    BY <2>7 DEF AcceptData
  <2>8. CASE DataRefused(s)
    BY <2>8 DEF DataRefused, GiveUp, Answer, Return, Say, Noted, AnswerThen
  <2>9. CASE TransferEnd(s)
    BY <2>9 DEF TransferEnd
  <2>10. CASE TransferFail(s)
    BY <2>10 DEF TransferFail, AnswerThen, Say, Noted
  <2>11. CASE Truncate(s)
    BY <2>11 DEF Truncate
  <2>12. CASE TruncateFail(s)
    BY <2>12 DEF TruncateFail, AnswerThen, Say, Noted
  <2>13. CASE AbortData(s)
    BY <2>13 DEF AbortData
  <2>14. CASE AbortFile(s)
    BY <2>14 DEF AbortFile, Return
  <2>15. CASE FinFile(s)
    BY <2>15 DEF FinFile
  <2>16. CASE FinData(s)
    BY <2>16 DEF FinData
  <2>17. CASE FinFailed(s)
    BY <2>17 DEF FinFailed, AnswerThen, Say, Noted
  <2>18. CASE FinDir(s)
    BY <2>18 DEF FinDir
  <2> QED BY <1>3, <2>1, <2>2, <2>3, <2>4, <2>5, <2>6, <2>7, <2>8, <2>9, <2>10,
       <2>11, <2>12, <2>13, <2>14, <2>15, <2>16, <2>17, <2>18 DEF Transfer
<1>4. ASSUME NEW s \in Sessions, ClientStep(s)
     PROVE  ReplyInv'
  <2>1. CASE Receive(s)
    BY <2>1 DEF Receive
  <2>2. CASE DataConnected(s)
    BY <2>2 DEF DataConnected, DataOpened
  <2>3. CASE AcceptDataFail(s)
    BY <2>3 DEF AcceptDataFail, GiveUp, Answer, Return, Say, Noted, AnswerThen
  <2>4. CASE HangUp(s)
    BY <2>4 DEF HangUp
  <2> QED BY <1>4, <2>1, <2>2, <2>3, <2>4 DEF ClientStep
<1>5. CASE ServerStep
  <2>1. CASE SrvExit
    BY <2>1 DEF SrvExit, Exit
  <2>2. CASE SrvRetry
    BY <2>2 DEF SrvRetry, vars
  <2>3. CASE SrvSocket
    BY <2>3 DEF SrvSocket
  <2>4. CASE SrvListen
    BY <2>4 DEF SrvListen
  <2>5. CASE SrvBindFail
    BY <2>5 DEF SrvBindFail
  <2>6. CASE SrvAccept
    BY <2>6 DEF SrvAccept
  <2>7. ASSUME NEW s \in Sessions, SrvConnected(s)
       PROVE  ReplyInv'
    BY <2>7 DEF SrvConnected
  <2>8. CASE SrvThreadLost
    BY <2>8 DEF SrvThreadLost
  <2>9. CASE SrvAcceptFail
    BY <2>9 DEF SrvAcceptFail
  <2>10. CASE SrvClose
    BY <2>10 DEF SrvClose
  <2> QED BY <1>5, <2>1, <2>2, <2>3, <2>4, <2>5, <2>6, <2>7, <2>8, <2>9, <2>10 DEF ServerStep
<1>6. CASE Dead
  BY <1>1, <1>6 DEF Dead
<1> QED BY <1>1, <1>2, <1>3, <1>4, <1>5, <1>6 DEF Next

\* The moves a session makes in FtpProtocol.
PhaseMove(p, q) ==
    \/ p = q
    \/ p = "closed" /\ q = "greeting"
    \/ p = "greeting" /\ q = "await"
    \/ p = "await" /\ q = "none"
    \/ p = "none" /\ q = "prelim"
    \/ p \in {"none", "prelim"} /\ q \in {"final", "await"}
    \/ p = "final" /\ q = "await"
    \/ p \in {"greeting", "await", "none", "prelim", "final"} /\ q = "leaving"
    \/ p = "leaving" /\ q = "closed"

\* A step that moves no session but s, and s as FtpProtocol allows.
Moves(s) ==
    /\ \A t \in Sessions \ {s} : pc'[t] = pc[t] /\ replied'[t] = replied[t]
    /\ PhaseMove(Phase(s), Phase(s)')

LEMMA MovesRefine ==
    ASSUME NEW s \in Sessions, TypeOK, TypeOK', Moves(s)
    PROVE  [Protocol!Next]_phase
<1>1. phase' = [phase EXCEPT ![s] = Phase(s)']
  BY DEF Moves, phase, Phase
<1>2. phase[s] = Phase(s)
  BY DEF phase
<1>3. CASE Phase(s) = Phase(s)'
  <2>1. phase' = phase
    BY <1>1, <1>2, <1>3 DEF phase
  <2> QED BY <2>1
<1>4. CASE Phase(s) # Phase(s)'
  BY <1>1, <1>2, <1>4
  DEF Moves, PhaseMove, Protocol!Next, Protocol!Move, Protocol!Arrive,
      Protocol!Greet, Protocol!Command, Protocol!Mark, Protocol!Answer,
      Protocol!Return, Protocol!Leave, Protocol!Close
<1> QED BY <1>3, <1>4

\* The handlers other than the transfers, and ftp_thread.
LEMMA ThreadMoves ==
    ASSUME NEW s \in Sessions, TypeOK, ReplyInv, ThreadStep(s), ~Kill(s), ~Transfer(s)
    PROVE  Moves(s)
<1> USE DEF TypeOK, ReplyInv, Unanswered, Moves, PhaseMove, Phase, Goto
<1>1. CASE Greet(s)
  BY <1>1 DEF Greet, Say, Noted
<1>2. CASE Disconnected(s)
  BY <1>2 DEF Disconnected
<1>3. CASE Reply(s)
  BY <1>3 DEF Reply, Answer, Return, Say, Noted
<1>4. CASE Simple(s)
  BY <1>4 DEF Simple, Answer, Return, Say, Noted, Executing
<1>5. CASE Quit(s)
  BY <1>5 DEF Quit, Executing, Return, Say, Noted
<1>6. CASE Port(s)
  BY <1>6 DEF Port, Executing
<1>7. CASE PortUsage(s)
  BY <1>7 DEF PortUsage, Answer, Return, Say, Noted, Executing
<1>8. CASE ExitActive(s)
  BY <1>8 DEF ExitActive
<1>9. CASE ExitPassive(s)
  BY <1>9 DEF ExitPassive
<1>10. CASE ExitData(s)
  BY <1>10 DEF ExitData
<1>11. CASE PasvClose(s)
  BY <1>11 DEF PasvClose, Executing
<1>12. CASE PasvRefused(s)
  BY <1>12 DEF PasvRefused, Answer, Return, Say, Noted, Executing
<1>13. CASE PasvSocket(s)
  BY <1>13 DEF PasvSocket
<1>14. CASE PasvListen(s)
  BY <1>14 DEF PasvListen
<1>15. CASE PasvFail(s)
  BY <1>15 DEF PasvFail, AnswerThen, Say, Noted
<1>16. CASE PasvAbort(s)
  BY <1>16 DEF PasvAbort, Return
<1> QED BY <1>1, <1>2, <1>3, <1>4, <1>5, <1>6, <1>7, <1>8, <1>9, <1>10, <1>11,
     <1>12, <1>13, <1>14, <1>15, <1>16 DEF ThreadStep, Pasv

\* The handlers of LIST, RETR, STOR and APPE.
LEMMA TransferMoves ==
    ASSUME NEW s \in Sessions, TypeOK, ReplyInv, Transfer(s)
    PROVE  Moves(s)
<1> USE DEF TypeOK, ReplyInv, Unanswered, Moves, PhaseMove, Phase, Goto
<1>1. CASE Refuse(s)
  BY <1>1 DEF Refuse, Answer, Return, Say, Noted, Transfers
<1>2. CASE Appe(s)
  BY <1>2 DEF Appe, Executing
<1>3. CASE OpenLocal(s)
  BY <1>3 DEF OpenLocal, Transfers
<1>4. CASE SeekFail(s)
  BY <1>4 DEF SeekFail, AnswerThen, Say, Noted
<1>5. CASE Mark(s)
  BY <1>5 DEF Mark
<1>6. CASE Connect(s)
  BY <1>6 DEF Connect, DataOpened
<1>7. CASE AcceptData(s)
  BY <1>7 DEF AcceptData
<1>8. CASE DataRefused(s)
  BY <1>8 DEF DataRefused, GiveUp, Answer, Return, Say, Noted, AnswerThen
<1>9. CASE TransferEnd(s)
  BY <1>9 DEF TransferEnd
<1>10. CASE TransferFail(s)
  BY <1>10 DEF TransferFail, AnswerThen, Say, Noted
<1>11. CASE Truncate(s)
  BY <1>11 DEF Truncate
<1>12. CASE TruncateFail(s)
  BY <1>12 DEF TruncateFail, AnswerThen, Say, Noted
<1>13. CASE AbortData(s)
  BY <1>13 DEF AbortData
<1>14. CASE AbortFile(s)
  BY <1>14 DEF AbortFile, Return
<1>15. CASE FinFile(s)
  BY <1>15 DEF FinFile
<1>16. CASE FinData(s)
  BY <1>16 DEF FinData
<1>17. CASE FinFailed(s)
  BY <1>17 DEF FinFailed, AnswerThen, Say, Noted
<1>18. CASE FinDir(s)
  BY <1>18 DEF FinDir
<1> QED BY <1>1, <1>2, <1>3, <1>4, <1>5, <1>6, <1>7, <1>8, <1>9, <1>10, <1>11,
     <1>12, <1>13, <1>14, <1>15, <1>16, <1>17, <1>18 DEF Transfer

\* The steps that need the client.
LEMMA ClientMoves ==
    ASSUME NEW s \in Sessions, TypeOK, ReplyInv, ClientStep(s)
    PROVE  Moves(s)
<1> USE DEF TypeOK, ReplyInv, Unanswered, Moves, PhaseMove, Phase, Goto
<1>1. CASE Receive(s)
  BY <1>1 DEF Receive
<1>2. CASE DataConnected(s)
  BY <1>2 DEF DataConnected, DataOpened
<1>3. CASE AcceptDataFail(s)
  BY <1>3 DEF AcceptDataFail, GiveUp, Answer, Return, Say, Noted, AnswerThen
<1>4. CASE HangUp(s)
  BY <1>4 DEF HangUp
<1> QED BY <1>1, <1>2, <1>3, <1>4 DEF ClientStep

\* The end of the process ends every session.
LEMMA ExitDies == ASSUME Exit PROVE [Protocol!Next]_phase
  BY DEF Exit, phase, Phase, Protocol!Next, Protocol!Die

LEMMA StepRefines ==
    ASSUME TypeOK, TypeOK', ReplyInv, [Next]_vars
    PROVE  [Protocol!Next]_phase
<1>1. ASSUME UNCHANGED <<pc, replied>>
      PROVE  [Protocol!Next]_phase
  BY <1>1 DEF phase, Phase
<1>2. ASSUME NEW s \in Sessions, ThreadStep(s) \/ ClientStep(s)
      PROVE  [Protocol!Next]_phase
  <2>1. CASE Kill(s)
    BY <2>1, ExitDies DEF Kill
  <2>2. CASE Moves(s)
    BY <2>2, MovesRefine
  <2> QED BY <1>2, <2>1, <2>2, ThreadMoves, TransferMoves, ClientMoves
<1>3. CASE ServerStep
  <2>1. CASE SrvExit
    BY <2>1, ExitDies DEF SrvExit
  <2>2. ASSUME NEW s \in Sessions, SrvConnected(s)
        PROVE  [Protocol!Next]_phase
    <3>1. Moves(s)
      BY <2>2 DEF SrvConnected, Moves, PhaseMove, Phase, Goto, TypeOK
    <3> QED BY <3>1, MovesRefine
  <2>3. CASE \/ SrvRetry \/ SrvSocket \/ SrvListen \/ SrvBindFail \/ SrvAccept
             \/ SrvThreadLost \/ SrvAcceptFail \/ SrvClose
    BY <1>1, <2>3 DEF SrvRetry, SrvSocket, SrvListen, SrvBindFail, SrvAccept,
       SrvThreadLost, SrvAcceptFail, SrvClose, vars
  <2> QED BY <1>3, <2>1, <2>2, <2>3 DEF ServerStep
<1>4. CASE Dead \/ UNCHANGED vars
  BY <1>1, <1>4 DEF Dead, vars
<1> QED BY <1>2, <1>3, <1>4 DEF Next

\* Every command gets exactly one final reply before the next is read, and at
\* most one mark before that: FtpServer implements FtpProtocol, for any number
\* of clients and under every fault.
THEOREM Conversation == Spec => LockStep
<1>1. Init => Protocol!Init
  BY DEF Init, Protocol!Init, phase, Phase
<1>2. TypeOK /\ ReplyInv /\ [Next]_vars => ReplyInv'
  BY ReplyNext
<1>3. TypeOK /\ TypeOK' /\ ReplyInv /\ [Next]_vars => [Protocol!Next]_phase
  BY StepRefines
<1> QED BY TypeCorrect, ReplyInit, <1>1, <1>2, <1>3, PTL
        DEF Spec, LockStep, Protocol!Spec

-----------------------------------------------------------------------------
(* One client at a time.                                                   *)

\* No two clients are served at once ...
Alone == \A s, t \in Sessions : s = t

\* ... and the acceptor's accept does not fail: it would open another socket
\* while a client is served.
Listening == srv # "close"

\* What each thread has open, at each place.
OwnData(s) == Owned(data_fd[s], s, {"accepted", "port"})
OwnFile(s) == Owned(local_fd[s], s, FileKinds)

Opened(s) ==
    /\ pc[s] \notin {"idle", "exit_passive", "exit_data"} => Owned(active_fd[s], s, {"control"})
    /\ pc[s] \in {"pasv_bind", "pasv_abort"} => Owned(passive_fd[s], s, {"passive"})
    /\ pc[s] \in {"mark", "data_open", "data_accept", "transfer", "truncate", "abort_data",
                 "abort_file", "fin_file", "fin_failed", "fin_dir"} => OwnFile(s)
    /\ pc[s] = "fin_data" /\ cmd[s] = "LIST" => OwnFile(s)
    /\ pc[s] \in {"transfer", "truncate", "abort_data", "fin_file", "fin_data"} => OwnData(s)
    /\ pc[s] = "mark" /\ cmd[s] = "LIST" => OwnData(s)
    /\ pc[s] \in {"truncate", "fin_file"} => cmd[s] # "LIST"

\* Numbers that earlier commands left behind denote neither the control
\* connection nor a socket of the acceptor's.
Stale(s) ==
    \A n \in {passive_fd[s], data_fd[s]} :
        /\ pc[s] \notin {"idle", "exit_passive", "exit_data"} => n # active_fd[s]
        /\ n \in Fds => fdt[n].kind # "listener"

\* The acceptor keeps its socket while a client is served.
Listens ==
    /\ srv \in {"sleep", "bind"} => \A s \in Sessions : pc[s] = "idle"
    /\ srv # "sleep" => Owned(srvfd, Server, {"listener"})
    /\ srv \in {"accept", "waiting"} => IsListening(srvfd)
    /\ srv = "bind" => IsNewSocket(srvfd)

\* Only PORT leaves a socket of a session neither bound nor connected, except
\* for the one PASV is about to bind.
News ==
    \A g \in Fds :
        /\ IsNewSocket(g) =>
              \/ fdt[g].kind = "port"
              \/ /\ fdt[g].kind = "passive"
                 /\ passive_fd[fdt[g].owner] = g
                 /\ pc[fdt[g].owner] \in {"pasv_bind", "pasv_abort"}
              \/ fdt[g].kind = "listener"
        /\ fdt[g].kind \in {"port", "passive"} => fdt[g].owner \in Sessions

IdleFds == \A s \in Sessions : pc[s] = "idle" => passive_fd[s] = NoFd /\ data_fd[s] = NoFd

LoneInv == Listens /\ News /\ IdleFds /\ \A s \in Sessions : Opened(s) /\ Stale(s)

LEMMA LoneInit == Init => LoneInv
BY ServerAssumption
DEF Init, LoneInv, Listens, News, IdleFds, Opened, Stale, IsNewSocket, Free, Entry, SocketKinds

\* Opening the lowest free number changes only its entry.
LEMMA Opening ==
    ASSUME TypeOK, NEW g \in Fds, Lowest(g), NEW e, Open(g, e)
    PROVE  /\ fdt[g].kind = "free" /\ fdt'[g] = e
           /\ \A h \in Fds : h # g => fdt'[h] = fdt[h]
BY DEF TypeOK, Lowest, FreeFds, Free, Entry, Open

\* While a client is served the acceptor's socket stays as it is ...
LEMMA ListensKept ==
    ASSUME TypeOK, Listening, LoneInv, NEW s \in Sessions, pc[s] # "idle",
           srv' = srv, srvfd' = srvfd, fdt'[srvfd] = fdt[srvfd]
    PROVE  Listens'
BY DEF TypeOK, Listening, LoneInv, Listens, Owned, IsListening

\* ... and a step that closes one descriptor of the session's keeps all but
\* what the thread counts on next.
LEMMA LoneClose ==
    ASSUME TypeOK, Alone, Listening, LoneInv, NEW s \in Sessions, NEW n, NEW l,
           fdt' = [g \in Fds |-> IF g = n THEN Free ELSE fdt[g]],
           n \in Fds => fdt[n].kind # "listener",
           pc[s] # "idle", l # "idle", pc' = [pc EXCEPT ![s] = l],
           l \in {"exit_passive", "exit_data"} \/ pc[s] \notin {"exit_passive", "exit_data"},
           pc[s] \in {"pasv_bind", "pasv_abort"} => n = passive_fd[s],
           UNCHANGED <<active_fd, passive_fd, data_fd, srv, srvfd>>
    PROVE  Listens' /\ News' /\ IdleFds' /\ Stale(s)'
<1>1. Listens'
  BY ListensKept DEF TypeOK, Listening, LoneInv, Listens, Owned
<1>2. IdleFds'
  BY DEF TypeOK, Alone, LoneInv, IdleFds
<1>3. Stale(s)'
  BY DEF TypeOK, LoneInv, Stale, Free, Entry
<1>4. News'
  <2> SUFFICES ASSUME NEW g \in Fds
      PROVE /\ IsNewSocket(g)' =>
                 \/ fdt'[g].kind = "port"
                 \/ /\ fdt'[g].kind = "passive"
                    /\ passive_fd'[fdt'[g].owner] = g
                    /\ pc'[fdt'[g].owner] \in {"pasv_bind", "pasv_abort"}
                 \/ fdt'[g].kind = "listener"
            /\ fdt'[g].kind \in {"port", "passive"} => fdt'[g].owner \in Sessions
    BY DEF News
  <2>1. CASE g = n
    BY <2>1 DEF IsNewSocket, Free, Entry, SocketKinds
  <2>2. CASE g # n
    <3>1. fdt'[g] = fdt[g] /\ (IsNewSocket(g)' => IsNewSocket(g))
      BY <2>2 DEF IsNewSocket
    <3>2. ASSUME IsNewSocket(g), fdt[g].kind = "passive"
          PROVE  passive_fd[fdt[g].owner] = g /\ fdt[g].owner = s /\ g = n
      BY <3>2 DEF LoneInv, News, Alone
    <3> QED BY <2>2, <3>1, <3>2 DEF LoneInv, News
  <2> QED BY <2>1, <2>2
<1> QED BY <1>1, <1>2, <1>3, <1>4

\* The steps that close a descriptor.
LEMMA LoneCloses ==
    ASSUME TypeOK, Alone, Listening, LoneInv, NEW s \in Sessions,
           \/ ExitActive(s) \/ ExitPassive(s) \/ PasvClose(s) \/ PasvAbort(s)
           \/ AbortData(s) \/ AbortFile(s) \/ FinFile(s) \/ FinData(s) \/ FinDir(s)
    PROVE  LoneInv'
<1> USE DEF Goto, NoFd
<1>0. /\ \A f \in Fds : f > 0
      /\ Listens' /\ News' /\ IdleFds' /\ Stale(s)' /\ Opened(s)' => LoneInv'
  BY FdsAssumption DEF LoneInv, Alone
<1>1. CASE ExitActive(s)
  <2> DEFINE n == active_fd[s]
             l == "exit_passive"
  <2>1. /\ fdt' = [g \in Fds |-> IF g = n THEN Free ELSE fdt[g]]
        /\ pc' = [pc EXCEPT ![s] = l]
    BY <1>1, <1>0 DEF TypeOK, ExitActive, CloseIfPositive, Close
  <2>2. n \in Fds => fdt[n].kind # "listener"
    BY <1>1 DEF LoneInv, Opened, Stale, Owned, OwnFile, OwnData, FileKinds, ExitActive, CloseIfPositive
  <2>3. Listens' /\ News' /\ IdleFds' /\ Stale(s)'
    BY <1>1, <2>1, <2>2, LoneClose DEF ExitActive, CloseIfPositive
  <2>4. Opened(s)'
    BY <1>1, <2>1 DEF TypeOK, LoneInv, Opened, Owned, OwnFile, OwnData, FileKinds, ExitActive, CloseIfPositive
  <2> QED BY <1>0, <2>3, <2>4
<1>2. CASE ExitPassive(s)
  <2> DEFINE n == passive_fd[s]
             l == "exit_data"
  <2>1. /\ fdt' = [g \in Fds |-> IF g = n THEN Free ELSE fdt[g]]
        /\ pc' = [pc EXCEPT ![s] = l]
    BY <1>2, <1>0 DEF TypeOK, ExitPassive, CloseIfPositive, Close
  <2>2. n \in Fds => fdt[n].kind # "listener"
    BY <1>2 DEF LoneInv, Opened, Stale, Owned, OwnFile, OwnData, FileKinds, ExitPassive, CloseIfPositive
  <2>3. Listens' /\ News' /\ IdleFds' /\ Stale(s)'
    BY <1>2, <2>1, <2>2, LoneClose DEF ExitPassive, CloseIfPositive
  <2>4. Opened(s)'
    BY <1>2, <2>1 DEF TypeOK, LoneInv, Opened, Owned, OwnFile, OwnData, FileKinds, ExitPassive, CloseIfPositive
  <2> QED BY <1>0, <2>3, <2>4
<1>3. CASE PasvClose(s)
  <2> DEFINE n == passive_fd[s]
             l == "pasv_socket"
  <2>1. /\ fdt' = [g \in Fds |-> IF g = n THEN Free ELSE fdt[g]]
        /\ pc' = [pc EXCEPT ![s] = l]
    BY <1>3, <1>0 DEF TypeOK, PasvClose, Executing, Close
  <2>2. n \in Fds => fdt[n].kind # "listener"
    BY <1>3 DEF LoneInv, Opened, Stale, Owned, OwnFile, OwnData, FileKinds, Stale,
               PasvClose, Executing
  <2>3. Listens' /\ News' /\ IdleFds' /\ Stale(s)'
    BY <1>3, <2>1, <2>2, LoneClose DEF PasvClose, Executing
  <2>4. n # active_fd[s]
    BY <1>3 DEF LoneInv, Stale, PasvClose, Executing
  <2>5. Opened(s)'
    BY <1>3, <2>1, <2>4 DEF TypeOK, LoneInv, Opened, Owned, PasvClose, Executing
  <2> QED BY <1>0, <2>3, <2>5
<1>4. CASE PasvAbort(s)
  <2> DEFINE n == passive_fd[s]
             l == IF rc[s] THEN "ready" ELSE "exit_active"
  <2>1. /\ fdt' = [g \in Fds |-> IF g = n THEN Free ELSE fdt[g]]
        /\ pc' = [pc EXCEPT ![s] = l]
    BY <1>4, <1>0 DEF TypeOK, PasvAbort, Return, Close
  <2>2. n \in Fds => fdt[n].kind # "listener"
    BY <1>4 DEF LoneInv, Opened, Stale, Owned, OwnFile, OwnData, FileKinds, PasvAbort, Return
  <2>3. Listens' /\ News' /\ IdleFds' /\ Stale(s)'
    BY <1>4, <2>1, <2>2, LoneClose DEF PasvAbort, Return
  <2>4. Opened(s)'
    BY <1>4, <2>1 DEF TypeOK, LoneInv, Opened, Owned, OwnFile, OwnData, FileKinds, PasvAbort, Return
  <2> QED BY <1>0, <2>3, <2>4
<1>5. CASE AbortData(s)
  <2> DEFINE n == data_fd[s]
             l == "abort_file"
  <2>1. /\ fdt' = [g \in Fds |-> IF g = n THEN Free ELSE fdt[g]]
        /\ pc' = [pc EXCEPT ![s] = l]
    BY <1>5, <1>0 DEF TypeOK, AbortData, Close
  <2>2. n \in Fds => fdt[n].kind # "listener"
    BY <1>5 DEF LoneInv, Opened, Stale, Owned, OwnFile, OwnData, FileKinds, AbortData
  <2>3. Listens' /\ News' /\ IdleFds' /\ Stale(s)'
    BY <1>5, <2>1, <2>2, LoneClose DEF AbortData
  <2>4. Opened(s)'
    BY <1>5, <2>1 DEF TypeOK, LoneInv, Opened, Owned, OwnFile, OwnData, FileKinds, AbortData
  <2> QED BY <1>0, <2>3, <2>4
<1>6. CASE AbortFile(s)
  <2> DEFINE n == local_fd[s]
             l == IF rc[s] THEN "ready" ELSE "exit_active"
  <2>1. /\ fdt' = [g \in Fds |-> IF g = n THEN Free ELSE fdt[g]]
        /\ pc' = [pc EXCEPT ![s] = l]
    BY <1>6, <1>0 DEF TypeOK, AbortFile, Return, Close
  <2>2. n \in Fds => fdt[n].kind # "listener"
    BY <1>6 DEF LoneInv, Opened, Stale, Owned, OwnFile, OwnData, FileKinds, AbortFile, Return
  <2>3. Listens' /\ News' /\ IdleFds' /\ Stale(s)'
    BY <1>6, <2>1, <2>2, LoneClose DEF AbortFile, Return
  <2>4. Opened(s)'
    BY <1>6, <2>1 DEF TypeOK, LoneInv, Opened, Owned, OwnFile, OwnData, FileKinds, AbortFile, Return
  <2> QED BY <1>0, <2>3, <2>4
<1>7. CASE FinFile(s)
  <2> DEFINE n == local_fd[s]
             l == "fin_data"
  <2>1. /\ fdt' = [g \in Fds |-> IF g = n THEN Free ELSE fdt[g]]
        /\ pc' = [pc EXCEPT ![s] = l]
    BY <1>7, <1>0 DEF TypeOK, FinFile, Close
  <2>2. n \in Fds => fdt[n].kind # "listener"
    BY <1>7 DEF LoneInv, Opened, Stale, Owned, OwnFile, OwnData, FileKinds, FinFile
  <2>3. Listens' /\ News' /\ IdleFds' /\ Stale(s)'
    BY <1>7, <2>1, <2>2, LoneClose DEF FinFile
  <2>4. Opened(s)'
    BY <1>7, <2>1 DEF TypeOK, LoneInv, Opened, Owned, OwnFile, OwnData, FileKinds, FinFile
  <2> QED BY <1>0, <2>3, <2>4
<1>8. CASE FinDir(s)
  <2> DEFINE n == local_fd[s]
             l == "reply"
  <2>1. /\ fdt' = [g \in Fds |-> IF g = n THEN Free ELSE fdt[g]]
        /\ pc' = [pc EXCEPT ![s] = l]
    BY <1>8, <1>0 DEF TypeOK, FinDir, Close
  <2>2. n \in Fds => fdt[n].kind # "listener"
    BY <1>8 DEF LoneInv, Opened, Stale, Owned, OwnFile, OwnData, FileKinds, FinDir
  <2>3. Listens' /\ News' /\ IdleFds' /\ Stale(s)'
    BY <1>8, <2>1, <2>2, LoneClose DEF FinDir
  <2>4. Opened(s)'
    BY <1>8, <2>1 DEF TypeOK, LoneInv, Opened, Owned, OwnFile, OwnData, FileKinds, FinDir
  <2> QED BY <1>0, <2>3, <2>4
<1>9. CASE FinData(s)
  <2> DEFINE n == data_fd[s]
  <2>1. PICK l \in {"reply", "fin_dir", "fin_failed"} :
             /\ fdt' = [g \in Fds |-> IF g = n THEN Free ELSE fdt[g]]
             /\ pc' = [pc EXCEPT ![s] = l]
             /\ l # "reply" => cmd[s] = "LIST"
    BY <1>9 DEF FinData, Close
  <2>2. n \in Fds => fdt[n].kind # "listener"
    BY <1>9 DEF LoneInv, Opened, Stale, Owned, OwnData, FinData
  <2>3. Listens' /\ News' /\ IdleFds' /\ Stale(s)'
    BY <1>9, <2>1, <2>2, LoneClose DEF FinData
  <2>4. Opened(s)'
    BY <1>9, <2>1 DEF TypeOK, LoneInv, Opened, Owned, OwnFile, OwnData, FileKinds, FinData
  <2> QED BY <1>0, <2>3, <2>4
<1> QED BY <1>1, <1>2, <1>3, <1>4, <1>5, <1>6, <1>7, <1>8, <1>9

\* The new passive socket listens, and nothing else changes.
LEMMA LonePasvListen ==
    ASSUME TypeOK, Alone, Listening, LoneInv, NEW s \in Sessions, PasvListen(s)
    PROVE  LoneInv'
<1> DEFINE n == passive_fd[s]
<1> USE DEF PasvListen, Goto, NoFd
<1>1. /\ n \in Fds /\ fdt[n].kind = "passive" /\ fdt[n].owner = s
      /\ n # active_fd[s] /\ n # srvfd
  BY ServerAssumption DEF LoneInv, Opened, Stale, Owned, Listens
<1>2. /\ fdt'[n].kind = "passive" /\ fdt'[n].owner = s /\ fdt'[n].st = "listening"
      /\ \A h \in Fds : h # n => fdt'[h] = fdt[h]
  BY <1>1 DEF TypeOK, Open, Entries, Entry, Free
<1>3. Listens'
  <2>1. fdt'[srvfd] = fdt[srvfd]
    BY <1>1, <1>2 DEF TypeOK, Listening, LoneInv, Listens, Owned
  <2> QED BY <2>1, ListensKept
<1>4. News'
  BY <1>1, <1>2 DEF TypeOK, Alone, LoneInv, News, IsNewSocket
<1>5. Opened(s)'
  BY <1>1, <1>2 DEF TypeOK, LoneInv, Opened, Owned
<1>6. IdleFds' /\ Stale(s)'
  BY <1>1, <1>2 DEF TypeOK, Alone, LoneInv, IdleFds, Stale
<1> QED BY <1>3, <1>4, <1>5, <1>6 DEF LoneInv, Alone

\* A session closes, and leaves open, what it opened itself.
LEMMA LoneNext ==
    ASSUME TypeOK, Alone, Listening, LoneInv, [Next]_vars
    PROVE  LoneInv'
<1> USE DEF TypeOK, Alone, Listening, LoneInv, Listens, News, IdleFds, Opened, Stale, OwnData,
            OwnFile, Owned, Goto, NoFd, Free, Entry, IsNewSocket, IsListening, FileKinds,
            SocketKinds
<1>1. CASE UNCHANGED vars
  BY <1>1 DEF vars, envVars, handlerVars, serverVars
<1>2. ASSUME NEW s \in Sessions, ThreadStep(s), ~Transfer(s)
     PROVE  LoneInv'
  <2>1. CASE Greet(s)
    BY <2>1, ServerAssumption, FdsAssumption DEF Greet
  <2>2. CASE Disconnected(s)
    BY <2>2, ServerAssumption, FdsAssumption DEF Disconnected
  <2>3. CASE Reply(s)
    BY <2>3, ServerAssumption, FdsAssumption DEF Reply, Answer, Return
  <2>4. CASE Simple(s)
    BY <2>4, ServerAssumption, FdsAssumption DEF Simple, Answer, Return, Executing
  <2>5. CASE Quit(s)
    BY <2>5, ServerAssumption, FdsAssumption DEF Quit, Executing, Return
  <2>6. CASE Kill(s)
    BY <2>6, ServerAssumption, FdsAssumption DEF Kill, Executing, Exit
  <2>7. CASE Port(s)
    <3>1. CASE FreeFds = {} /\ UNCHANGED <<fdt, sin_port>>
               /\ data_fd' = [data_fd EXCEPT ![s] = NoFd]
      BY <2>7, <3>1, ServerAssumption, FdsAssumption DEF Port, Executing
    <3>2. ASSUME NEW g \in Fds, Lowest(g), Open(g, Entry("port", s, "new")),
                 data_fd' = [data_fd EXCEPT ![s] = g]
          PROVE  LoneInv'
      <4>1. /\ fdt[g].kind = "free" /\ fdt'[g] = Entry("port", s, "new")
            /\ \A h \in Fds : h # g => fdt'[h] = fdt[h]
        BY <3>2, Opening
      <4>2. Listens'
        BY <2>7, <4>1, ListensKept DEF Port, Executing
      <4>3. News'
        BY <2>7, <4>1 DEF Port, Executing
      <4>4. Opened(s)' /\ IdleFds'
        BY <2>7, <4>1 DEF Port, Executing
      <4>5. Stale(s)'
        BY <2>7, <3>2, <4>1 DEF Port, Executing
      <4> QED BY <4>2, <4>3, <4>4, <4>5
    <3> QED BY <2>7, <3>1, <3>2 DEF Port
  <2>8. CASE PortUsage(s)
    BY <2>8, ServerAssumption, FdsAssumption DEF PortUsage, Answer, Return, Executing
  <2>9. CASE ExitActive(s)
    BY <2>9, LoneCloses
  <2>10. CASE ExitPassive(s)
    BY <2>10, LoneCloses
  <2>11. CASE ExitData(s)
    BY <2>11, ServerAssumption, FdsAssumption DEF ExitData, CloseIfPositive, Close
  <2>12. CASE PasvClose(s)
    BY <2>12, LoneCloses
  <2>13. CASE PasvRefused(s)
    BY <2>13, ServerAssumption, FdsAssumption DEF PasvRefused, Answer, Return, Executing
  <2>14. CASE PasvSocket(s)
    <3>1. CASE FreeFds = {} /\ UNCHANGED fdt /\ Goto(s, "reply")
               /\ passive_fd' = [passive_fd EXCEPT ![s] = NoFd]
      BY <2>14, <3>1, ServerAssumption, FdsAssumption DEF PasvSocket
    <3>2. ASSUME NEW g \in Fds, Lowest(g), Open(g, Entry("passive", s, "new")),
                 passive_fd' = [passive_fd EXCEPT ![s] = g], Goto(s, "pasv_bind")
          PROVE  LoneInv'
      <4>1. /\ fdt[g].kind = "free" /\ fdt'[g] = Entry("passive", s, "new")
            /\ \A h \in Fds : h # g => fdt'[h] = fdt[h]
        BY <3>2, Opening
      <4>2. Listens'
        BY <2>14, <3>2, <4>1, ServerAssumption DEF PasvSocket
      <4>3. News'
        BY <2>14, <3>2, <4>1 DEF PasvSocket
      <4>4. Opened(s)' /\ IdleFds'
        BY <2>14, <3>2, <4>1 DEF PasvSocket
      <4>5. Stale(s)'
        BY <2>14, <3>2, <4>1 DEF PasvSocket
      <4> QED BY <4>2, <4>3, <4>4, <4>5
    <3> QED BY <2>14, <3>1, <3>2 DEF PasvSocket
  <2>15. CASE PasvListen(s)
    BY <2>15, LonePasvListen
  <2>16. CASE PasvFail(s)
    BY <2>16, ServerAssumption, FdsAssumption DEF PasvFail, AnswerThen
  <2>17. CASE PasvAbort(s)
    BY <2>17, LoneCloses
  <2> QED BY <1>2, <2>1, <2>2, <2>3, <2>4, <2>5, <2>6, <2>7, <2>8, <2>9, <2>10,
       <2>11, <2>12, <2>13, <2>14, <2>15, <2>16, <2>17 DEF ThreadStep, Pasv
<1>3. ASSUME NEW s \in Sessions, Transfer(s)
     PROVE  LoneInv'
  <2>1. CASE Refuse(s)
    BY <2>1, ServerAssumption, FdsAssumption DEF Refuse, Answer, Return, Transfers
  <2>2. CASE Appe(s)
    BY <2>2, ServerAssumption, FdsAssumption DEF Appe, Executing
  <2>3. CASE OpenLocal(s)
    <3>1. PICK g \in Fds : Lowest(g) /\ Open(g, Entry(LocalKind(cmd[s]), s, "open"))
                         /\ local_fd' = [local_fd EXCEPT ![s] = g]
      BY <2>3 DEF OpenLocal
    <3>2. /\ fdt[g].kind = "free" /\ fdt'[g] = Entry(LocalKind(cmd[s]), s, "open")
          /\ \A h \in Fds : h # g => fdt'[h] = fdt[h]
      BY <3>1, Opening
    <3>3. Listens'
      BY <2>3, <3>1, <3>2, ServerAssumption DEF OpenLocal, LocalKind, Transfers
    <3>4. News'
      BY <2>3, <3>1, <3>2, ServerAssumption DEF OpenLocal, LocalKind, Transfers
    <3>5. Opened(s)' /\ IdleFds'
      BY <2>3, <3>1, <3>2, ServerAssumption DEF OpenLocal, LocalKind, Transfers
    <3>6. Stale(s)'
      BY <2>3, <3>1, <3>2, ServerAssumption, FdsAssumption DEF OpenLocal, LocalKind, Transfers
    <3> QED BY <3>3, <3>4, <3>5, <3>6
  <2>4. CASE SeekFail(s)
    BY <2>4, ServerAssumption, FdsAssumption DEF SeekFail, AnswerThen
  <2>5. CASE Mark(s)
    BY <2>5, ServerAssumption, FdsAssumption DEF Mark
  <2>6. CASE Connect(s)
    BY <2>6, ServerAssumption, FdsAssumption DEF Connect, DataOpened, Open
  <2>7. CASE AcceptData(s)
    BY <2>7, ServerAssumption, FdsAssumption DEF AcceptData
  <2>8. CASE DataRefused(s)
    BY <2>8, ServerAssumption, FdsAssumption DEF DataRefused, GiveUp, Answer, Return, AnswerThen
  <2>9. CASE TransferEnd(s)
    BY <2>9, ServerAssumption, FdsAssumption DEF TransferEnd
  <2>10. CASE TransferFail(s)
    BY <2>10, ServerAssumption, FdsAssumption DEF TransferFail, AnswerThen
  <2>11. CASE Truncate(s)
    BY <2>11, ServerAssumption, FdsAssumption DEF Truncate
  <2>12. CASE TruncateFail(s)
    BY <2>12, ServerAssumption, FdsAssumption DEF TruncateFail, AnswerThen
  <2>13. CASE AbortData(s)
    BY <2>13, LoneCloses
  <2>14. CASE AbortFile(s)
    BY <2>14, LoneCloses
  <2>15. CASE FinFile(s)
    BY <2>15, LoneCloses
  <2>16. CASE FinData(s)
    BY <2>16, LoneCloses
  <2>17. CASE FinFailed(s)
    BY <2>17, ServerAssumption, FdsAssumption DEF FinFailed, AnswerThen
  <2>18. CASE FinDir(s)
    BY <2>18, LoneCloses
  <2> QED BY <1>3, <2>1, <2>2, <2>3, <2>4, <2>5, <2>6, <2>7, <2>8, <2>9, <2>10,
       <2>11, <2>12, <2>13, <2>14, <2>15, <2>16, <2>17, <2>18 DEF Transfer
<1>4. ASSUME NEW s \in Sessions, ClientStep(s)
     PROVE  LoneInv'
  <2>1. CASE Receive(s)
    BY <2>1, ServerAssumption, FdsAssumption DEF Receive
  <2>2. CASE DataConnected(s)
    <3>1. PICK g \in Fds : Lowest(g) /\ Open(g, Entry("accepted", s, "open"))
                         /\ data_fd' = [data_fd EXCEPT ![s] = g]
      BY <2>2 DEF DataConnected
    <3>2. /\ fdt[g].kind = "free" /\ fdt'[g] = Entry("accepted", s, "open")
          /\ \A h \in Fds : h # g => fdt'[h] = fdt[h]
      BY <3>1, Opening
    <3>3. Listens'
      BY <2>2, <3>1, <3>2, ServerAssumption DEF DataConnected, DataOpened
    <3>4. News'
      BY <2>2, <3>1, <3>2, ServerAssumption DEF DataConnected, DataOpened
    <3>5. Opened(s)' /\ IdleFds'
      BY <2>2, <3>1, <3>2, ServerAssumption DEF DataConnected, DataOpened
    <3>6. Stale(s)'
      BY <2>2, <3>1, <3>2, ServerAssumption, FdsAssumption DEF DataConnected, DataOpened
    <3> QED BY <3>3, <3>4, <3>5, <3>6
  <2>3. CASE AcceptDataFail(s)
    BY <2>3, ServerAssumption, FdsAssumption DEF AcceptDataFail, GiveUp, Answer, Return, AnswerThen
  <2>4. CASE HangUp(s)
    BY <2>4, ServerAssumption, FdsAssumption DEF HangUp
  <2> QED BY <1>4, <2>1, <2>2, <2>3, <2>4 DEF ClientStep
<1>5. CASE ServerStep
  <2>1. CASE SrvExit
    BY <2>1, ServerAssumption, FdsAssumption DEF SrvExit, Exit
  <2>2. CASE SrvRetry
    BY <2>2, ServerAssumption, FdsAssumption DEF SrvRetry, vars
  <2>3. CASE SrvSocket
    BY <2>3, ServerAssumption, FdsAssumption DEF SrvSocket, Open
  <2>4. CASE SrvListen
    BY <2>4, ServerAssumption, FdsAssumption DEF SrvListen, Open
  <2>5. CASE SrvBindFail
    BY <2>5, ServerAssumption, FdsAssumption DEF SrvBindFail
  <2>6. CASE SrvAccept
    BY <2>6, ServerAssumption, FdsAssumption DEF SrvAccept
  <2>7. ASSUME NEW s \in Sessions, SrvConnected(s)
       PROVE  LoneInv'
    <3>1. PICK g \in Fds : Lowest(g) /\ Open(g, Entry("control", s, "open"))
                         /\ active_fd' = [active_fd EXCEPT ![s] = g]
      BY <2>7 DEF SrvConnected
    <3>2. /\ fdt[g].kind = "free" /\ fdt'[g] = Entry("control", s, "open")
          /\ \A h \in Fds : h # g => fdt'[h] = fdt[h]
      BY <3>1, Opening
    <3>3. Listens'
      BY <2>7, <3>1, <3>2, ServerAssumption DEF SrvConnected
    <3>4. News'
      BY <2>7, <3>1, <3>2, ServerAssumption DEF SrvConnected
    <3>5. Opened(s)' /\ IdleFds'
      BY <2>7, <3>1, <3>2, ServerAssumption DEF SrvConnected
    <3>6. Stale(s)'
      BY <2>7, <3>1, <3>2, ServerAssumption, FdsAssumption DEF SrvConnected
    <3> QED BY <3>3, <3>4, <3>5, <3>6
  <2>8. CASE SrvThreadLost
    <3>1. PICK g \in Fds : Lowest(g) /\ Open(g, Entry("control", Server, "open"))
      BY <2>8 DEF SrvThreadLost
    <3>2. /\ fdt[g].kind = "free" /\ fdt'[g] = Entry("control", Server, "open")
          /\ \A h \in Fds : h # g => fdt'[h] = fdt[h]
      BY <3>1, Opening
    <3>3. Listens'
      BY <2>8, <3>2, ServerAssumption DEF SrvThreadLost
    <3>4. News'
      BY <2>8, <3>2, ServerAssumption DEF SrvThreadLost
    <3>5. (\A s \in Sessions : Opened(s))' /\ IdleFds'
      BY <2>8, <3>2, ServerAssumption DEF SrvThreadLost
    <3>6. (\A s \in Sessions : Stale(s))'
      BY <2>8, <3>2, FdsAssumption DEF SrvThreadLost
    <3> QED BY <3>3, <3>4, <3>5, <3>6
  <2>9. CASE SrvAcceptFail
    BY <2>9, ServerAssumption, FdsAssumption DEF SrvAcceptFail
  <2>10. CASE SrvClose
    BY <2>10, ServerAssumption, FdsAssumption DEF SrvClose, Close
  <2> QED BY <1>5, <2>1, <2>2, <2>3, <2>4, <2>5, <2>6, <2>7, <2>8, <2>9, <2>10 DEF ServerStep
<1>6. CASE Dead
  BY <1>1, <1>6 DEF Dead
<1> QED BY <1>1, <1>2, <1>3, <1>4, <1>5, <1>6 DEF Next

\* With one client at a time, the numbers that commands leave behind do no
\* harm: the control connection, the ends of a running transfer and the
\* acceptor's socket stay what the thread opened, and ftp_data_close closes a
\* data connection of the session, under every other fault and for any number
\* of descriptors.  This fails when accept fails (in a full table, say, which
\* the sockets of PORT can cause): the acceptor then opens its next socket
\* under a number that the session may still hold.
THEOREM OneClient ==
    ASSUME Alone
    PROVE  Spec /\ []Listening => [](Intact /\ ClosesOwnData)
<1>1. TypeOK /\ Listening /\ LoneInv /\ [Next]_vars => LoneInv'
  BY LoneNext
<1>2. LoneInv => Intact /\ ClosesOwnData
  <2> SUFFICES ASSUME LoneInv PROVE Intact /\ ClosesOwnData
    OBVIOUS
  <2>1. Intact
    BY DEF LoneInv, Listens, Opened, OwnData, OwnFile, Intact
  <2>2. ClosesOwnData
    BY DEF LoneInv, Opened, OwnData, ClosesOwnData
  <2> QED BY <2>1, <2>2
<1> QED BY TypeCorrect, LoneInit, <1>1, <1>2, PTL DEF Spec

=============================================================================
