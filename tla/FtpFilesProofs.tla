--------------------------- MODULE FtpFilesProofs ---------------------------
(***************************************************************************)
(* What holds of FtpFiles for any sessions, files and lengths: what an     *)
(* upload leaves in its file at every moment, what a download has sent,    *)
(* and which step may make a file shorter.                                 *)
(***************************************************************************)
EXTENDS FtpFiles, SequenceTheorems, WellFoundedInduction, TLAPS

\* Of a session, while nobody else has changed the file it has open.

\* The offset that the client counts with is the one that the server has.
Counts(s) ==
    /\ job[s].pc # "appe" => asked[s] = env[s].data_offset
    /\ job[s].pc = "appe" =>
          /\ asked[s] = 0
          /\ ~seen[s].disturbed => /\ env[s].data_offset = seen[s].base
                                   /\ content[job[s].node] = seen[s].before
                                   /\ seen[s].moved = <<>>
    /\ job[s].pc \in {"idle", "rename", "retr", "sent", "appe"} => seen[s].failed = 0

\* A download has sent the bytes in front of its position.
Sends(s) ==
    job[s].pc \in {"retr", "sent"} /\ ~seen[s].disturbed =>
        /\ content[job[s].node] = seen[s].before
        /\ job[s].pos <= Len(seen[s].before)
        /\ seen[s].moved = SubSeq(seen[s].before, 1, job[s].pos)
        /\ job[s].pc = "sent" => job[s].pos = Len(seen[s].before)

\* What the file of an upload holds before it is cut.
Written(s) == IF seen[s].moved = <<>> THEN seen[s].before
              ELSE WriteAt(seen[s].before, seen[s].base, seen[s].moved)

\* An upload has written what it received, from the offset its client means.
Receives(s) ==
    /\ job[s].pc \in {"receive", "truncate"} /\ ~seen[s].disturbed =>
          /\ seen[s].base \in Nat
          /\ job[s].pos = seen[s].base + Len(seen[s].moved)
          /\ seen[s].failed = 0 => job[s].off = job[s].pos
          /\ content[job[s].node] = Written(s)
    /\ job[s].pc = "stored" /\ ~seen[s].disturbed /\ seen[s].failed = 0 =>
          content[job[s].node] = Spliced(seen[s].before, seen[s].base, seen[s].moved)

Good(s) == Counts(s) /\ Sends(s) /\ Receives(s)

IInv == TypeOK /\ \A s \in Sessions : Good(s)

-----------------------------------------------------------------------------
(* The file system.                                                        *)

Less == {pair \in Nat \X Nat : pair[1] < pair[2]}

\* A set of numbers that is not empty has a least one.
LEMMA Smallest ==
    ASSUME NEW S, S \subseteq Nat, S # {}
    PROVE  \E n \in S : \A m \in S : n <= m
<1>1. IsWellFoundedOn(Less, Nat)
  BY NatLessThanWellFounded DEF OpToRel, Less
<1>2. \E n \in S : \A m \in S : ~(<<m, n>> \in Less)
  BY <1>1, WFMin
<1>3. \A m, n \in S : <<m, n>> \in Less <=> m < n
  BY DEF Less
<1>4. \A m, n \in S : ~(m < n) => n <= m
  OBVIOUS
<1> QED BY <1>2, <1>3, <1>4

\* A new file is one that no path names and no session has open.
LEMMA NewNodeIsFree ==
    ASSUME FreeNodes # {}
    PROVE  NewNode \in FreeNodes
<1>1. FreeNodes \subseteq Nat
  BY NodesAssumption DEF FreeNodes
<1>2. \E n \in FreeNodes : \A m \in FreeNodes : n <= m
  BY <1>1, Smallest
<1> QED BY <1>2 DEF NewNode

\* What ftruncate leaves: n bytes, those of the file and then zeroes.
LEMMA Resized ==
    ASSUME NEW c \in Content, NEW n \in Nat
    PROVE  /\ Resize(c, n) \in Content
           /\ Len(Resize(c, n)) = n
           /\ \A i \in 1 .. n : Resize(c, n)[i] = At(c, i)
BY DEF Content, Resize, At, Zero

\* What a write leaves: the file reaches the end of the bytes at least, holds
\* them, and is as before elsewhere.
LEMMA WrittenAt ==
    ASSUME NEW c \in Content, NEW o \in Nat, NEW b \in Content
    PROVE  /\ WriteAt(c, o, b) \in Content
           /\ Len(WriteAt(c, o, b)) = IF Len(c) > o + Len(b) THEN Len(c) ELSE o + Len(b)
           /\ \A i \in 1 .. Len(WriteAt(c, o, b)) :
                 WriteAt(c, o, b)[i] = IF i > o /\ i <= o + Len(b) THEN b[i - o] ELSE At(c, i)
BY DEF Content, WriteAt, At, Zero

\* A write of one more byte behind the bytes written is a write of them all.
LEMMA WriteMore ==
    ASSUME NEW c \in Content, NEW o \in Nat, NEW b \in Content, b # <<>>,
           NEW x \in Bytes \cup {Zero}
    PROVE  WriteAt(WriteAt(c, o, b), o + Len(b), <<x>>) = WriteAt(c, o, Append(b, x))
<1> DEFINE last == <<x>>
           bx   == Append(b, x)
           end  == o + Len(b)
           once == WriteAt(c, o, b)
           more == WriteAt(once, end, last)
           all  == WriteAt(c, o, bx)
<1>1. /\ Len(b) \in Nat /\ Len(c) \in Nat /\ end \in Nat
      /\ last \in Content /\ Len(last) = 1 /\ last[1] = x
      /\ bx \in Content /\ Len(bx) = Len(b) + 1 /\ bx[Len(b) + 1] = x
      /\ \A i \in 1 .. Len(b) : bx[i] = b[i]
  BY DEF Content
<1> HIDE DEF last, bx
<1>2. /\ once \in Content
      /\ Len(once) = IF Len(c) > end THEN Len(c) ELSE end
      /\ \A i \in 1 .. Len(once) :
            once[i] = IF i > o /\ i <= end THEN b[i - o] ELSE At(c, i)
  BY WrittenAt
<1>3. /\ all \in Content
      /\ Len(all) = IF Len(c) > end + 1 THEN Len(c) ELSE end + 1
      /\ \A i \in 1 .. Len(all) :
            all[i] = IF i > o /\ i <= end + 1 THEN bx[i - o] ELSE At(c, i)
  <2>1. o + Len(bx) = end + 1
    BY <1>1 DEF end
  <2> HIDE DEF end
  <2> QED BY <2>1, <1>1, WrittenAt
<1> HIDE DEF once, end
<1>4. /\ more \in Content
      /\ Len(more) = IF Len(once) > end + 1 THEN Len(once) ELSE end + 1
      /\ \A i \in 1 .. Len(more) :
            more[i] = IF i > end /\ i <= end + 1 THEN last[i - end] ELSE At(once, i)
  <2>1. end + Len(last) = end + 1
    BY <1>1
  <2>2. /\ more \in Content
        /\ Len(more) = IF Len(once) > end + Len(last) THEN Len(once) ELSE end + Len(last)
        /\ \A i \in 1 .. Len(more) :
              more[i] = IF i > end /\ i <= end + Len(last) THEN last[i - end] ELSE At(once, i)
    BY <1>1, <1>2, WrittenAt
  <2> HIDE DEF more
  <2> QED BY <2>1, <2>2
<1> HIDE DEF more, all
<1>5. Len(more) = Len(all) /\ Len(more) \in Nat
  BY <1>1, <1>2, <1>3, <1>4
<1>6. ASSUME NEW i \in 1 .. Len(all)
      PROVE  more[i] = all[i]
  <2>1. i \in Nat \ {0} /\ DOMAIN once = 1 .. Len(once)
    BY <1>2, <1>5 DEF Content
  <2>2. CASE i = end + 1
    <3>1. i > end /\ i - end = 1 /\ i - o = Len(b) + 1 /\ i > o
      BY <2>2, <1>1 DEF end
    <3>2. more[i] = x
      BY <3>1, <2>2, <1>1, <1>4, <1>5
    <3>3. all[i] = x
      BY <3>1, <2>2, <1>1, <1>3
    <3> QED BY <3>2, <3>3
  <2>3. CASE i > o /\ i <= end
    <3>1. i \in 1 .. Len(once) /\ ~(i > end) /\ i - o \in 1 .. Len(b)
      BY <2>1, <2>3, <1>1, <1>2 DEF end
    <3>2. more[i] = b[i - o]
      BY <3>1, <2>1, <2>3, <1>2, <1>4, <1>5 DEF At
    <3>3. all[i] = b[i - o]
      BY <3>1, <2>3, <1>1, <1>3
    <3> QED BY <3>2, <3>3
  <2>4. CASE ~(i > o /\ i <= end) /\ i # end + 1
    <3>1. more[i] = At(once, i) /\ all[i] = At(c, i)
      <4>1. ~(i > end /\ i <= end + 1) /\ ~(i > o /\ i <= end + 1)
        BY <2>1, <2>4, <1>1
      <4> QED BY <4>1, <1>3, <1>4, <1>5
    <3>2. CASE i \in 1 .. Len(once)
      BY <3>1, <3>2, <2>1, <2>4, <1>2 DEF At
    <3>3. CASE i \notin 1 .. Len(once)
      <4>1. At(once, i) = Zero
        BY <3>3, <2>1 DEF At
      <4>2. i \notin DOMAIN c
        BY <3>3, <2>1, <1>1, <1>2 DEF Content
      <4> QED BY <3>1, <4>1, <4>2 DEF At
    <3> QED BY <3>2, <3>3
  <2> QED BY <2>1, <2>2, <2>3, <2>4
<1>7. more = all
  BY <1>3, <1>4, <1>5, <1>6, SeqEqual DEF Content
<1> QED BY <1>7 DEF more, all, once, end, last, bx

\* A file that is cut behind the bytes written holds what was in front of them,
\* and them.
LEMMA CutWritten ==
    ASSUME NEW c \in Content, NEW o \in Nat, NEW b \in Content
    PROVE  Resize(WriteAt(c, o, b), o + Len(b)) = Spliced(c, o, b)
<1> DEFINE w    == WriteAt(c, o, b)
           end  == o + Len(b)
           cut  == Resize(w, end)
           head == Resize(c, o)
<1>1. Len(b) \in Nat /\ Len(c) \in Nat /\ end \in Nat
  BY DEF Content
<1>2. /\ w \in Content
      /\ Len(w) = IF Len(c) > end THEN Len(c) ELSE end
      /\ \A i \in 1 .. Len(w) : w[i] = IF i > o /\ i <= end THEN b[i - o] ELSE At(c, i)
  BY WrittenAt
<1> HIDE DEF w, end
<1>3. cut \in Content /\ Len(cut) = end /\ \A i \in 1 .. end : cut[i] = At(w, i)
  BY <1>1, <1>2, Resized
<1>4. head \in Content /\ Len(head) = o /\ \A i \in 1 .. o : head[i] = At(c, i)
  BY Resized
<1> HIDE DEF cut, head
<1>5. /\ head \o b \in Content /\ Len(head \o b) = end
      /\ \A i \in 1 .. end : (head \o b)[i] = IF i <= o THEN head[i] ELSE b[i - o]
  BY <1>1, <1>4 DEF Content, end
<1>6. ASSUME NEW i \in 1 .. end
      PROVE  cut[i] = (head \o b)[i]
  <2>1. i \in 1 .. Len(w) /\ DOMAIN w = 1 .. Len(w)
    BY <1>1, <1>2 DEF Content
  <2>2. cut[i] = w[i]
    BY <2>1, <1>3 DEF At
  <2>3. w[i] = IF i > o THEN b[i - o] ELSE At(c, i)
    BY <2>1, <1>2
  <2>4. i <= o => head[i] = At(c, i)
    BY <1>4
  <2> QED BY <2>2, <2>3, <2>4, <1>5
<1>7. cut = head \o b
  BY <1>1, <1>3, <1>5, <1>6, SeqEqual DEF Content
<1> QED BY <1>7 DEF cut, head, end, w, Spliced

-----------------------------------------------------------------------------
(* Types.                                                                  *)

\* The locals of a handler that starts to work on a path.
LEMMA Started ==
    ASSUME NEW pc \in {"idle", "rename", "retr", "appe"}, NEW p \in Paths \cup {NoPath},
           NEW n \in Nodes \cup {NoNode}
    PROVE  /\ Handler(pc, p, n) \in Jobs /\ Handler(pc, p, n).pc = pc
           /\ Handler(pc, p, n).path = p /\ Handler(pc, p, n).node = n
           /\ Handler(pc, p, n).pos = 0
BY DEF Handler, Jobs

\* A session between two commands, and a new one.
LEMMA AtRest ==
    /\ Idle \in Jobs /\ Idle.pc = "idle" /\ Idle.node = NoNode /\ NoNode \notin Nodes
    /\ NewEnv \in Envs /\ NewEnv.data_offset = 0
    /\ \A e : Placed(Idle, e)
<1>1. Idle \in Jobs /\ Idle.pc = "idle" /\ Idle.node = NoNode
  BY Started DEF Idle
<1>2. NewEnv \in Envs /\ NewEnv.data_offset = 0
  BY DEF NewEnv, Envs
<1>3. NoNode \notin Nodes
  BY NodesAssumption
<1> QED BY <1>1, <1>2, <1>3 DEF Placed

\* The records that the actions build.
LEMMA Records ==
    ASSUME TypeOK
    PROVE  /\ NothingSeen \in Views /\ Idle \in Jobs /\ NewEnv \in Envs
           /\ \A n \in Nodes \cup {NoNode}, o \in Int : Transfer(n, o) \in Views
           /\ \A t \in Sessions : Disturbed(t) \in Views
           /\ \A t \in Sessions, b \in Bytes \cup {Zero} : Moved(t, b) \in Views
<1>1. NothingSeen \in Views
  BY DEF NothingSeen, Views, Content
<1>2. Idle \in Jobs /\ NewEnv \in Envs
  BY AtRest
<1>3. ASSUME NEW n \in Nodes \cup {NoNode}, NEW o \in Int
      PROVE  Transfer(n, o) \in Views
  <2> DEFINE before == IF n = NoNode THEN <<>> ELSE content[n]
  <2>1. before \in Content
    BY DEF Content, TypeOK
  <2>2. Transfer(n, o) = [NothingSeen EXCEPT !.before = before, !.base = o]
    BY Zenon DEF Transfer
  <2> HIDE DEF before
  <2> QED BY <2>1, <2>2, <1>1 DEF Views
<1>4. ASSUME NEW t \in Sessions
      PROVE  Disturbed(t) \in Views
  <2>1. seen[t].failed \in Nat
    BY DEF TypeOK, Views
  <2> QED BY <2>1, <1>1 DEF Disturbed, Views
<1>5. ASSUME NEW t \in Sessions, NEW b \in Bytes \cup {Zero}
      PROVE  Moved(t, b) \in Views
  <2>1. seen[t] \in Views
    BY DEF TypeOK
  <2>2. Append(seen[t].moved, b) \in Content
    BY <2>1 DEF Views, Content
  <2> QED BY <2>1, <2>2 DEF Moved, Views
<1> QED BY <1>1, <1>2, <1>3, <1>4, <1>5

\* A session that disturbs others keeps the types.
LEMMA DisturbTyped ==
    ASSUME TypeOK, NEW s \in Sessions, NEW n, NEW own \in Views, Disturb(s, n, own)
    PROVE  seen' \in [Sessions -> Views]
BY Records DEF Disturb, TypeOK

\* A step of one session keeps the types if its new locals have theirs.
LEMMA OneTyped ==
    ASSUME TypeOK, NEW s \in Sessions, NEW j \in Jobs, NEW e \in Envs, Placed(j, e),
           job' = [job EXCEPT ![s] = j], env' = [env EXCEPT ![s] = e],
           link' \in [Paths -> Nodes \cup {NoNode}], content' \in [Nodes -> Content],
           asked' \in [Sessions -> Int], seen' \in [Sessions -> Views],
           budget' \in 0 .. MaxCommands
    PROVE  TypeOK'
BY DEF TypeOK

\* A handler that has returned.
LEMMA DoneTyped ==
    ASSUME TypeOK, NEW s \in Sessions, Done(s),
           link' \in [Paths -> Nodes \cup {NoNode}], UNCHANGED <<content, env, asked, budget>>
    PROVE  TypeOK'
<1>1. Idle \in Jobs /\ Placed(Idle, env[s])
  BY AtRest
<1>2. env[s] \in Envs /\ env' = [env EXCEPT ![s] = env[s]]
  BY DEF TypeOK
<1>3. job' = [job EXCEPT ![s] = Idle] /\ seen' \in [Sessions -> Views]
  BY Records DEF Done, TypeOK
<1> QED BY <1>1, <1>2, <1>3, OneTyped DEF TypeOK

\* A handler that goes on, with other locals.
LEMMA GoesOnTyped ==
    ASSUME TypeOK, NEW s \in Sessions, NEW j \in Jobs, job' = [job EXCEPT ![s] = j],
           j.node = job[s].node, j.path = job[s].path,
           job[s].pc \notin {"idle", "rename"}, j.pc \notin {"idle", "rename"},
           content' \in [Nodes -> Content], seen' \in [Sessions -> Views],
           UNCHANGED <<link, env, asked, budget>>
    PROVE  TypeOK'
<1>1. env[s] \in Envs /\ env' = [env EXCEPT ![s] = env[s]] /\ Placed(j, env[s])
  BY DEF TypeOK, Placed
<1> QED BY <1>1, OneTyped DEF TypeOK

\* A command that only sets the session's offset or name.
LEMMA SetsTyped ==
    ASSUME TypeOK, NEW s \in Sessions, NEW e \in Envs, env' = [env EXCEPT ![s] = e],
           job[s].pc = "idle", UNCHANGED <<content, job, seen>>,
           link' \in [Paths -> Nodes \cup {NoNode}],
           asked' \in [Sessions -> Int], budget' \in 0 .. MaxCommands
    PROVE  TypeOK'
<1>1. job[s] \in Jobs /\ job' = [job EXCEPT ![s] = job[s]] /\ Placed(job[s], e)
  BY DEF TypeOK, Placed
<1> QED BY <1>1, OneTyped DEF TypeOK

\* A file that is opened to store into it.
LEMMA OpenTyped ==
    ASSUME TypeOK, NEW s \in Sessions, NEW p \in Paths, NEW own \in Views,
           OpenToStore(s, p, own), asked' \in [Sessions -> Int], budget' \in 0 .. MaxCommands
    PROVE  TypeOK'
<1> DEFINE n == IF link[p] = NoNode THEN NewNode ELSE link[p]
           e == [env[s] EXCEPT !.data_offset = 0]
           open == [pc |-> "receive", path |-> p, node |-> n,
                    pos |-> env[s].data_offset, off |-> env[s].data_offset]
<1>1. n \in Nodes
  BY NewNodeIsFree DEF OpenToStore, TypeOK, FreeNodes
<1>2. link' \in [Paths -> Nodes \cup {NoNode}]
  BY <1>1 DEF OpenToStore, TypeOK
<1>3. content' \in [Nodes -> Content]
  BY <1>1 DEF OpenToStore, TypeOK, Content
<1>4. e \in Envs /\ env' = [env EXCEPT ![s] = e]
  <2>1. env[s] \in Envs
    BY DEF TypeOK
  <2>2. e \in Envs
    BY <2>1 DEF Envs
  <2>3. env' = [env EXCEPT ![s].data_offset = 0]
    BY DEF OpenToStore
  <2> QED BY <2>2, <2>3
<1>5. Idle \in Jobs /\ Placed(Idle, e)
  BY AtRest
<1>6. ASSUME ~(env[s].data_offset < 0)
      PROVE  open \in Jobs /\ Placed(open, e)
  BY <1>1, <1>6 DEF Jobs, Placed, TypeOK, Envs
<1>7. \/ job' = [job EXCEPT ![s] = Idle] /\ seen' = [seen EXCEPT ![s] = NothingSeen]
      \/ /\ ~(env[s].data_offset < 0)
         /\ job' = [job EXCEPT ![s] = open] /\ seen' = [seen EXCEPT ![s] = own]
  BY DEF OpenToStore, Done
<1>8. seen' \in [Sessions -> Views]
  BY <1>7, Records DEF TypeOK
<1> HIDE DEF open, n, e
<1> QED BY <1>2, <1>3, <1>4, <1>5, <1>6, <1>7, <1>8, OneTyped

LEMMA TypeStart ==
    ASSUME Init
    PROVE  TypeOK
<1>1. NothingSeen \in Views /\ <<>> \in Content
  BY DEF NothingSeen, Views, Content
<1>2. Idle \in Jobs /\ NewEnv \in Envs
  BY AtRest
<1>5. Placed(Idle, NewEnv)
  BY AtRest
<1>3. MaxCommands \in 0 .. MaxCommands
  BY BoundsAssumption
<1>4. 0 \in Int
  OBVIOUS
<1> QED BY <1>1, <1>2, <1>3, <1>4, <1>5 DEF Init, TypeOK

LEMMA TypeStep ==
    ASSUME TypeOK, [Next]_vars
    PROVE  TypeOK'
<1>a. ASSUME NEW s \in Sessions, Command(s)
      PROVE  job[s].pc = "idle" /\ budget' \in 0 .. MaxCommands
  BY <1>a, BoundsAssumption DEF Command, TypeOK
<1>b. ASSUME NEW s \in Sessions, NEW n \in Int
      PROVE  [env[s] EXCEPT !.data_offset = n] \in Envs
  BY DEF TypeOK, Envs
<1>c. ASSUME NEW p \in Paths, link[p] # NoNode
      PROVE  link[p] \in Nodes
  BY <1>c DEF TypeOK
<1>1. ASSUME NEW s \in Sessions, Rest(s) PROVE TypeOK'
  <2>1. PICK n \in Offsets : /\ env' = [env EXCEPT ![s].data_offset = n]
                             /\ asked' = [asked EXCEPT ![s] = n]
    BY <1>1 DEF Rest
  <2>2. n \in Int /\ asked' \in [Sessions -> Int]
    BY <2>1, BoundsAssumption DEF TypeOK
  <2>3. env' = [env EXCEPT ![s] = [env[s] EXCEPT !.data_offset = n]]
    BY <2>1
  <2> QED BY <1>1, <1>a, <1>b, <2>2, <2>3, SetsTyped DEF Rest, TypeOK
<1>2. ASSUME NEW s \in Sessions, Dele(s) PROVE TypeOK'
  BY <1>2, <1>a DEF Dele, TypeOK
<1>3. ASSUME NEW s \in Sessions, Rnfr(s) PROVE TypeOK'
  <2>1. PICK p \in Paths : env' = [env EXCEPT ![s].rename_path = p]
    BY <1>3 DEF Rnfr
  <2>2. /\ [env[s] EXCEPT !.rename_path = p] \in Envs
        /\ env' = [env EXCEPT ![s] = [env[s] EXCEPT !.rename_path = p]]
    BY <2>1 DEF TypeOK, Envs
  <2> QED BY <1>3, <1>a, <2>2, SetsTyped DEF Rnfr, TypeOK
<1>4. ASSUME NEW s \in Sessions, RntoStat(s) PROVE TypeOK'
  <2>1. PICK p \in Paths :
            job' = [job EXCEPT ![s] = Handler("rename", p, NoNode)]
    BY <1>4 DEF RntoStat
  <2> DEFINE j == Handler("rename", p, NoNode)
  <2>2. env[s] \in Envs /\ env[s].rename_path \in Paths
    BY <1>4 DEF RntoStat, TypeOK, Envs
  <2>3. j \in Jobs /\ Placed(j, env[s])
    <3>1. j \in Jobs /\ j.pc = "rename" /\ j.path = p /\ j.node = NoNode
      BY Started
    <3> HIDE DEF j
    <3> QED BY <2>2, <3>1, NodesAssumption DEF Placed
  <2>4. env' = [env EXCEPT ![s] = env[s]]
    BY <1>4 DEF RntoStat, TypeOK
  <2> HIDE DEF j
  <2> QED BY <1>4, <1>a, <2>1, <2>2, <2>3, <2>4, OneTyped DEF RntoStat, TypeOK, j
<1>5. ASSUME NEW s \in Sessions, Rename(s) PROVE TypeOK'
  <2>1. link' \in [Paths -> Nodes \cup {NoNode}]
    BY <1>5 DEF Rename, TypeOK, Placed
  <2> QED BY <1>5, <2>1, DoneTyped DEF Rename
<1>6. ASSUME NEW s \in Sessions, RetrOpen(s) PROVE TypeOK'
  <2>1. PICK p \in Paths :
          /\ link[p] # NoNode
          /\ job' = [job EXCEPT ![s] = Handler("retr", p, link[p])]
          /\ seen' = [seen EXCEPT ![s] = Transfer(link[p], asked[s])]
    BY <1>6 DEF RetrOpen
  <2> DEFINE j == Handler("retr", p, link[p])
  <2>2. j \in Jobs /\ Placed(j, env[s])
    <3>1. j \in Jobs /\ j.pc = "retr" /\ j.path = p /\ j.node = link[p]
      BY <2>1, <1>c, Started
    <3> HIDE DEF j
    <3> QED BY <2>1, <3>1, <1>c DEF Placed
  <2>3. seen' \in [Sessions -> Views]
    BY <2>1, <1>c, Records DEF TypeOK
  <2>4. env[s] \in Envs /\ env' = [env EXCEPT ![s] = env[s]]
    BY <1>6 DEF RetrOpen, TypeOK
  <2> HIDE DEF j
  <2> QED BY <1>6, <1>a, <2>1, <2>2, <2>3, <2>4, OneTyped DEF RetrOpen, TypeOK, j
<1>7. ASSUME NEW s \in Sessions, RetrBlock(s) PROVE TypeOK'
  <2> DEFINE j == [job[s] EXCEPT !.pos = @ + 1]
  <2>1. j \in Jobs /\ j.node = job[s].node /\ j.path = job[s].path /\ j.pc = "retr"
    <3>1. job[s] \in Jobs /\ job[s].pc = "retr"
      BY <1>7 DEF RetrBlock, TypeOK
    <3> QED BY <3>1 DEF Jobs
  <2>2. content[job[s].node][job[s].pos + 1] \in Bytes \cup {Zero}
    <3>1. job[s].node \in Nodes /\ job[s].pos \in Nat
      BY <1>7 DEF RetrBlock, TypeOK, Placed, Jobs
    <3>2. content[job[s].node] \in Seq(Bytes \cup {Zero})
      BY <3>1 DEF TypeOK, Content
    <3>3. job[s].pos + 1 \in 1 .. Len(content[job[s].node])
      BY <1>7, <3>1, <3>2 DEF RetrBlock
    <3> QED BY <3>2, <3>3
  <2>3. seen' \in [Sessions -> Views]
    BY <1>7, <2>2, Records DEF RetrBlock, TypeOK
  <2>4. job' = [job EXCEPT ![s] = j]
    BY <1>7 DEF RetrBlock
  <2> HIDE DEF j
  <2> QED BY <1>7, <2>1, <2>3, <2>4, GoesOnTyped DEF RetrBlock, TypeOK
<1>8. ASSUME NEW s \in Sessions, RetrFail(s) PROVE TypeOK'
  BY <1>8, DoneTyped DEF RetrFail, TypeOK
<1>9. ASSUME NEW s \in Sessions, RetrEnd(s) PROVE TypeOK'
  <2> DEFINE j == [job[s] EXCEPT !.pc = "sent"]
  <2>1. j \in Jobs /\ j.node = job[s].node /\ j.path = job[s].path /\ j.pc = "sent"
    BY DEF TypeOK, Jobs
  <2>2. job' = [job EXCEPT ![s] = j]
    BY <1>9 DEF RetrEnd
  <2> HIDE DEF j
  <2> QED BY <1>9, <2>1, <2>2, GoesOnTyped DEF RetrEnd, TypeOK
<1>10. ASSUME NEW s \in Sessions, Stor(s) PROVE TypeOK'
  <2>1. PICK p \in Paths : OpenToStore(s, p, Transfer(link[p], asked[s]))
    BY <1>10 DEF Stor
  <2>2. Transfer(link[p], asked[s]) \in Views /\ asked' \in [Sessions -> Int]
    <3>1. link[p] \in Nodes \cup {NoNode} /\ asked[s] \in Int
      BY DEF TypeOK
    <3>2. asked' \in [Sessions -> Int]
      BY <1>10 DEF Stor, TypeOK
    <3> QED BY <3>1, <3>2, Records
  <2> QED BY <1>10, <1>a, <2>1, <2>2, OpenTyped DEF Stor
<1>11. ASSUME NEW s \in Sessions, StorRefused(s) PROVE TypeOK'
  <2>1. env' = [env EXCEPT ![s] = [env[s] EXCEPT !.data_offset = 0]]
    BY <1>11 DEF StorRefused
  <2>2. asked' \in [Sessions -> Int]
    BY <1>11 DEF StorRefused, TypeOK
  <2> QED BY <1>11, <1>a, <1>b, <2>1, <2>2, SetsTyped DEF StorRefused, TypeOK
<1>12. ASSUME NEW s \in Sessions, AppeStat(s) PROVE TypeOK'
  <2>1. PICK p \in Paths :
          /\ link[p] # NoNode
          /\ env' = [env EXCEPT ![s].data_offset = Len(content[link[p]])]
          /\ job' = [job EXCEPT ![s] = Handler("appe", p, link[p])]
          /\ seen' = [seen EXCEPT ![s] = Transfer(link[p], Len(content[link[p]]))]
    BY <1>12 DEF AppeStat
  <2> DEFINE j == Handler("appe", p, link[p])
             e == [env[s] EXCEPT !.data_offset = Len(content[link[p]])]
  <2>2. Len(content[link[p]]) \in Int
    BY <2>1, <1>c DEF TypeOK, Content
  <2>3. e \in Envs /\ env' = [env EXCEPT ![s] = e]
    BY <2>1, <2>2, <1>b
  <2>4. j \in Jobs /\ Placed(j, e)
    <3>1. j \in Jobs /\ j.pc = "appe" /\ j.path = p /\ j.node = link[p]
      BY <2>1, <1>c, Started
    <3> HIDE DEF j
    <3> QED BY <2>1, <3>1, <1>c DEF Placed
  <2>5. seen' \in [Sessions -> Views]
    BY <2>1, <2>2, <1>c, Records DEF TypeOK
  <2> HIDE DEF j, e
  <2> QED BY <1>12, <1>a, <2>1, <2>3, <2>4, <2>5, OneTyped DEF AppeStat, TypeOK, j
<1>13. ASSUME NEW s \in Sessions, AppeOpen(s) PROVE TypeOK'
  <2>1. job[s].path \in Paths /\ seen[s] \in Views
    BY <1>13 DEF AppeOpen, TypeOK, Placed
  <2> QED BY <1>13, <2>1, Records, OpenTyped DEF AppeOpen, TypeOK
<1>14. ASSUME NEW s \in Sessions, Receive(s) PROVE TypeOK'
  <2> DEFINE j == [job[s] EXCEPT !.pos = @ + 1, !.off = @ + 1]
  <2>1. PICK b \in Bytes :
          /\ content' = [content EXCEPT ![job[s].node] = WriteAt(@, job[s].pos, <<b>>)]
          /\ Disturb(s, job[s].node, Moved(s, b))
    BY <1>14 DEF Receive
  <2>2. j \in Jobs /\ j.node = job[s].node /\ j.path = job[s].path /\ j.pc = "receive"
    <3>1. job[s] \in Jobs /\ job[s].pc = "receive"
      BY <1>14 DEF Receive, TypeOK
    <3> DEFINE k == [job[s] EXCEPT !.pos = @ + 1]
    <3>2. /\ k \in Jobs /\ k.node = job[s].node /\ k.path = job[s].path
          /\ k.pc = "receive" /\ k.off = job[s].off
      BY <3>1 DEF Jobs
    <3>3. j = [k EXCEPT !.off = @ + 1]
      BY <3>1 DEF Jobs
    <3> HIDE DEF j, k
    <3> QED BY <3>2, <3>3 DEF Jobs
  <2>3. job[s].node \in Nodes /\ job[s].pos \in Nat /\ <<b>> \in Content
    <3>1. job[s] \in Jobs /\ job[s].node \in Nodes
      BY <1>14 DEF Receive, TypeOK, Placed
    <3>2. <<b>> \in Content
      BY DEF Content
    <3> QED BY <3>1, <3>2 DEF Jobs
  <2>4. content' \in [Nodes -> Content]
    BY <2>1, <2>3, WrittenAt DEF TypeOK
  <2>5. seen' \in [Sessions -> Views]
    BY <2>1, Records, DisturbTyped
  <2>6. job' = [job EXCEPT ![s] = j]
    BY <1>14 DEF Receive
  <2> HIDE DEF j
  <2> QED BY <1>14, <2>2, <2>4, <2>5, <2>6, GoesOnTyped DEF Receive, TypeOK
<1>15. ASSUME NEW s \in Sessions, RecvFail(s) PROVE TypeOK'
  <2> DEFINE j == [job[s] EXCEPT !.off = @ - 1]
  <2>1. j \in Jobs /\ j.node = job[s].node /\ j.path = job[s].path /\ j.pc = "receive"
    <3>1. job[s] \in Jobs /\ job[s].pc = "receive"
      BY <1>15 DEF RecvFail, TypeOK
    <3> QED BY <3>1 DEF Jobs
  <2>2. job' = [job EXCEPT ![s] = j]
    BY <1>15 DEF RecvFail
  <2>3. seen' \in [Sessions -> Views]
    <3>1. seen[s] \in Views
      BY DEF TypeOK
    <3>2. [seen[s] EXCEPT !.failed = @ + 1] \in Views
      BY <3>1 DEF Views
    <3>3. seen' = [seen EXCEPT ![s] = [seen[s] EXCEPT !.failed = @ + 1]]
      BY <1>15 DEF RecvFail
    <3> QED BY <3>2, <3>3 DEF TypeOK
  <2> HIDE DEF j
  <2> QED BY <1>15, <2>1, <2>2, <2>3, GoesOnTyped DEF RecvFail, TypeOK
<1>16. ASSUME NEW s \in Sessions, WriteFail(s) PROVE TypeOK'
  BY <1>16, DoneTyped DEF WriteFail, TypeOK
<1>17. ASSUME NEW s \in Sessions, StorEnd(s) PROVE TypeOK'
  <2> DEFINE j == [job[s] EXCEPT !.pc = "truncate"]
  <2>1. j \in Jobs /\ j.node = job[s].node /\ j.path = job[s].path /\ j.pc = "truncate"
    BY DEF TypeOK, Jobs
  <2>2. job' = [job EXCEPT ![s] = j]
    BY <1>17 DEF StorEnd
  <2> HIDE DEF j
  <2> QED BY <1>17, <2>1, <2>2, GoesOnTyped DEF StorEnd, TypeOK
<1>18. ASSUME NEW s \in Sessions, Truncate(s) PROVE TypeOK'
  <2>1. CASE job[s].off < 0
    BY <1>18, <2>1, DoneTyped DEF Truncate, TypeOK
  <2>2. CASE ~(job[s].off < 0)
    <3> DEFINE j == [job[s] EXCEPT !.pc = "stored"]
    <3>1. j \in Jobs /\ j.node = job[s].node /\ j.path = job[s].path /\ j.pc = "stored"
      BY DEF TypeOK, Jobs
    <3>2. job' = [job EXCEPT ![s] = j]
      BY <1>18, <2>2 DEF Truncate
    <3>3. job[s].off \in Nat /\ job[s].node \in Nodes
      BY <1>18, <2>2 DEF Truncate, TypeOK, Placed, Jobs
    <3>4. content' \in [Nodes -> Content]
      <4>1. content[job[s].node] \in Content
        BY <3>3 DEF TypeOK
      <4>2. Resize(content[job[s].node], job[s].off) \in Content
        BY <3>3, <4>1, Resized
      <4> QED BY <1>18, <2>2, <4>2 DEF Truncate, TypeOK
    <3>5. seen' \in [Sessions -> Views]
      BY <1>18, <2>2, DisturbTyped DEF Truncate, TypeOK
    <3> HIDE DEF j
    <3> QED BY <1>18, <3>1, <3>2, <3>4, <3>5, GoesOnTyped DEF Truncate, TypeOK
  <2> QED BY <2>1, <2>2
<1>19. ASSUME NEW s \in Sessions, Complete(s) PROVE TypeOK'
  BY <1>19, DoneTyped DEF Complete, TypeOK
<1>20. ASSUME NEW s \in Sessions, Reconnect(s) PROVE TypeOK'
  <2>1. asked' \in [Sessions -> Int]
    BY <1>20 DEF Reconnect, TypeOK
  <2> QED BY <1>20, <2>1, Records, SetsTyped DEF Reconnect, TypeOK
<1>21. CASE Crash
  <2>1. Placed(Idle, NewEnv)
    BY AtRest
  <2> QED BY <1>21, <2>1, Records DEF Crash, TypeOK
<1>22. CASE UNCHANGED vars
  BY <1>22 DEF vars, TypeOK
<1> QED BY <1>1, <1>2, <1>3, <1>4, <1>5, <1>6, <1>7, <1>8, <1>9, <1>10, <1>11, <1>12, <1>13,
           <1>14, <1>15, <1>16, <1>17, <1>18, <1>19, <1>20, <1>21, <1>22 DEF Next

\* The locals of every handler have their types, and a session holds a file
\* exactly while its handler moves bytes.
THEOREM TypeInvariant == Spec => []TypeOK
<1>1. Init => TypeOK
  BY TypeStart
<1>2. TypeOK /\ [Next]_vars => TypeOK'
  BY TypeStep
<1> QED BY <1>1, <1>2, PTL DEF Spec

-----------------------------------------------------------------------------
(* Transfers.                                                              *)

\* A session that a step leaves alone, or disturbs, stays as good as it was.
LEMMA LeftAlone ==
    ASSUME TypeOK, NEW t \in Sessions, Good(t),
           job'[t] = job[t], env'[t] = env[t], asked'[t] = asked[t],
           \/ /\ seen'[t] = seen[t]
              /\ job[t].node \in Nodes => content'[job[t].node] = content[job[t].node]
           \/ seen'[t] = Disturbed(t)
    PROVE  Good(t)'
<1>1. job[t].pc \notin {"idle", "rename"} => job[t].node \in Nodes
  BY DEF TypeOK, Placed
<1>2. CASE /\ seen'[t] = seen[t]
           /\ job[t].node \in Nodes => content'[job[t].node] = content[job[t].node]
  BY <1>1, <1>2 DEF Good, Counts, Sends, Receives, Written
<1>3. CASE seen'[t] = Disturbed(t)
  <2>1. seen'[t].disturbed = TRUE /\ seen'[t].failed = seen[t].failed
    BY <1>3 DEF Disturbed, NothingSeen
  <2> QED BY <2>1 DEF Good, Counts, Sends, Receives
<1> QED BY <1>2, <1>3

\* So does one between two commands, whose client counts with the server's offset.
LEMMA BetweenCommands ==
    ASSUME NEW t \in Sessions, job'[t].pc \in {"idle", "rename"}, seen'[t].failed = 0,
           asked'[t] = env'[t].data_offset
    PROVE  Good(t)'
BY DEF Good, Counts, Sends, Receives

\* A handler that returns leaves every session good.
LEMMA DoneGood ==
    ASSUME TypeOK, NEW s \in Sessions, Done(s), job[s].pc # "appe",
           \A t \in Sessions : Good(t), UNCHANGED <<content, env, asked>>
    PROVE  \A t \in Sessions : Good(t)'
<1> SUFFICES ASSUME NEW t \in Sessions
             PROVE  Good(t)'
  OBVIOUS
<1>1. CASE t = s
  <2>1. job'[t] = Idle /\ seen'[t] = NothingSeen
    BY <1>1 DEF Done, TypeOK
  <2>2. asked'[t] = env'[t].data_offset
    BY <1>1 DEF Good, Counts
  <2>3. NothingSeen.failed = 0
    BY DEF NothingSeen
  <2> QED BY <2>1, <2>2, <2>3, AtRest, BetweenCommands
<1>2. CASE t # s
  <2>1. job'[t] = job[t] /\ seen'[t] = seen[t]
    BY <1>2 DEF Done, TypeOK
  <2> QED BY <2>1, LeftAlone
<1> QED BY <1>1, <1>2

\* One that opens a file to store into it writes from the offset its client
\* means, over what the file holds; nobody else has a new file open.
LEMMA OpenGood ==
    ASSUME TypeOK, NEW s \in Sessions, NEW p \in Paths, NEW own \in Views,
           OpenToStore(s, p, own), \A t \in Sessions : Good(t),
           asked' = [asked EXCEPT ![s] = 0],
           ~own.disturbed => /\ own.base = env[s].data_offset /\ own.moved = <<>>
                             /\ own.before = IF link[p] = NoNode THEN <<>> ELSE content[link[p]]
    PROVE  \A t \in Sessions : Good(t)'
<1> DEFINE n == IF link[p] = NoNode THEN NewNode ELSE link[p]
           open == [pc |-> "receive", path |-> p, node |-> n,
                    pos |-> env[s].data_offset, off |-> env[s].data_offset]
<1>1. n \in Nodes
  BY NewNodeIsFree DEF OpenToStore, TypeOK, FreeNodes
<1>2. content'[n] = IF link[p] = NoNode THEN <<>> ELSE content[n]
  BY <1>1 DEF OpenToStore, TypeOK
<1>3. ASSUME NEW t \in Sessions, job[t].node \in Nodes
      PROVE  content'[job[t].node] = content[job[t].node]
  <2>1. CASE link[p] = NoNode
    <3>1. NewNode \notin Held
      BY <2>1, NewNodeIsFree DEF OpenToStore, FreeNodes
    <3>2. content' = [content EXCEPT ![NewNode] = <<>>]
      BY <2>1 DEF OpenToStore
    <3> QED BY <1>3, <3>1, <3>2 DEF Held, TypeOK
  <2>2. CASE link[p] # NoNode
    BY <2>2 DEF OpenToStore
  <2> QED BY <2>1, <2>2
<1>4. env' = [env EXCEPT ![s].data_offset = 0]
  BY DEF OpenToStore
<1>5. env'[s].data_offset = 0 /\ asked'[s] = 0
  BY <1>4 DEF TypeOK, Envs
<1>6. \/ job' = [job EXCEPT ![s] = Idle] /\ seen' = [seen EXCEPT ![s] = NothingSeen]
      \/ /\ ~(env[s].data_offset < 0)
         /\ job' = [job EXCEPT ![s] = open] /\ seen' = [seen EXCEPT ![s] = own]
  BY DEF OpenToStore, Done
<1>7. ASSUME NEW t \in Sessions, t # s
      PROVE  Good(t)'
  <2>1. /\ job'[t] = job[t] /\ seen'[t] = seen[t]
        /\ env'[t] = env[t] /\ asked'[t] = asked[t]
    BY <1>4, <1>6, <1>7 DEF TypeOK
  <2> QED BY <2>1, <1>3, LeftAlone
<1>8. Good(s)'
  <2>1. CASE job'[s] = Idle /\ seen'[s] = NothingSeen
    <3>1. NothingSeen.failed = 0
      BY DEF NothingSeen
    <3> QED BY <2>1, <3>1, <1>5, AtRest, BetweenCommands
  <2>2. CASE ~(env[s].data_offset < 0) /\ job'[s] = open /\ seen'[s] = own
    <3>1. env[s].data_offset \in Nat
      BY <2>2 DEF TypeOK, Envs
    <3>2. /\ open.pc = "receive" /\ open.node = n
          /\ open.pos = env[s].data_offset /\ open.off = env[s].data_offset
      OBVIOUS
    <3>3. ~own.disturbed => own.before = content'[n]
      BY <1>2
    <3> HIDE DEF open, n
    <3>4. Counts(s)' /\ Sends(s)'
      BY <2>2, <3>2, <1>5 DEF Counts, Sends
    <3>5. own.moved = <<>> => own.base + Len(own.moved) = own.base + 0
      OBVIOUS
    <3>6. Receives(s)'
      BY <2>2, <3>1, <3>2, <3>3, <3>5 DEF Receives, Written
    <3> QED BY <3>4, <3>6 DEF Good
  <2> QED BY <1>6, <2>1, <2>2 DEF TypeOK
<1> QED BY <1>7, <1>8

\* A step of one handler that changes no file and no session's offset.
LEMMA OwnStep ==
    ASSUME TypeOK, NEW s \in Sessions, \A t \in Sessions : Good(t),
           NEW j, NEW v, job' = [job EXCEPT ![s] = j], seen' = [seen EXCEPT ![s] = v],
           UNCHANGED <<content, env, asked>>, Good(s)'
    PROVE  \A t \in Sessions : Good(t)'
<1>1. ASSUME NEW t \in Sessions, t # s
      PROVE  Good(t)'
  BY <1>1, LeftAlone DEF TypeOK
<1> QED BY <1>1

LEMMA RestGood ==
    ASSUME TypeOK, \A t \in Sessions : Good(t), NEW s \in Sessions,
           Rest(s) \/ StorRefused(s) \/ Reconnect(s) \/ Rnfr(s)
    PROVE  \A t \in Sessions : Good(t)'
<1>1. job[s].pc = "idle" /\ UNCHANGED <<content, job, seen>>
  BY DEF Rest, StorRefused, Reconnect, Rnfr, Command
<1>2. asked[s] = env[s].data_offset /\ seen[s].failed = 0
  BY <1>1 DEF Good, Counts
<1>3. asked'[s] = env'[s].data_offset
  BY <1>1, <1>2, AtRest DEF Rest, StorRefused, Reconnect, Rnfr, TypeOK, Envs
<1>4. \A t \in Sessions \ {s} : env'[t] = env[t] /\ asked'[t] = asked[t]
  BY DEF Rest, StorRefused, Reconnect, Rnfr, TypeOK
<1>5. ASSUME NEW t \in Sessions \ {s}
      PROVE  Good(t)'
  BY <1>1, <1>4, LeftAlone
<1>6. Good(s)'
  BY <1>1, <1>2, <1>3, BetweenCommands
<1> QED BY <1>5, <1>6

LEMMA RetrGood ==
    ASSUME TypeOK, \A t \in Sessions : Good(t), NEW s \in Sessions,
           RetrOpen(s) \/ RetrBlock(s) \/ RetrEnd(s)
    PROVE  \A t \in Sessions : Good(t)'
<1>1. CASE RetrOpen(s)
  <2>1. PICK p \in Paths : /\ link[p] # NoNode
                           /\ job' = [job EXCEPT ![s] = Handler("retr", p, link[p])]
                           /\ seen' = [seen EXCEPT ![s] = Transfer(link[p], asked[s])]
    BY <1>1 DEF RetrOpen
  <2> DEFINE j == Handler("retr", p, link[p])
             v == Transfer(link[p], asked[s])
  <2>2. j.pc = "retr" /\ j.node = link[p] /\ j.pos = 0 /\ link[p] \in Nodes
    BY <2>1 DEF Handler, TypeOK
  <2>3. /\ v.before = content[link[p]] /\ v.moved = <<>> /\ v.failed = 0
        /\ UNCHANGED <<content, env, asked>>
    BY <1>1, <2>1 DEF RetrOpen, Transfer, NothingSeen
  <2>4. asked[s] = env[s].data_offset
    BY <1>1 DEF RetrOpen, Command, Good, Counts
  <2>5. content[link[p]] \in Seq(Bytes \cup {Zero})
    BY <2>2 DEF TypeOK, Content
  <2>6. 0 <= Len(content[link[p]]) /\ SubSeq(content[link[p]], 1, 0) = <<>>
    BY <2>5
  <2>7. job'[s] = j /\ seen'[s] = v
    BY <2>1 DEF TypeOK
  <2> HIDE DEF j, v
  <2>8. Good(s)'
    BY <2>2, <2>3, <2>4, <2>6, <2>7 DEF Good, Counts, Sends, Receives
  <2> QED BY <2>1, <2>3, <2>8, OwnStep DEF j, v
<1>2. CASE RetrBlock(s)
  <2> DEFINE j == [job[s] EXCEPT !.pos = @ + 1]
             c == content[job[s].node]
             x == c[job[s].pos + 1]
             v == Moved(s, x)
  <2>1. /\ job' = [job EXCEPT ![s] = j] /\ seen' = [seen EXCEPT ![s] = v]
        /\ UNCHANGED <<content, env, asked>>
        /\ job[s].pc = "retr" /\ job[s].pos < Len(c)
    BY <1>2 DEF RetrBlock
  <2>2. job[s] \in Jobs /\ seen[s] \in Views /\ c \in Seq(Bytes \cup {Zero})
    BY <2>1 DEF TypeOK, Placed, Content
  <2>3. /\ j.pc = "retr" /\ j.node = job[s].node /\ j.pos = job[s].pos + 1
        /\ job[s].pos \in Nat
    BY <2>1, <2>2 DEF Jobs
  <2>4. Counts(s) /\ Sends(s)
    BY DEF Good
  <2>5. CASE seen[s].disturbed
    <3>1. v = seen[s]
      BY <2>5 DEF Moved
    <3>2. job'[s] = j /\ seen'[s] = seen[s]
      BY <2>1, <3>1 DEF TypeOK
    <3> HIDE DEF j, v
    <3>3. Good(s)'
      BY <2>1, <2>3, <2>4, <2>5, <3>2 DEF Good, Counts, Sends, Receives
    <3> QED BY <2>1, <3>3, OwnStep
  <2>6. CASE ~seen[s].disturbed
    <3>1. /\ v.moved = Append(seen[s].moved, x) /\ v.before = seen[s].before
          /\ v.failed = seen[s].failed /\ v.disturbed = seen[s].disturbed
      BY <2>2, <2>6 DEF Moved, Views
    <3>2. /\ c = seen[s].before
          /\ seen[s].moved = SubSeq(c, 1, job[s].pos)
      BY <2>1, <2>4, <2>6 DEF Sends
    <3>3. Append(SubSeq(c, 1, job[s].pos), x) = SubSeq(c, 1, job[s].pos + 1)
      <4>1. job[s].pos + 1 \in 1 .. Len(c)
        BY <2>1, <2>2, <2>3
      <4> HIDE DEF c
      <4> QED BY <2>2, <2>3, <4>1 DEF x
    <3>4. job[s].pos + 1 <= Len(c)
      BY <2>1, <2>2, <2>3
    <3>5. job'[s] = j /\ seen'[s] = v
      BY <2>1 DEF TypeOK
    <3>6. content'[j.node] = c
      BY <2>1, <2>3
    <3> HIDE DEF j, v, c, x
    <3>7. Counts(s)' /\ Receives(s)'
      BY <2>1, <2>3, <2>4, <3>1, <3>5 DEF Counts, Receives
    <3>8. Sends(s)'
      BY <2>3, <3>1, <3>2, <3>3, <3>4, <3>5, <3>6 DEF Sends
    <3>9. Good(s)'
      BY <3>7, <3>8 DEF Good
    <3> QED BY <2>1, <3>9, OwnStep
  <2> QED BY <2>5, <2>6
<1>3. CASE RetrEnd(s)
  <2> DEFINE j == [job[s] EXCEPT !.pc = "sent"]
  <2>1. job[s].pc = "retr" /\ seen[s] \in Views /\ job[s] \in Jobs
    BY <1>3 DEF RetrEnd, TypeOK
  <2>2. j.pc = "sent" /\ j.node = job[s].node /\ j.pos = job[s].pos /\ job[s].pos \in Nat
    BY <2>1 DEF Jobs
  <2>3. /\ job' = [job EXCEPT ![s] = j] /\ job'[s] = j
        /\ UNCHANGED <<content, env, asked, seen>>
        /\ job[s].pos >= Len(content[job[s].node])
    BY <1>3 DEF RetrEnd, TypeOK
  <2>4. seen' = [seen EXCEPT ![s] = seen[s]]
    BY <2>3 DEF TypeOK
  <2>5. Len(seen[s].before) \in Nat
    BY <2>1 DEF Views, Content
  <2> HIDE DEF j
  <2>6. Good(s)'
    BY <2>1, <2>2, <2>3, <2>5 DEF Good, Counts, Sends, Receives
  <2> QED BY <2>3, <2>4, <2>6, OwnStep
<1> QED BY <1>1, <1>2, <1>3

LEMMA AppeGood ==
    ASSUME TypeOK, \A t \in Sessions : Good(t), NEW s \in Sessions,
           AppeStat(s) \/ AppeOpen(s) \/ Stor(s)
    PROVE  \A t \in Sessions : Good(t)'
<1>1. CASE AppeStat(s)
  <2>1. PICK p \in Paths :
          /\ link[p] # NoNode
          /\ env' = [env EXCEPT ![s].data_offset = Len(content[link[p]])]
          /\ job' = [job EXCEPT ![s] = Handler("appe", p, link[p])]
          /\ seen' = [seen EXCEPT ![s] = Transfer(link[p], Len(content[link[p]]))]
    BY <1>1 DEF AppeStat
  <2> DEFINE j == Handler("appe", p, link[p])
             v == Transfer(link[p], Len(content[link[p]]))
  <2>2. j.pc = "appe" /\ j.node = link[p]
    BY DEF Handler
  <2>3. /\ v.before = content[link[p]] /\ v.moved = <<>> /\ v.failed = 0
        /\ v.base = Len(content[link[p]])
    BY <2>1 DEF Transfer, NothingSeen
  <2>4. asked'[s] = 0 /\ UNCHANGED <<content, asked>>
    BY <1>1 DEF AppeStat, Command, Good, Counts
  <2>5. /\ env'[s].data_offset = Len(content[link[p]])
        /\ \A t \in Sessions \ {s} : env'[t] = env[t]
    BY <2>1 DEF TypeOK, Envs
  <2>6. job'[s] = j /\ seen'[s] = v
    BY <2>1 DEF TypeOK
  <2>7. ASSUME NEW t \in Sessions \ {s}
        PROVE  Good(t)'
    BY <2>1, <2>4, <2>5, LeftAlone DEF TypeOK
  <2> HIDE DEF j, v
  <2>8. Good(s)'
    BY <2>2, <2>3, <2>4, <2>5, <2>6 DEF Good, Counts, Sends, Receives
  <2> QED BY <2>7, <2>8
<1>2. CASE AppeOpen(s)
  <2> DEFINE p   == job[s].path
             own == IF link[p] = job[s].node THEN seen[s] ELSE Disturbed(s)
  <2>1. /\ OpenToStore(s, p, own) /\ job[s].pc = "appe" /\ UNCHANGED asked
        /\ p \in Paths /\ job[s].node \in Nodes /\ job[s].node # NoNode
    BY <1>2, AtRest DEF AppeOpen, TypeOK, Placed
  <2>2. asked' = [asked EXCEPT ![s] = 0]
    BY <2>1 DEF Good, Counts, TypeOK
  <2>3. own \in Views /\ Disturbed(s).disturbed = TRUE
    BY Records DEF TypeOK, Disturbed, NothingSeen
  <2>4. ~own.disturbed => /\ own.base = env[s].data_offset /\ own.moved = <<>>
                          /\ own.before = IF link[p] = NoNode THEN <<>> ELSE content[link[p]]
    BY <2>1, <2>3 DEF Good, Counts
  <2> HIDE DEF p, own
  <2> QED BY <2>1, <2>2, <2>3, <2>4, OpenGood
<1>3. CASE Stor(s)
  <2>1. PICK p \in Paths : OpenToStore(s, p, Transfer(link[p], asked[s]))
    BY <1>3 DEF Stor
  <2> DEFINE own == Transfer(link[p], asked[s])
  <2>2. own.base = asked[s] /\ own.moved = <<>>
        /\ own.before = IF link[p] = NoNode THEN <<>> ELSE content[link[p]]
    BY DEF Transfer, NothingSeen
  <2>3. asked[s] = env[s].data_offset /\ asked' = [asked EXCEPT ![s] = 0]
    BY <1>3 DEF Stor, Command, Good, Counts
  <2>4. own \in Views
    BY Records DEF TypeOK
  <2> HIDE DEF own
  <2> QED BY <2>1, <2>2, <2>3, <2>4, OpenGood DEF own
<1> QED BY <1>1, <1>2, <1>3

\* What a byte more leaves in a file, whether it is the first one or not.
LEMMA OneMore ==
    ASSUME NEW c \in Content, NEW o \in Nat, NEW b \in Content, NEW x \in Bytes
    PROVE  WriteAt(IF b = <<>> THEN c ELSE WriteAt(c, o, b), o + Len(b), <<x>>)
               = WriteAt(c, o, Append(b, x))
<1>1. CASE b = <<>>
  <2>1. o + Len(b) = o /\ Append(b, x) = <<x>>
    BY <1>1
  <2> QED BY <1>1, <2>1
<1>2. CASE b # <<>>
  BY <1>2, WriteMore
<1> QED BY <1>1, <1>2

LEMMA ReceiveGood ==
    ASSUME TypeOK, \A t \in Sessions : Good(t), NEW s \in Sessions, Receive(s)
    PROVE  \A t \in Sessions : Good(t)'
<1> DEFINE j == [job[s] EXCEPT !.pos = @ + 1, !.off = @ + 1]
           n == job[s].node
<1>1. PICK b \in Bytes : /\ content' = [content EXCEPT ![n] = WriteAt(@, job[s].pos, <<b>>)]
                         /\ Disturb(s, n, Moved(s, b))
  BY DEF Receive
<1> DEFINE v == Moved(s, b)
<1>2. job[s].pc = "receive" /\ job' = [job EXCEPT ![s] = j] /\ UNCHANGED <<env, asked>>
  BY DEF Receive
<1>3. job[s] \in Jobs /\ seen[s] \in Views /\ n \in Nodes
  BY <1>2 DEF TypeOK, Placed
<1>4. /\ j.pc = "receive" /\ j.node = n
      /\ j.pos = job[s].pos + 1 /\ j.off = job[s].off + 1
  BY <1>2, <1>3 DEF Jobs
<1>5. ASSUME NEW t \in Sessions, t # s
      PROVE  Good(t)'
  <2>1. seen'[t] = IF job[t].node = n THEN Disturbed(t) ELSE seen[t]
    BY <1>1, <1>5 DEF Disturb
  <2>2. job[t].node # n => content'[job[t].node] = content[job[t].node]
    BY <1>1 DEF TypeOK
  <2> HIDE DEF n, j
  <2> QED BY <1>2, <1>5, <2>1, <2>2, LeftAlone DEF TypeOK
<1>6. job'[s] = j /\ seen'[s] = v
  BY <1>1, <1>2 DEF TypeOK, Disturb
<1>7. CASE seen[s].disturbed
  <2>1. v.disturbed
    BY <1>7 DEF Moved
  <2> HIDE DEF j, v, n
  <2> QED BY <1>2, <1>4, <1>5, <1>6, <1>7, <2>1 DEF Good, Counts, Sends, Receives
<1>8. CASE ~seen[s].disturbed
  <2> DEFINE before == seen[s].before
             base   == seen[s].base
             moved  == seen[s].moved
  <2>1. /\ v.moved = Append(moved, b) /\ v.before = before /\ v.base = base
        /\ v.failed = seen[s].failed /\ v.disturbed = seen[s].disturbed
    BY <1>3, <1>8 DEF Moved, Views
  <2>2. /\ before \in Content /\ moved \in Content /\ Len(moved) \in Nat
    BY <1>3 DEF Views, Content
  <2>3. /\ base \in Nat /\ job[s].pos = base + Len(moved)
        /\ seen[s].failed = 0 => job[s].off = job[s].pos
        /\ content[n] = IF moved = <<>> THEN before ELSE WriteAt(before, base, moved)
    BY <1>2, <1>8 DEF Good, Receives, Written
  <2>4. content'[n] = WriteAt(content[n], job[s].pos, <<b>>)
    BY <1>1, <1>3 DEF TypeOK
  <2>5. content'[n] = WriteAt(before, base, Append(moved, b))
    <3> HIDE DEF before, base, moved, n
    <3>1. content'[n] = WriteAt(IF moved = <<>> THEN before ELSE WriteAt(before, base, moved),
                                base + Len(moved), <<b>>)
      BY <2>3, <2>4, Zenon
    <3> QED BY <2>2, <2>3, <3>1, OneMore
  <2>6. Len(Append(moved, b)) = Len(moved) + 1 /\ Append(moved, b) # <<>>
    <3>1. moved \in Seq(Bytes \cup {Zero}) /\ b \in Bytes \cup {Zero}
      BY <2>2 DEF Content
    <3> HIDE DEF moved
    <3> QED BY <3>1
  <2>7. j.pos = base + Len(Append(moved, b)) /\ (seen[s].failed = 0 => j.off = j.pos)
    BY <1>4, <2>2, <2>3, <2>6
  <2>8. Counts(s)
    BY DEF Good
  <2> HIDE DEF j, v, n, before, base, moved
  <2>9. Written(s)' = content'[n]
    BY <1>6, <2>1, <2>5, <2>6 DEF Written
  <2>10. Counts(s)' /\ Sends(s)'
    BY <1>2, <1>4, <1>6, <2>1, <2>8 DEF Counts, Sends
  <2>11. Receives(s)'
    BY <1>4, <1>6, <2>1, <2>3, <2>7, <2>9 DEF Receives
  <2> QED BY <1>5, <2>10, <2>11 DEF Good
<1> QED BY <1>7, <1>8

\* The ftruncate that ends an upload leaves the old bytes in front of the new
\* ones, and nothing behind them.
LEMMA TruncateGood ==
    ASSUME TypeOK, \A t \in Sessions : Good(t), NEW s \in Sessions, Truncate(s),
           ~(job[s].off < 0)
    PROVE  \A t \in Sessions : Good(t)'
<1> DEFINE j == [job[s] EXCEPT !.pc = "stored"]
           n == job[s].node
<1>1. /\ job[s].pc = "truncate" /\ job' = [job EXCEPT ![s] = j] /\ UNCHANGED <<env, asked>>
      /\ content' = [content EXCEPT ![n] = Resize(@, job[s].off)]
      /\ Disturb(s, n, seen[s])
  BY DEF Truncate
<1>2. job[s] \in Jobs /\ seen[s] \in Views /\ n \in Nodes
  BY <1>1 DEF TypeOK, Placed
<1>3. j.pc = "stored" /\ j.node = n
  BY <1>2 DEF Jobs
<1>4. ASSUME NEW t \in Sessions, t # s
      PROVE  Good(t)'
  <2>1. seen'[t] = IF job[t].node = n THEN Disturbed(t) ELSE seen[t]
    BY <1>1, <1>4 DEF Disturb
  <2>2. job[t].node # n => content'[job[t].node] = content[job[t].node]
    BY <1>1 DEF TypeOK
  <2> HIDE DEF n, j
  <2> QED BY <1>1, <1>4, <2>1, <2>2, LeftAlone DEF TypeOK
<1>5. job'[s] = j /\ seen'[s] = seen[s]
  BY <1>1 DEF TypeOK, Disturb
<1>6. ASSUME ~seen[s].disturbed, seen[s].failed = 0
      PROVE  content'[n] = Spliced(seen[s].before, seen[s].base, seen[s].moved)
  <2> DEFINE before == seen[s].before
             base   == seen[s].base
             moved  == seen[s].moved
  <2>1. before \in Content /\ moved \in Content
    BY <1>2 DEF Views
  <2>2. /\ base \in Nat /\ job[s].off = base + Len(moved)
        /\ content[n] = IF moved = <<>> THEN before ELSE WriteAt(before, base, moved)
    BY <1>1, <1>6 DEF Good, Receives, Written
  <2>3. content'[n] = Resize(content[n], base + Len(moved))
    BY <1>1, <1>2, <2>2 DEF TypeOK
  <2> HIDE DEF before, base, moved, n
  <2>4. CASE moved = <<>>
    <3>1. base + Len(moved) = base
      BY <2>2, <2>4
    <3>2. Resize(before, base) \in Seq(Bytes \cup {Zero})
      BY <2>1, <2>2, Resized DEF Content
    <3>3. Resize(before, base) \o <<>> = Resize(before, base)
      BY <3>2
    <3> QED BY <2>2, <2>3, <2>4, <3>1, <3>3 DEF Spliced, before, base, moved
  <2>5. CASE moved # <<>>
    <3>1. Resize(WriteAt(before, base, moved), base + Len(moved)) = Spliced(before, base, moved)
      BY <2>1, <2>2, CutWritten
    <3> QED BY <2>2, <2>3, <2>5, <3>1 DEF before, base, moved
  <2> QED BY <2>4, <2>5
<1> HIDE DEF j, n
<1>7. Good(s)'
  BY <1>1, <1>3, <1>5, <1>6 DEF Good, Counts, Sends, Receives
<1> QED BY <1>4, <1>7

LEMMA Start ==
    ASSUME Init
    PROVE  IInv
<1>1. ASSUME NEW s \in Sessions
      PROVE  Good(s)
  <2>1. job[s].pc = "idle" /\ seen[s].failed = 0 /\ asked[s] = env[s].data_offset
    BY AtRest DEF Init, NothingSeen
  <2> QED BY <2>1 DEF Good, Counts, Sends, Receives
<1> QED BY <1>1, TypeStart DEF IInv

LEMMA Step ==
    ASSUME IInv, [Next]_vars
    PROVE  IInv'
<1>0. TypeOK /\ \A t \in Sessions : Good(t)
  BY DEF IInv
<1> DEFINE AllGood == \A t \in Sessions : Good(t)'
<1>1. ASSUME NEW s \in Sessions, Rest(s) \/ StorRefused(s) \/ Reconnect(s) \/ Rnfr(s)
      PROVE  AllGood
  BY <1>0, <1>1, RestGood
<1>2. ASSUME NEW s \in Sessions, Dele(s)
      PROVE  AllGood
  BY <1>0, <1>2, LeftAlone DEF Dele
<1>3. ASSUME NEW s \in Sessions, RntoStat(s)
      PROVE  AllGood
  <2>1. PICK p \in Paths : job' = [job EXCEPT ![s] = Handler("rename", p, NoNode)]
    BY <1>3 DEF RntoStat
  <2>2. job'[s].pc = "rename"
    BY <1>0, <2>1 DEF TypeOK, Handler
  <2>3. seen'[s].failed = 0 /\ asked'[s] = env'[s].data_offset
    BY <1>0, <1>3 DEF RntoStat, Command, Good, Counts
  <2>4. Good(s)'
    BY <2>2, <2>3, BetweenCommands
  <2>5. seen' = [seen EXCEPT ![s] = seen[s]]
    BY <1>0, <1>3 DEF RntoStat, TypeOK
  <2> QED BY <1>0, <1>3, <2>1, <2>4, <2>5, OwnStep DEF RntoStat
<1>4. ASSUME NEW s \in Sessions, Rename(s) \/ RetrFail(s) \/ WriteFail(s) \/ Complete(s)
      PROVE  AllGood
  BY <1>0, <1>4, DoneGood DEF Rename, RetrFail, WriteFail, Complete
<1>5. ASSUME NEW s \in Sessions, RetrOpen(s) \/ RetrBlock(s) \/ RetrEnd(s)
      PROVE  AllGood
  BY <1>0, <1>5, RetrGood
<1>6. ASSUME NEW s \in Sessions, AppeStat(s) \/ AppeOpen(s) \/ Stor(s)
      PROVE  AllGood
  BY <1>0, <1>6, AppeGood
<1>7. ASSUME NEW s \in Sessions, Receive(s)
      PROVE  AllGood
  BY <1>0, <1>7, ReceiveGood
<1>8. ASSUME NEW s \in Sessions, RecvFail(s)
      PROVE  AllGood
  <2> DEFINE j == [job[s] EXCEPT !.off = @ - 1]
             v == [seen[s] EXCEPT !.failed = @ + 1]
  <2>1. /\ job' = [job EXCEPT ![s] = j] /\ seen' = [seen EXCEPT ![s] = v]
        /\ job[s].pc = "receive" /\ UNCHANGED <<content, env, asked>>
    BY <1>8 DEF RecvFail
  <2>2. job[s] \in Jobs /\ seen[s] \in Views
    BY <1>0 DEF TypeOK
  <2>3. j.pc = "receive" /\ j.node = job[s].node /\ j.pos = job[s].pos
    BY <2>1, <2>2 DEF Jobs
  <2>4. /\ v.before = seen[s].before /\ v.base = seen[s].base /\ v.moved = seen[s].moved
        /\ v.disturbed = seen[s].disturbed /\ v.failed # 0
    BY <2>2 DEF Views
  <2>5. job'[s] = j /\ seen'[s] = v
    BY <1>0, <2>1 DEF TypeOK
  <2> HIDE DEF j, v
  <2>6. Good(s)'
    BY <1>0, <2>1, <2>3, <2>4, <2>5 DEF Good, Counts, Sends, Receives, Written
  <2> QED BY <1>0, <2>1, <2>6, OwnStep
<1>9. ASSUME NEW s \in Sessions, StorEnd(s)
      PROVE  AllGood
  <2> DEFINE j == [job[s] EXCEPT !.pc = "truncate"]
  <2>1. /\ job' = [job EXCEPT ![s] = j] /\ job'[s] = j
        /\ job[s].pc = "receive" /\ UNCHANGED <<content, env, asked, seen>>
    BY <1>0, <1>9 DEF StorEnd, TypeOK
  <2>2. j.pc = "truncate" /\ j.node = job[s].node /\ j.pos = job[s].pos /\ j.off = job[s].off
    BY <1>0 DEF TypeOK, Jobs
  <2>3. seen' = [seen EXCEPT ![s] = seen[s]]
    BY <1>0, <2>1 DEF TypeOK
  <2> HIDE DEF j
  <2>4. Good(s)'
    BY <1>0, <2>1, <2>2 DEF Good, Counts, Sends, Receives, Written
  <2> QED BY <1>0, <2>1, <2>3, <2>4, OwnStep
<1>10. ASSUME NEW s \in Sessions, Truncate(s)
       PROVE  AllGood
  <2>1. CASE job[s].off < 0
    <3>1. Done(s) /\ job[s].pc # "appe" /\ UNCHANGED <<content, env, asked>>
      BY <1>10, <2>1 DEF Truncate
    <3> QED BY <1>0, <3>1, DoneGood
  <2>2. CASE ~(job[s].off < 0)
    BY <1>0, <1>10, <2>2, TruncateGood
  <2> QED BY <2>1, <2>2
<1>11. ASSUME Crash
       PROVE  AllGood
  <2>1. ASSUME NEW t \in Sessions
        PROVE  Good(t)'
    <3>1. /\ job'[t].pc = "idle" /\ seen'[t].failed = 0
          /\ asked'[t] = env'[t].data_offset
      BY <1>11, AtRest DEF Crash, NothingSeen
    <3> QED BY <3>1, BetweenCommands
  <2> QED BY <2>1
<1>12. ASSUME UNCHANGED vars
       PROVE  AllGood
  BY <1>0, <1>12, LeftAlone DEF vars
<1>13. TypeOK'
  BY <1>0, TypeStep
<1> HIDE DEF AllGood
<1>14. AllGood
  BY <1>1, <1>2, <1>3, <1>4, <1>5, <1>6, <1>7, <1>8, <1>9, <1>10, <1>11, <1>12 DEF Next
<1> QED BY <1>13, <1>14 DEF IInv, AllGood

\* What holds of every transfer that nobody disturbs.
THEOREM Invariant == Spec => []IInv
<1>1. Init => IInv
  BY Start
<1>2. IInv /\ [Next]_vars => IInv'
  BY Step
<1> QED BY <1>1, <1>2, PTL DEF Spec

\* While an upload runs, its file is the old one with the bytes received so far
\* written over it, failed recv calls or not: the offset that ftruncate will use
\* never says where a byte is written.
THEOREM UploadKeepsOldBytes == Spec => []OldBytesStay
<1>1. IInv => OldBytesStay
  BY DEF IInv, Good, Receives, Written, OldBytesStay
<1> QED BY <1>1, Invariant, PTL

\* An upload that is answered 226 has left the old bytes up to the offset its
\* client asked for, what it sent, and nothing else.
THEOREM UploadComplete == Spec => []UploadStored
<1>1. IInv => UploadStored
  BY DEF IInv, Good, Receives, UploadStored
<1> QED BY <1>1, Invariant, PTL

\* A download that is answered 226 has sent the whole file.
THEOREM DownloadComplete == Spec => []DownloadWhole
<1>1. ASSUME IInv
      PROVE  DownloadWhole
  <2>1. ASSUME NEW s \in Sessions, job[s].pc = "sent", ~seen[s].disturbed
        PROVE  seen[s].moved = seen[s].before
    <3>1. seen[s].moved = SubSeq(seen[s].before, 1, Len(seen[s].before))
      BY <1>1, <2>1 DEF IInv, Good, Sends
    <3>2. seen[s].before \in Seq(Bytes \cup {Zero})
      BY <1>1 DEF IInv, TypeOK, Views, Content
    <3> QED BY <3>1, <3>2
  <2> QED BY <2>1 DEF DownloadWhole
<1> QED BY <1>1, Invariant, PTL

\* The file that is opened to store into it keeps its bytes, unless it is new.
LEMMA OpenKeeps ==
    ASSUME TypeOK, NEW s \in Sessions, NEW p \in Paths, NEW own, OpenToStore(s, p, own),
           NEW n \in Linked
    PROVE  content'[n] = content[n]
<1>1. CASE link[p] = NoNode
  <2>1. NewNode \notin Linked
    BY <1>1, NewNodeIsFree DEF OpenToStore, FreeNodes
  <2>2. content' = [content EXCEPT ![NewNode] = <<>>]
    BY <1>1 DEF OpenToStore
  <2> QED BY <2>1, <2>2 DEF Linked, TypeOK
<1>2. CASE link[p] # NoNode
  BY <1>2 DEF OpenToStore
<1> QED BY <1>1, <1>2

LEMMA OnlyTruncateCuts ==
    ASSUME TypeOK, Next, NEW n \in Linked, Len(content'[n]) < Len(content[n])
    PROVE  \E s \in Sessions : job[s].node = n /\ job[s].pc = "truncate"
<1>1. n \in Nodes /\ Len(content[n]) \in Nat
  BY DEF Linked, TypeOK, Content
<1>2. content'[n] # content[n]
  BY <1>1
<1>3. ASSUME NEW s \in Sessions, Stor(s) \/ AppeOpen(s)
      PROVE  FALSE
  BY <1>2, <1>3, OpenKeeps DEF Stor, AppeOpen, TypeOK, Placed
<1>4. ASSUME NEW s \in Sessions, Receive(s)
      PROVE  FALSE
  <2>1. PICK b \in Bytes :
            content' = [content EXCEPT ![job[s].node] = WriteAt(@, job[s].pos, <<b>>)]
    BY <1>4 DEF Receive
  <2>2. job[s].node = n
    BY <2>1, <1>2 DEF TypeOK
  <2>3. content'[n] = WriteAt(content[n], job[s].pos, <<b>>)
    BY <2>1, <2>2, <1>1 DEF TypeOK
  <2>4. content[n] \in Content /\ job[s].pos \in Nat /\ <<b>> \in Content
    BY <1>1 DEF TypeOK, Jobs, Content
  <2>5. Len(<<b>>) \in Nat /\ Len(content[n]) \in Nat
    BY <1>1
  <2>6. Len(content'[n]) >= Len(content[n])
    BY <2>3, <2>4, <2>5, WrittenAt
  <2> QED BY <2>5, <2>6, <1>1
<1>5. ASSUME NEW s \in Sessions, Truncate(s)
      PROVE  job[s].node = n /\ job[s].pc = "truncate"
  <2>1. PICK c : content' = content \/ content' = [content EXCEPT ![job[s].node] = c]
    BY <1>5 DEF Truncate
  <2>2. job[s].node = n
    BY <2>1, <1>1, <1>2 DEF TypeOK
  <2> QED BY <1>5, <2>2 DEF Truncate
<1>6. \/ \E s \in Sessions : Stor(s) \/ AppeOpen(s) \/ Receive(s) \/ Truncate(s)
      \/ UNCHANGED content
  BY DEF Next, Rest, Dele, Rnfr, RntoStat, Rename, RetrOpen, RetrBlock, RetrFail, RetrEnd,
         StorRefused, AppeStat, RecvFail, WriteFail, StorEnd, Complete, Reconnect, Crash
<1> QED BY <1>2, <1>3, <1>4, <1>5, <1>6

\* No step makes a file that keeps its name shorter, but the ftruncate of an
\* upload whose client has finished sending: opening to store never truncates.
THEOREM FilesNeverCutShort == Spec => NeverCutShort
<1>1. ASSUME TypeOK, [Next]_vars
      PROVE  [\A n \in Linked \cap Linked' :
                 Len(content'[n]) < Len(content[n]) =>
                     \E s \in Sessions : job[s].node = n /\ job[s].pc = "truncate"]_vars
  BY <1>1, OnlyTruncateCuts
<1> QED BY <1>1, TypeInvariant, PTL DEF Spec, NeverCutShort

=============================================================================
