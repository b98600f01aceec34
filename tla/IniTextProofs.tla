--------------------------- MODULE IniTextProofs ----------------------------
(***************************************************************************)
(* What ini_load makes of what ini_save prints: of the whole text every    *)
(* entry, of a text cut off at any byte some of them, of which one's value *)
(* or comment may end early, and nothing else.                             *)
(* The facts on texts of any length are inductions; they are made over     *)
(* sets of numbers, as the least counterexample (MinIsLeast) would have a  *)
(* predecessor.                                                            *)
(***************************************************************************)
EXTENDS IniProofs, SequenceTheorems

-----------------------------------------------------------------------------
(* Reading line by line.                                                   *)

\* A set of numbers with 0 and every successor up to n has all of them.
LEMMA UpTo ==
    ASSUME NEW n \in Nat, NEW S, 0 \in S,
           \A i \in 1 .. n : i - 1 \in S => i \in S
    PROVE  \A i \in 0 .. n : i \in S
<1> DEFINE bad == {i \in 0 .. n : i \notin S}
<1>1. SUFFICES ASSUME bad # {} PROVE FALSE
  OBVIOUS
<1>2. bad \in SUBSET Nat
  OBVIOUS
<1>3. Min(bad) \in bad /\ \A m \in bad : Min(bad) <= m
  BY <1>1, <1>2, MinIsLeast
<1> DEFINE i == Min(bad)
<1> HIDE DEF i
<1>4. i \in 0 .. n /\ i \notin S /\ \A m \in bad : i <= m
  BY <1>3 DEF i
<1>5. i # 0
  BY <1>4
<1>6. i \in 1 .. n /\ i - 1 \in 0 .. n
  BY <1>4, <1>5
<1>7. i - 1 \in S
  BY <1>4, <1>6
<1> QED BY <1>4, <1>6, <1>7

\* The structures that come about while lines are read.
Run(f, ini, lines, n) ==
    f = [i \in 0 .. n |-> IF i = 0 THEN ini ELSE ReadLine(f[i - 1], lines[i])]

LEMMA RunExists ==
    ASSUME NEW ini, NEW lines, NEW n \in Nat
    PROVE  \E f : Run(f, ini, lines, n)
<1> DEFINE S == {m \in 0 .. n : \E f : Run(f, ini, lines, m)}
<1>1. 0 \in S
  <2> DEFINE f == [i \in 0 .. 0 |-> ini]
  <2>1. Run(f, ini, lines, 0)
    BY DEF Run
  <2> HIDE DEF f
  <2> QED BY <2>1
<1>2. ASSUME NEW m \in 1 .. n, m - 1 \in S
      PROVE  m \in S
  <2>1. PICK f : Run(f, ini, lines, m - 1)
    BY <1>2
  <2> DEFINE g == [i \in 0 .. m |-> IF i <= m - 1 THEN f[i] ELSE ReadLine(f[i - 1], lines[i])]
  <2>2. g[0] = ini
    BY <2>1 DEF Run
  <2>3. ASSUME NEW i \in 1 .. m
        PROVE  g[i] = ReadLine(g[i - 1], lines[i])
    <3>1. g[i - 1] = f[i - 1]
      OBVIOUS
    <3>2. CASE i <= m - 1
      BY <2>1, <3>1, <3>2 DEF Run
    <3>3. CASE i = m
      BY <3>1, <3>3
    <3> QED BY <3>2, <3>3
  <2>4. Run(g, ini, lines, m)
    <3>1. \A i \in 0 .. m : g[i] = IF i = 0 THEN ini ELSE ReadLine(g[i - 1], lines[i])
      BY <2>2, <2>3
    <3>2. g = [i \in 0 .. m |-> g[i]]
      OBVIOUS
    <3> HIDE DEF g
    <3> QED BY <3>1, <3>2 DEF Run
  <2> QED BY <2>4
<1>3. \A m \in 0 .. n : m \in S
  BY <1>1, <1>2, UpTo
<1> QED BY <1>3

\* Two runs over the same lines agree as far as both go.
LEMMA RunsAgree ==
    ASSUME NEW ini, NEW a, NEW b, NEW n \in Nat, NEW m \in 0 .. n, NEW f, NEW g,
           Run(f, ini, a, n), Run(g, ini, b, m), \A i \in 1 .. m : a[i] = b[i]
    PROVE  \A i \in 0 .. m : f[i] = g[i]
<1> DEFINE S == {i \in 0 .. m : f[i] = g[i]}
<1>1. 0 \in S
  BY DEF Run
<1>2. ASSUME NEW i \in 1 .. m, i - 1 \in S
      PROVE  i \in S
  <2>1. f[i] = ReadLine(f[i - 1], a[i])
    BY DEF Run
  <2>2. g[i] = ReadLine(g[i - 1], b[i])
    BY DEF Run
  <2> QED BY <1>2, <2>1, <2>2
<1> HIDE DEF S
<1>3. \A i \in 0 .. m : i \in S
  BY <1>1, <1>2, UpTo
<1> QED BY <1>3 DEF S

\* ini_load reads the lines in turn.
LEMMA ReadIsRun ==
    ASSUME NEW ini, NEW lines, Len(lines) \in Nat
    PROVE  \E f : Run(f, ini, lines, Len(lines)) /\ ReadLines(ini, lines) = f[Len(lines)]
<1> DEFINE n == Len(lines)
           Body(f) == [i \in 0 .. n |->
                         IF i = 0 THEN ini ELSE TheOne({ReadLine(r, lines[i]) : r \in {f[i - 1]}})]
<1>1. \A x : TheOne({x}) = x
  BY DEF TheOne
<1>2. \A f, i : {ReadLine(r, lines[i]) : r \in {f[i - 1]}} = {ReadLine(f[i - 1], lines[i])}
  OBVIOUS
<1>3. \A f : Body(f) = [i \in 0 .. n |-> IF i = 0 THEN ini ELSE ReadLine(f[i - 1], lines[i])]
  BY <1>1, <1>2
<1> DEFINE read == CHOOSE f : f = Body(f)
<1>4. ReadLines(ini, lines) = read[n]
  BY DEF ReadLines
<1> HIDE DEF Body
<1>5. \E f : f = Body(f)
  <2>1. PICK f : Run(f, ini, lines, n)
    BY RunExists
  <2>2. f = Body(f)
    BY <1>3, <2>1 DEF Run
  <2> QED BY <2>2
<1>6. read = Body(read)
  BY <1>5
<1> HIDE DEF read
<1> QED BY <1>3, <1>4, <1>6 DEF Run

-----------------------------------------------------------------------------
(* Reading a text in parts.                                                *)

\* What is read of the first lines.
Read(ini, lines, n) == ReadLines(ini, SubSeq(lines, 1, n))

\* One more line.
LEMMA ReadNext ==
    ASSUME NEW T, NEW ini, NEW lines \in Seq(T)
    PROVE  /\ Read(ini, lines, 0) = ini
           /\ \A n \in 1 .. Len(lines) :
                 Read(ini, lines, n) = ReadLine(Read(ini, lines, n - 1), lines[n])
           /\ Read(ini, lines, Len(lines)) = ReadLines(ini, lines)
<1>1. Len(lines) \in Nat
  OBVIOUS
<1>2. PICK f : Run(f, ini, lines, Len(lines))
  BY <1>1, RunExists
<1>3. ASSUME NEW n \in 0 .. Len(lines)
      PROVE  Read(ini, lines, n) = f[n]
  <2> DEFINE a == SubSeq(lines, 1, n)
  <2>1. Len(a) = n /\ \A i \in 1 .. n : a[i] = lines[i]
    OBVIOUS
  <2> HIDE DEF a
  <2>2. PICK g : Run(g, ini, a, n) /\ ReadLines(ini, a) = g[n]
    <3>1. Len(a) \in Nat
      BY <1>1, <2>1
    <3>2. PICK g : Run(g, ini, a, Len(a)) /\ ReadLines(ini, a) = g[Len(a)]
      BY <3>1, ReadIsRun
    <3> QED BY <2>1, <3>2
  <2>3. f[n] = g[n]
    <3>1. \A i \in 1 .. n : lines[i] = a[i]
      BY <2>1
    <3>2. \A i \in 0 .. n : f[i] = g[i]
      BY <1>1, <1>2, <2>2, <3>1, RunsAgree
    <3> QED BY <1>1, <3>2
  <2> QED BY <2>2, <2>3 DEF Read, a
<1>4. f[0] = ini /\ \A n \in 1 .. Len(lines) : f[n] = ReadLine(f[n - 1], lines[n])
  BY <1>2 DEF Run
<1>5. SubSeq(lines, 1, Len(lines)) = lines
  OBVIOUS
<1>6. Read(ini, lines, 0) = ini
  BY <1>1, <1>3, <1>4
<1>7. ASSUME NEW n \in 1 .. Len(lines)
      PROVE  Read(ini, lines, n) = ReadLine(Read(ini, lines, n - 1), lines[n])
  <2>1. n \in 0 .. Len(lines) /\ n - 1 \in 0 .. Len(lines)
    BY <1>1
  <2> QED BY <1>3, <1>4, <2>1
<1>8. Read(ini, lines, Len(lines)) = ReadLines(ini, lines)
  BY <1>5 DEF Read
<1> QED BY <1>6, <1>7, <1>8

\* A text after another is read from what was read of that one.
LEMMA ReadConcat ==
    ASSUME NEW T, NEW ini, NEW a \in Seq(T), NEW b \in Seq(T)
    PROVE  /\ \A n \in 0 .. Len(a) : Read(ini, a \o b, n) = Read(ini, a, n)
           /\ \A n \in 0 .. Len(b) :
                 Read(ini, a \o b, Len(a) + n) = Read(ReadLines(ini, a), b, n)
           /\ ReadLines(ini, a \o b) = ReadLines(ReadLines(ini, a), b)
<1> DEFINE c == a \o b
           r == ReadLines(ini, a)
           S == {n \in 0 .. Len(b) : Read(ini, c, Len(a) + n) = Read(r, b, n)}
<1>1. /\ c \in Seq(T) /\ Len(c) = Len(a) + Len(b)
      /\ \A i \in 1 .. Len(b) : c[Len(a) + i] = b[i]
      /\ Len(a) \in Nat /\ Len(b) \in Nat
  OBVIOUS
<1>2. \A n \in 0 .. Len(a) : Read(ini, c, n) = Read(ini, a, n)
  <2>1. \A n \in 0 .. Len(a) : SubSeq(c, 1, n) = SubSeq(a, 1, n)
    OBVIOUS
  <2> QED BY <2>1 DEF Read
<1> HIDE DEF c
<1>3. /\ Read(ini, c, 0) = ini
      /\ \A i \in 1 .. Len(c) : Read(ini, c, i) = ReadLine(Read(ini, c, i - 1), c[i])
      /\ Read(ini, c, Len(c)) = ReadLines(ini, c)
  <2>1. c \in Seq(T)
    BY <1>1
  <2> QED BY <2>1, ReadNext
<1>4. /\ Read(r, b, 0) = r
      /\ \A n \in 1 .. Len(b) : Read(r, b, n) = ReadLine(Read(r, b, n - 1), b[n])
      /\ Read(r, b, Len(b)) = ReadLines(r, b)
  BY ReadNext
<1>5. Read(ini, a, Len(a)) = r
  BY ReadNext
<1> HIDE DEF r
<1>6. 0 \in S
  BY <1>1, <1>2, <1>4, <1>5
<1>7. ASSUME NEW n \in 1 .. Len(b), n - 1 \in S
      PROVE  n \in S
  <2> DEFINE i == Len(a) + n
  <2>1. i \in 1 .. Len(c) /\ i - 1 = Len(a) + (n - 1) /\ c[i] = b[n]
    BY <1>1
  <2>2. Read(ini, c, i) = ReadLine(Read(ini, c, i - 1), c[i])
    BY <1>3, <2>1
  <2>3. Read(r, b, n) = ReadLine(Read(r, b, n - 1), b[n])
    BY <1>4
  <2> QED BY <1>7, <2>1, <2>2, <2>3
<1> HIDE DEF S
<1>8. \A n \in 0 .. Len(b) : n \in S
  BY <1>1, <1>6, <1>7, UpTo
<1>9. \A n \in 0 .. Len(b) : Read(ini, c, Len(a) + n) = Read(r, b, n)
  BY <1>8 DEF S
<1>10. ReadLines(ini, c) = ReadLines(r, b)
  BY <1>1, <1>9, <1>3, <1>4
<1> QED BY <1>2, <1>9, <1>10 DEF c, r

-----------------------------------------------------------------------------
(* FlattenSeq, of the community modules.                                   *)

\* What FlattenSeq defines by recursion.
Cat(a, b) == a \o b

Flat(f, ss, n) == f = [i \in 1 .. n |-> IF i = 1 THEN ss[i] ELSE Cat(f[i - 1], ss[i])]

LEMMA FlatExists ==
    ASSUME NEW ss, NEW n \in Nat
    PROVE  \E f : Flat(f, ss, n)
<1> DEFINE S == {m \in 0 .. n : \E f : Flat(f, ss, m)}
<1>1. 0 \in S
  <2> DEFINE f == [i \in 1 .. 0 |-> ss[i]]
  <2>1. Flat(f, ss, 0)
    BY DEF Flat
  <2> HIDE DEF f
  <2> QED BY <2>1
<1>2. ASSUME NEW m \in 1 .. n, m - 1 \in S
      PROVE  m \in S
  <2>1. PICK f : Flat(f, ss, m - 1)
    BY <1>2
  <2> DEFINE last == IF m = 1 THEN ss[m] ELSE Cat(f[m - 1], ss[m])
             g == [i \in 1 .. m |-> IF i <= m - 1 THEN f[i] ELSE last]
  <2>2. ASSUME NEW i \in 1 .. m
        PROVE  g[i] = IF i = 1 THEN ss[i] ELSE Cat(g[i - 1], ss[i])
    <3>1. CASE i <= m - 1
      <4>1. f[i] = IF i = 1 THEN ss[i] ELSE Cat(f[i - 1], ss[i])
        BY <2>1, <3>1 DEF Flat
      <4>2. i # 1 => g[i - 1] = f[i - 1]
        BY <3>1
      <4> QED BY <3>1, <4>1, <4>2
    <3>2. CASE i = m
      <4>1. i # 1 => g[i - 1] = f[i - 1]
        BY <3>2
      <4> QED BY <3>2, <4>1
    <3> QED BY <3>1, <3>2
  <2>3. g = [i \in 1 .. m |-> g[i]]
    OBVIOUS
  <2> HIDE DEF g
  <2>4. Flat(g, ss, m)
    BY <2>2, <2>3 DEF Flat
  <2> QED BY <2>4
<1> HIDE DEF S
<1>3. \A m \in 0 .. n : m \in S
  BY <1>1, <1>2, UpTo
<1> QED BY <1>3 DEF S

LEMMA FlatsAgree ==
    ASSUME NEW a, NEW b, NEW n \in Nat, NEW m \in 0 .. n, NEW f, NEW g,
           Flat(f, a, n), Flat(g, b, m), \A i \in 1 .. m : a[i] = b[i]
    PROVE  \A i \in 1 .. m : f[i] = g[i]
<1> DEFINE S == {0} \cup {i \in 1 .. m : f[i] = g[i]}
<1>1. 0 \in S /\ m \in Nat
  OBVIOUS
<1>2. ASSUME NEW i \in 1 .. m, i - 1 \in S
      PROVE  i \in S
  <2>1. f[i] = IF i = 1 THEN a[i] ELSE Cat(f[i - 1], a[i])
    BY DEF Flat
  <2>2. g[i] = IF i = 1 THEN b[i] ELSE Cat(g[i - 1], b[i])
    BY DEF Flat
  <2>3. i # 1 => f[i - 1] = g[i - 1]
    BY <1>2
  <2> QED BY <2>1, <2>2, <2>3
<1> HIDE DEF S
<1>3. \A i \in 0 .. m : i \in S
  BY <1>1, <1>2, UpTo
<1> QED BY <1>3 DEF S

LEMMA FlattenIsFlat ==
    ASSUME NEW ss, Len(ss) \in Nat, Len(ss) # 0
    PROVE  \E f : Flat(f, ss, Len(ss)) /\ FlattenSeq(ss) = f[Len(ss)]
<1> DEFINE n == Len(ss)
           flatten == CHOOSE f : Flat(f, ss, n)
<1>1. FlattenSeq(ss) = flatten[n]
  BY DEF FlattenSeq, Flat, Cat
<1>2. \E f : Flat(f, ss, n)
  BY FlatExists
<1>3. Flat(flatten, ss, n)
  BY <1>2
<1> HIDE DEF flatten
<1> QED BY <1>1, <1>3

\* The first sequences of ss, one after the other.
Joined(ss, n) == FlattenSeq(SubSeq(ss, 1, n))

LEMMA JoinIsFlat ==
    ASSUME NEW E, NEW ss \in Seq(E), NEW f, Flat(f, ss, Len(ss)), NEW n \in 1 .. Len(ss)
    PROVE  Joined(ss, n) = f[n]
<1> DEFINE a == SubSeq(ss, 1, n)
<1>1. /\ Len(a) = n /\ \A i \in 1 .. n : ss[i] = a[i]
      /\ Len(ss) \in Nat /\ n \in 0 .. Len(ss) /\ n \in Nat /\ n # 0
  OBVIOUS
<1> HIDE DEF a
<1>2. PICK g : Flat(g, a, n) /\ FlattenSeq(a) = g[n]
  <2>1. Len(a) \in Nat /\ Len(a) # 0
    BY <1>1
  <2>2. PICK g : Flat(g, a, Len(a)) /\ FlattenSeq(a) = g[Len(a)]
    BY <2>1, FlattenIsFlat
  <2> QED BY <1>1, <2>2
<1>3. \A i \in 1 .. n : f[i] = g[i]
  BY <1>1, <1>2, FlatsAgree
<1> QED BY <1>1, <1>2, <1>3 DEF Joined, a

LEMMA JoinNext ==
    ASSUME NEW T, NEW ss \in Seq(Seq(T))
    PROVE  /\ Joined(ss, 0) = <<>>
           /\ \A n \in 1 .. Len(ss) : Joined(ss, n) = Joined(ss, n - 1) \o ss[n]
           /\ \A n \in 0 .. Len(ss) : Joined(ss, n) \in Seq(T)
           /\ Joined(ss, Len(ss)) = FlattenSeq(ss)
<1>1. Len(ss) \in Nat
  OBVIOUS
<1>2. Joined(ss, 0) = <<>>
  <2>1. SubSeq(ss, 1, 0) = <<>>
    OBVIOUS
  <2> QED BY <2>1 DEF Joined, FlattenSeq
<1>3. PICK f : Flat(f, ss, Len(ss))
  BY <1>1, FlatExists
<1>4. \A n \in 1 .. Len(ss) : Joined(ss, n) = f[n]
  BY <1>3, JoinIsFlat
<1>5. ASSUME NEW n \in 1 .. Len(ss)
      PROVE  Joined(ss, n) = Cat(Joined(ss, n - 1), ss[n])
  <2>1. f[n] = IF n = 1 THEN ss[n] ELSE Cat(f[n - 1], ss[n])
    BY <1>3 DEF Flat
  <2>2. ss[n] \in Seq(T)
    OBVIOUS
  <2>3. CASE n = 1
    <3>1. Cat(<<>>, ss[n]) = ss[n]
      BY <2>2 DEF Cat
    <3> QED BY <1>2, <1>4, <2>1, <2>3, <3>1
  <2>4. CASE n # 1
    BY <1>1, <1>4, <2>1, <2>4, SMTT(30)
  <2> QED BY <2>3, <2>4
<1>6. \A n \in 0 .. Len(ss) : Joined(ss, n) \in Seq(T)
  <2> DEFINE S == {n \in 0 .. Len(ss) : Joined(ss, n) \in Seq(T)}
  <2>1. 0 \in S
    <3>1. <<>> \in Seq(T)
      OBVIOUS
    <3>2. Joined(ss, 0) \in Seq(T)
      BY <1>2, <3>1
    <3> QED BY <1>1, <3>2
  <2>2. ASSUME NEW n \in 1 .. Len(ss), n - 1 \in S
        PROVE  n \in S
    <3>1. ss[n] \in Seq(T) /\ Joined(ss, n - 1) \in Seq(T)
      BY <2>2
    <3>2. Cat(Joined(ss, n - 1), ss[n]) \in Seq(T)
      BY <3>1 DEF Cat
    <3> QED BY <1>5, <3>2
  <2> HIDE DEF S
  <2>3. \A n \in 0 .. Len(ss) : n \in S
    BY <1>1, <2>1, <2>2, UpTo
  <2> QED BY <2>3 DEF S
<1>7. Joined(ss, Len(ss)) = FlattenSeq(ss)
  <2>1. SubSeq(ss, 1, Len(ss)) = ss
    OBVIOUS
  <2> QED BY <2>1 DEF Joined
<1> QED BY <1>2, <1>5, <1>6, <1>7 DEF Cat

-----------------------------------------------------------------------------
(* What each kind of line does to the sections and to the comments that    *)
(* wait.                                                                   *)

\* The sections without their comments: what ini_get can see.
Bare(ini) ==
    [i \in DOMAIN ini.sections |->
        [name |-> ini.sections[i].name, keys |-> ini.sections[i].keys]]

BareSection(n, keys) == [name |-> n, keys |-> keys]

\* A list made of another's members.
LEMMA Mapped ==
    ASSUME NEW E, NEW F, NEW q \in Seq(E), NEW f,
           f = [i \in DOMAIN q |-> f[i]], \A i \in DOMAIN q : f[i] \in F
    PROVE  f \in Seq(F) /\ DOMAIN f = DOMAIN q /\ Len(f) = Len(q)
<1>1. DOMAIN q = 1 .. Len(q) /\ Len(q) \in Nat
  OBVIOUS
<1> QED BY <1>1

\* A section without its comments.
BareOver(T) == [name : T, keys : Seq(KeysOver(T))]

LEMMA BareTyped ==
    ASSUME NEW T, NEW ini \in Structures(T)
    PROVE  /\ ini.sections \in Seq(SectionsOver(T))
           /\ Bare(ini) \in Seq(BareOver(T))
           /\ DOMAIN Bare(ini) = DOMAIN ini.sections
           /\ Len(Bare(ini)) = Len(ini.sections)
           /\ \A i \in DOMAIN ini.sections :
                 Bare(ini)[i] = BareSection(ini.sections[i].name, ini.sections[i].keys)
<1>1. ini.sections \in Seq(SectionsOver(T))
  BY DEF Structures
<1>2. \A s \in SectionsOver(T) : BareSection(s.name, s.keys) \in BareOver(T)
  BY DEF SectionsOver, BareOver, BareSection
<1>3. \A i \in DOMAIN ini.sections : ini.sections[i] \in SectionsOver(T)
  BY <1>1
<1> DEFINE b == Bare(ini)
<1>4. b = [i \in DOMAIN ini.sections |->
              BareSection(ini.sections[i].name, ini.sections[i].keys)]
  BY DEF Bare, BareSection
<1> HIDE DEF b
<1>5. \A i \in DOMAIN ini.sections : b[i] \in BareOver(T)
  BY <1>2, <1>3, <1>4
<1>6. b = [i \in DOMAIN ini.sections |-> b[i]]
  BY <1>4
<1>7. b \in Seq(BareOver(T)) /\ DOMAIN b = DOMAIN ini.sections /\ Len(b) = Len(ini.sections)
  <2> DEFINE q == ini.sections
             E == SectionsOver(T)
             F == BareOver(T)
  <2>1. q \in Seq(E) /\ b = [i \in DOMAIN q |-> b[i]] /\ \A i \in DOMAIN q : b[i] \in F
    BY <1>1, <1>5, <1>6
  <2> HIDE DEF q, E, F
  <2>2. b \in Seq(F) /\ DOMAIN b = DOMAIN q /\ Len(b) = Len(q)
    BY <2>1, Mapped
  <2> QED BY <2>2 DEF q, F
<1> QED BY <1>1, <1>4, <1>7 DEF b

LEMMA PendingTyped ==
    ASSUME NEW T, NEW ini \in Structures(T)
    PROVE  Pending(ini) \in Seq(T)
<1>1. ini.sections \in Seq(SectionsOver(T)) /\ ini.header_comments \in Seq(T)
  BY DEF Structures
<1>2. ini.sections # <<>> => ini.sections[1] \in SectionsOver(T)
  BY <1>1
<1>3. \A s \in SectionsOver(T) : s.comments_before \in Seq(T)
  BY DEF SectionsOver
<1> QED BY <1>1, <1>2, <1>3 DEF Pending

\* The list of waiting comments is replaced.
LEMMA PendingSet ==
    ASSUME NEW T, NEW ini \in Structures(T), NEW texts \in Seq(T)
    PROVE  LET new == WithPending(ini, texts)
           IN  /\ new \in Structures(T)
               /\ Bare(new) = Bare(ini)
               /\ Pending(new) = texts
<1> DEFINE new == WithPending(ini, texts)
           q == ini.sections
<1>1. q \in Seq(SectionsOver(T))
  BY DEF Structures
<1>2. CASE q = <<>>
  <2>1. new = [ini EXCEPT !.header_comments = texts]
    BY <1>2 DEF WithPending
  <2>2. new \in Structures(T) /\ new.sections = q /\ new.header_comments = texts
    BY <2>1 DEF Structures
  <2> QED BY <1>2, <2>2 DEF Bare, Pending
<1>3. CASE q # <<>>
  <2> DEFINE s == [q[1] EXCEPT !.comments_before = texts]
             p == [q EXCEPT ![1] = s]
  <2>1. q[1] \in SectionsOver(T) /\ 1 \in DOMAIN q
    BY <1>1, <1>3
  <2>2. /\ s \in SectionsOver(T) /\ s.comments_before = texts
        /\ s.name = q[1].name /\ s.keys = q[1].keys
    BY <2>1 DEF SectionsOver
  <2>3. new = [ini EXCEPT !.sections = p]
    BY <1>3 DEF WithPending
  <2> HIDE DEF s
  <2>4. /\ p \in Seq(SectionsOver(T)) /\ DOMAIN p = DOMAIN q /\ p # <<>>
        /\ p[1] = s /\ \A i \in DOMAIN q : i # 1 => p[i] = q[i]
    BY <1>1, <2>1, <2>2
  <2>5. new \in Structures(T) /\ new.sections = p
    BY <2>3, <2>4 DEF Structures
  <2> HIDE DEF new, p
  <2>6. Bare(new) = Bare(ini)
    BY <2>2, <2>4, <2>5 DEF Bare
  <2>7. Pending(new) = texts
    BY <2>2, <2>4, <2>5 DEF Pending
  <2> QED BY <2>5, <2>6, <2>7 DEF new
<1> QED BY <1>2, <1>3

\* A comment waits.
LEMMA CommentRead ==
    ASSUME NEW T, NEW ini \in Structures(T), NEW t \in T
    PROVE  LET new == ReadLine(ini, CommentLine(t))
           IN  /\ new \in Structures(T)
               /\ Bare(new) = Bare(ini)
               /\ Pending(new) = Append(Pending(ini), t)
<1>1. CommentLine(t).kind = "comment" /\ CommentLine(t).text = t
  BY DEF CommentLine
<1>2. ReadLine(ini, CommentLine(t)) = WithPending(ini, Append(Pending(ini), t))
  BY <1>1 DEF ReadLine
<1>3. Append(Pending(ini), t) \in Seq(T)
  <2>1. Pending(ini) \in Seq(T)
    BY PendingTyped
  <2> QED BY <2>1
<1> QED BY <1>2, <1>3, PendingSet

\* A header starts a section, and nothing waits.
LEMMA HeaderRead ==
    ASSUME NEW T, NEW ini \in Structures(T), NEW n \in T
    PROVE  LET new == ReadLine(ini, SectionLine(n))
           IN  /\ new \in Structures(T)
               /\ Bare(new) = <<BareSection(n, <<>>)>> \o Bare(ini)
               /\ Pending(new) = <<>>
<1> DEFINE new == ReadLine(ini, SectionLine(n))
           old == WithPending(ini, <<>>)
           q   == old.sections
           p   == <<NewSection(n)>> \o q
<1>1. SectionLine(n).kind = "section" /\ SectionLine(n).name = n
  BY DEF SectionLine
<1>2. new = CreateSection(old, n)
  BY <1>1 DEF ReadLine
<1>3. old \in Structures(T) /\ Bare(old) = Bare(ini)
  <2>1. <<>> \in Seq(T)
    OBVIOUS
  <2> QED BY <2>1, PendingSet
<1> HIDE DEF old
<1>4. q \in Seq(SectionsOver(T)) /\ NewSection(n) \in SectionsOver(T)
  BY <1>3, NewSectionTyped DEF Structures
<1>5. /\ NewSection(n).name = n /\ NewSection(n).keys = <<>>
      /\ NewSection(n).comments_before = <<>>
  BY DEF NewSection
<1>6. /\ p \in Seq(SectionsOver(T))
      /\ DOMAIN q = 1 .. Len(q) /\ DOMAIN p = 1 .. Len(q) + 1
      /\ p[1] = NewSection(n)
      /\ \A i \in 1 .. Len(q) : p[i + 1] = q[i]
      /\ \A i \in 2 .. Len(q) + 1 : i - 1 \in 1 .. Len(q) /\ p[i] = q[i - 1]
  BY <1>4, Pushed
<1>7. new = [old EXCEPT !.sections = p]
  BY <1>2 DEF CreateSection
<1>8. new \in Structures(T) /\ new.sections = p
  BY <1>3, <1>6, <1>7 DEF Structures
<1>9. Len(q) \in Nat
  BY <1>4
<1> HIDE DEF new, p, q
<1>10. Pending(new) = <<>>
  <2>1. p # <<>>
    BY <1>6, <1>9
  <2> QED BY <1>5, <1>6, <1>8, <2>1 DEF Pending
<1>11. Bare(new) = <<BareSection(n, <<>>)>> \o Bare(old)
  <2> DEFINE B == Bare(old)
             C == <<BareSection(n, <<>>)>> \o B
             E == BareOver(T)
  <2>1. B \in Seq(E) /\ Len(B) = Len(q)
    BY <1>3, BareTyped DEF q
  <2>2. BareSection(n, <<>>) \in E
    <3>1. <<>> \in Seq(KeysOver(T))
      OBVIOUS
    <3> QED BY <3>1 DEF BareSection, BareOver
  <2>3. \A i \in 1 .. Len(q) : B[i] = BareSection(q[i].name, q[i].keys)
    BY <1>6 DEF Bare, BareSection, q
  <2> HIDE DEF B, E
  <2>4. /\ DOMAIN C = 1 .. Len(q) + 1 /\ C \in Seq(E)
        /\ C[1] = BareSection(n, <<>>)
        /\ \A i \in 2 .. Len(q) + 1 : C[i] = B[i - 1]
    BY <2>1, <2>2, Pushed
  <2>5. Bare(new) = [i \in 1 .. Len(q) + 1 |-> BareSection(p[i].name, p[i].keys)]
    BY <1>6, <1>8 DEF Bare, BareSection
  <2>6. C = [i \in 1 .. Len(q) + 1 |-> C[i]]
    BY <2>4
  <2> HIDE DEF C
  <2>7. ASSUME NEW i \in 1 .. Len(q) + 1
        PROVE  C[i] = BareSection(p[i].name, p[i].keys)
    <3>1. CASE i = 1
      BY <1>5, <1>6, <2>4, <3>1
    <3>2. CASE i \in 2 .. Len(q) + 1
      BY <1>6, <2>3, <2>4, <3>2
    <3> QED BY <1>9, <3>1, <3>2
  <2> QED BY <2>5, <2>6, <2>7 DEF C, B
<1> QED BY <1>3, <1>8, <1>10, <1>11 DEF new

\* A key takes what waits, and goes in front of the newest section's keys.
LEMMA KeyRead ==
    ASSUME NEW T, NEW ini \in Structures(T), NEW k \in T, NEW v \in T, NEW note \in T,
           ini.sections # <<>>
    PROVE  LET new == ReadLine(ini, KeyLine(k, v, note))
               e   == [key |-> k, value |-> v, comment |-> note,
                       comments_before |-> Pending(ini)]
               b   == Bare(ini)
           IN  /\ new \in Structures(T)
               /\ 1 \in DOMAIN b
               /\ Bare(new) = [b EXCEPT ![1] = BareSection(b[1].name, <<e>> \o b[1].keys)]
               /\ Pending(new) = <<>>
<1> DEFINE line == KeyLine(k, v, note)
           new  == ReadLine(ini, line)
           e    == [key |-> k, value |-> v, comment |-> note, comments_before |-> Pending(ini)]
           old  == WithPending(ini, <<>>)
           q    == old.sections
           s    == [q[1] EXCEPT !.keys = <<e>> \o @]
           p    == [q EXCEPT ![1] = s]
<1>1. /\ line.kind = "key" /\ line.key = k /\ line.value = v /\ line.note = note
      /\ KeyOf(line, Pending(ini)) = e
  BY DEF KeyLine, KeyOf
<1> HIDE DEF line
<1>2. new = [old EXCEPT !.sections[1].keys = <<e>> \o @]
  BY <1>1 DEF ReadLine
<1>3. old \in Structures(T) /\ Bare(old) = Bare(ini) /\ Pending(old) = <<>>
  <2>1. <<>> \in Seq(T)
    OBVIOUS
  <2> QED BY <2>1, PendingSet
<1> HIDE DEF old
<1>4. /\ q \in Seq(SectionsOver(T)) /\ DOMAIN Bare(ini) = DOMAIN q /\ Len(Bare(ini)) = Len(q)
      /\ \A i \in DOMAIN q : Bare(ini)[i] = BareSection(q[i].name, q[i].keys)
  BY <1>3, BareTyped
<1>5. q # <<>> /\ 1 \in DOMAIN q /\ q[1] \in SectionsOver(T)
  <2>1. /\ ini.sections \in Seq(SectionsOver(T)) /\ DOMAIN Bare(ini) = DOMAIN ini.sections
        /\ Len(Bare(ini)) = Len(ini.sections)
    BY BareTyped
  <2>2. Len(q) # 0
    BY <1>4, <2>1
  <2> QED BY <1>4, <2>2
<1>6. e \in KeysOver(T)
  BY PendingTyped DEF KeysOver
<1>7. q[1].keys \in Seq(KeysOver(T))
  BY <1>5 DEF SectionsOver
<1> HIDE DEF e
<1>8. <<e>> \o q[1].keys \in Seq(KeysOver(T))
  BY <1>6, <1>7
<1>9. /\ s \in SectionsOver(T) /\ s.name = q[1].name /\ s.keys = <<e>> \o q[1].keys
      /\ s.comments_before = q[1].comments_before
  BY <1>5, <1>8 DEF SectionsOver
<1>10. new = [old EXCEPT !.sections = p]
  BY <1>2
<1> HIDE DEF s
<1>11. /\ p \in Seq(SectionsOver(T)) /\ DOMAIN p = DOMAIN q /\ p # <<>>
       /\ p[1] = s /\ \A i \in DOMAIN q : i # 1 => p[i] = q[i]
  BY <1>4, <1>5, <1>9
<1> HIDE DEF p
<1>12. new \in Structures(T) /\ new.sections = p
  BY <1>3, <1>10, <1>11 DEF Structures
<1> HIDE DEF new, q
<1>13. Pending(new) = <<>>
  <2>1. Pending(old) = q[1].comments_before
    BY <1>5 DEF Pending, q
  <2> QED BY <1>3, <1>9, <1>11, <1>12, <2>1 DEF Pending
<1>14. Bare(new) = [Bare(ini) EXCEPT ![1] = BareSection(Bare(ini)[1].name, <<e>> \o Bare(ini)[1].keys)]
  <2> DEFINE b == Bare(ini)
             c == [b EXCEPT ![1] = BareSection(b[1].name, <<e>> \o b[1].keys)]
  <2>1. b[1].name = q[1].name /\ b[1].keys = q[1].keys
    BY <1>4, <1>5 DEF BareSection
  <2>2. b = [i \in DOMAIN q |-> BareSection(q[i].name, q[i].keys)]
    BY <1>3 DEF Bare, BareSection, q
  <2> HIDE DEF b
  <2>3. c = [i \in DOMAIN q |-> IF i = 1 THEN BareSection(q[1].name, <<e>> \o q[1].keys)
                                        ELSE BareSection(q[i].name, q[i].keys)]
    BY <2>1, <2>2
  <2> HIDE DEF c
  <2>4. Bare(new) = [i \in DOMAIN q |-> BareSection(p[i].name, p[i].keys)]
    BY <1>11, <1>12 DEF Bare, BareSection
  <2>5. \A i \in DOMAIN q : BareSection(p[i].name, p[i].keys)
            = IF i = 1 THEN BareSection(q[1].name, <<e>> \o q[1].keys)
                       ELSE BareSection(q[i].name, q[i].keys)
    BY <1>9, <1>11
  <2> QED BY <2>3, <2>4, <2>5 DEF c, b
<1> QED BY <1>4, <1>5, <1>12, <1>13, <1>14 DEF new, e, line

\* A key line before the first header is passed over.
LEMMA KeySkipped ==
    ASSUME NEW ini, NEW k, NEW v, NEW note, ini.sections = <<>>
    PROVE  ReadLine(ini, KeyLine(k, v, note)) = ini
BY DEF ReadLine, KeyLine

\* Whatever the line, a structure comes of it.
LEMMA LineRead ==
    ASSUME NEW T, NEW ini \in Structures(T), NEW line \in LinesOver(T)
    PROVE  ReadLine(ini, line) \in Structures(T)
<1>1. ASSUME NEW t \in T, line = CommentLine(t)
      PROVE  ReadLine(ini, line) \in Structures(T)
  BY <1>1, CommentRead
<1>2. ASSUME NEW n \in T, line = SectionLine(n)
      PROVE  ReadLine(ini, line) \in Structures(T)
  BY <1>2, HeaderRead
<1>3. ASSUME NEW k \in T, NEW v \in T, NEW note \in T, line = KeyLine(k, v, note)
      PROVE  ReadLine(ini, line) \in Structures(T)
  <2>1. CASE ini.sections = <<>>
    BY <1>3, <2>1, KeySkipped
  <2>2. CASE ini.sections # <<>>
    BY <1>3, <2>2, KeyRead
  <2> QED BY <2>1, <2>2
<1>4. CASE line = Junk
  BY <1>4 DEF ReadLine, Junk
<1>5. \/ \E t \in T : line = CommentLine(t)
      \/ \E n \in T : line = SectionLine(n)
      \/ \E k, v, note \in T : line = KeyLine(k, v, note)
      \/ line = Junk
  BY DEF LinesOver, CommentLine, SectionLine, KeyLine
<1> QED BY <1>1, <1>2, <1>3, <1>4, <1>5

-----------------------------------------------------------------------------
(* Where reading a text may get to.                                        *)

\* Every structure that comes about while the lines are read is one of G's.
Within(ini, lines, G) == \A n \in 0 .. Len(lines) : Read(ini, lines, n) \in G

\* Whatever the lines, structures come about.
LEMMA LinesRead ==
    ASSUME NEW T, NEW ini \in Structures(T), NEW lines \in Seq(LinesOver(T))
    PROVE  /\ Within(ini, lines, Structures(T))
           /\ ReadLines(ini, lines) \in Structures(T)
<1> DEFINE L == LinesOver(T)
<1>1. lines \in Seq(L) /\ Len(lines) \in Nat
  OBVIOUS
<1> HIDE DEF L
<1>2. /\ Read(ini, lines, 0) = ini
      /\ \A n \in 1 .. Len(lines) :
            Read(ini, lines, n) = ReadLine(Read(ini, lines, n - 1), lines[n])
      /\ Read(ini, lines, Len(lines)) = ReadLines(ini, lines)
  BY <1>1, ReadNext
<1> DEFINE S == {n \in 0 .. Len(lines) : Read(ini, lines, n) \in Structures(T)}
<1>3. 0 \in S
  BY <1>1, <1>2
<1>4. ASSUME NEW n \in 1 .. Len(lines), n - 1 \in S
      PROVE  n \in S
  <2>1. lines[n] \in LinesOver(T)
    BY <1>1 DEF L
  <2>2. ReadLine(Read(ini, lines, n - 1), lines[n]) \in Structures(T)
    BY <1>4, <2>1, LineRead
  <2> QED BY <1>2, <2>2
<1> HIDE DEF S
<1>5. \A n \in 0 .. Len(lines) : n \in S
  BY <1>1, <1>3, <1>4, UpTo
<1>6. \A n \in 0 .. Len(lines) : Read(ini, lines, n) \in Structures(T)
  BY <1>5 DEF S
<1> QED BY <1>1, <1>2, <1>6 DEF Within

\* No line, one line, and a text after another.
LEMMA WithinNone ==
    ASSUME NEW T, NEW lines \in Seq(T), NEW ini, NEW G, ini \in G
    PROVE  Len(lines) = 0 => Within(ini, lines, G) /\ ReadLines(ini, lines) = ini
<1>1. /\ Read(ini, lines, 0) = ini
      /\ \A n \in 1 .. Len(lines) :
            Read(ini, lines, n) = ReadLine(Read(ini, lines, n - 1), lines[n])
      /\ Read(ini, lines, Len(lines)) = ReadLines(ini, lines)
  BY ReadNext
<1> QED BY <1>1 DEF Within

LEMMA WithinOne ==
    ASSUME NEW T, NEW line \in T, NEW ini, NEW G, ini \in G, ReadLine(ini, line) \in G
    PROVE  /\ Within(ini, <<line>>, G)
           /\ ReadLines(ini, <<line>>) = ReadLine(ini, line)
<1> DEFINE lines == <<line>>
<1>1. lines \in Seq(T) /\ Len(lines) = 1 /\ lines[1] = line
  OBVIOUS
<1> HIDE DEF lines
<1>2. /\ Read(ini, lines, 0) = ini
      /\ \A n \in 1 .. Len(lines) :
            Read(ini, lines, n) = ReadLine(Read(ini, lines, n - 1), lines[n])
      /\ Read(ini, lines, Len(lines)) = ReadLines(ini, lines)
  BY <1>1, ReadNext
<1>3. Read(ini, lines, 1) = ReadLine(ini, line)
  BY <1>1, <1>2
<1> QED BY <1>1, <1>2, <1>3 DEF Within, lines

LEMMA WithinConcat ==
    ASSUME NEW T, NEW a \in Seq(T), NEW b \in Seq(T), NEW ini, NEW G,
           Within(ini, a, G), Within(ReadLines(ini, a), b, G)
    PROVE  /\ Within(ini, a \o b, G)
           /\ ReadLines(ini, a \o b) = ReadLines(ReadLines(ini, a), b)
<1> DEFINE c == a \o b
<1>1. /\ \A n \in 0 .. Len(a) : Read(ini, c, n) = Read(ini, a, n)
      /\ \A n \in 0 .. Len(b) : Read(ini, c, Len(a) + n) = Read(ReadLines(ini, a), b, n)
      /\ ReadLines(ini, c) = ReadLines(ReadLines(ini, a), b)
  BY ReadConcat
<1>2. Len(c) = Len(a) + Len(b) /\ Len(a) \in Nat /\ Len(b) \in Nat
  OBVIOUS
<1> HIDE DEF c
<1>3. ASSUME NEW n \in 0 .. Len(c)
      PROVE  Read(ini, c, n) \in G
  <2>1. CASE n <= Len(a)
    BY <1>1, <1>2, <2>1 DEF Within
  <2>2. CASE ~(n <= Len(a))
    <3>1. n - Len(a) \in 0 .. Len(b) /\ Len(a) + (n - Len(a)) = n
      BY <1>2, <2>2
    <3> QED BY <1>1, <3>1 DEF Within
  <2> QED BY <2>1, <2>2
<1> QED BY <1>1, <1>3 DEF Within, c

\* Texts one after the other, where the i-th leads from C[i - 1] to C[i].
LEMMA WithinJoined ==
    ASSUME NEW T, NEW ss \in Seq(Seq(T)), NEW ini, NEW C, NEW G, ini \in C[0], ini \in G,
           \A i \in 1 .. Len(ss) : \A r \in C[i - 1] :
              Within(r, ss[i], G) /\ ReadLines(r, ss[i]) \in C[i]
    PROVE  /\ FlattenSeq(ss) \in Seq(T)
           /\ Within(ini, FlattenSeq(ss), G)
           /\ ReadLines(ini, FlattenSeq(ss)) \in C[Len(ss)]
<1> DEFINE J(i) == Joined(ss, i)
           S == {i \in 0 .. Len(ss) : Within(ini, J(i), G) /\ ReadLines(ini, J(i)) \in C[i]}
<1>1. /\ J(0) = <<>>
      /\ \A i \in 1 .. Len(ss) : J(i) = J(i - 1) \o ss[i]
      /\ \A i \in 0 .. Len(ss) : J(i) \in Seq(T)
      /\ J(Len(ss)) = FlattenSeq(ss)
  BY JoinNext
<1>2. Len(ss) \in Nat /\ \A i \in 1 .. Len(ss) : ss[i] \in Seq(T)
  OBVIOUS
<1> HIDE DEF J
<1>3. 0 \in S
  <2> DEFINE none == J(0)
  <2>1. none \in Seq(T) /\ Len(none) = 0
    BY <1>1, <1>2
  <2> HIDE DEF none
  <2>2. Within(ini, none, G) /\ ReadLines(ini, none) = ini
    BY <2>1, WithinNone
  <2>3. Within(ini, none, G) /\ ReadLines(ini, none) \in C[0]
    BY <2>2
  <2> QED BY <1>2, <2>3 DEF none
<1>4. ASSUME NEW i \in 1 .. Len(ss), i - 1 \in S
      PROVE  i \in S
  <2> DEFINE a == J(i - 1)
             b == ss[i]
             r == ReadLines(ini, a)
  <2>1. a \in Seq(T) /\ b \in Seq(T)
    <3>1. i - 1 \in 0 .. Len(ss)
      BY <1>2
    <3> QED BY <1>1, <1>2, <3>1
  <2>2. Within(ini, a, G) /\ r \in C[i - 1]
    BY <1>4
  <2>3. Within(r, b, G) /\ ReadLines(r, b) \in C[i]
    BY <2>2
  <2>4. J(i) = a \o b
    BY <1>1
  <2> HIDE DEF a, b
  <2>5. Within(ini, a \o b, G) /\ ReadLines(ini, a \o b) = ReadLines(r, b)
    BY <2>1, <2>2, <2>3, WithinConcat
  <2>6. Within(ini, J(i), G) /\ ReadLines(ini, J(i)) \in C[i]
    BY <2>3, <2>4, <2>5
  <2>7. i \in 0 .. Len(ss)
    BY <1>2
  <2> QED BY <2>6, <2>7
<1> HIDE DEF S
<1>5. \A i \in 0 .. Len(ss) : i \in S
  BY <1>2, <1>3, <1>4, UpTo
<1>6. Len(ss) \in S
  BY <1>2, <1>5
<1>7. FlattenSeq(ss) \in Seq(T)
  BY <1>1, <1>2
<1> QED BY <1>1, <1>6, <1>7 DEF S

-----------------------------------------------------------------------------
(* What ini_save prints, read back.                                        *)

\* The lines it prints are lines.
LEMMA LinesTyped ==
    ASSUME NEW T
    PROVE  /\ \A t \in T : CommentLine(t) \in LinesOver(T) /\ SectionLine(t) \in LinesOver(T)
           /\ \A k, v, note \in T : KeyLine(k, v, note) \in LinesOver(T)
BY DEF CommentLine, SectionLine, KeyLine, LinesOver

LEMMA CommentsTyped ==
    ASSUME NEW T, NEW texts \in Seq(T)
    PROVE  /\ Comments(texts) \in Seq(LinesOver(T))
           /\ Len(Comments(texts)) = Len(texts)
           /\ \A i \in 1 .. Len(texts) : Comments(texts)[i] = CommentLine(texts[i])
<1> DEFINE c == Comments(texts)
           L == LinesOver(T)
<1>1. c = [i \in DOMAIN texts |-> CommentLine(texts[i])]
  BY DEF Comments
<1>2. \A t \in T : CommentLine(t) \in L
  BY LinesTyped
<1> HIDE DEF c, L
<1>3. c = [i \in DOMAIN texts |-> c[i]] /\ \A i \in DOMAIN texts : c[i] \in L
  BY <1>1, <1>2
<1>4. c \in Seq(L) /\ Len(c) = Len(texts)
  BY <1>3, Mapped
<1>5. DOMAIN texts = 1 .. Len(texts)
  OBVIOUS
<1> QED BY <1>1, <1>4, <1>5 DEF c, L

\* The comments of an entry wait for it; no comments change what ini_get sees.
LEMMA CommentsRead ==
    ASSUME NEW T, NEW ini \in Structures(T), NEW texts \in Seq(T)
    PROVE  LET new == ReadLines(ini, Comments(texts))
           IN  /\ Within(ini, Comments(texts), {r \in Structures(T) : Bare(r) = Bare(ini)})
               /\ new \in Structures(T) /\ Bare(new) = Bare(ini)
               /\ Pending(ini) = <<>> => Pending(new) = texts
<1> DEFINE lines == Comments(texts)
           L == LinesOver(T)
           G == {r \in Structures(T) : Bare(r) = Bare(ini)}
           R(n) == Read(ini, lines, n)
           S == {n \in 0 .. Len(texts) :
                   R(n) \in G /\ (Pending(ini) = <<>> => Pending(R(n)) = SubSeq(texts, 1, n))}
<1>1. /\ lines \in Seq(L) /\ Len(lines) = Len(texts) /\ Len(texts) \in Nat
      /\ \A i \in 1 .. Len(texts) : lines[i] = CommentLine(texts[i]) /\ texts[i] \in T
  <2>1. Len(texts) \in Nat /\ \A i \in 1 .. Len(texts) : texts[i] \in T
    OBVIOUS
  <2> QED BY <2>1, CommentsTyped
<1> HIDE DEF lines, L
<1>2. /\ R(0) = ini
      /\ \A n \in 1 .. Len(lines) : R(n) = ReadLine(R(n - 1), lines[n])
      /\ R(Len(lines)) = ReadLines(ini, lines)
  BY <1>1, ReadNext
<1> HIDE DEF R
<1>3. 0 \in S
  <2>1. SubSeq(texts, 1, 0) = <<>> /\ 0 \in 0 .. Len(texts)
    BY <1>1
  <2> QED BY <1>2, <2>1
<1>4. ASSUME NEW n \in 1 .. Len(texts), n - 1 \in S
      PROVE  n \in S
  <2> DEFINE r == R(n - 1)
             t == texts[n]
  <2>1. R(n) = ReadLine(r, CommentLine(t)) /\ t \in T
    BY <1>1, <1>2
  <2>2. r \in Structures(T) /\ Bare(r) = Bare(ini)
    BY <1>4
  <2>3. /\ R(n) \in Structures(T) /\ Bare(R(n)) = Bare(r)
        /\ Pending(R(n)) = Append(Pending(r), t)
    BY <2>1, <2>2, CommentRead
  <2>4. Append(SubSeq(texts, 1, n - 1), t) = SubSeq(texts, 1, n)
    OBVIOUS
  <2> QED BY <1>4, <2>2, <2>3, <2>4, SMTT(30)
<1> HIDE DEF S
<1>5. \A n \in 0 .. Len(texts) : n \in S
  BY <1>1, <1>3, <1>4, UpTo
<1>6. SubSeq(texts, 1, Len(texts)) = texts
  OBVIOUS
<1>7. \A n \in 0 .. Len(texts) : R(n) \in G
  BY <1>5 DEF S
<1>8. Len(texts) \in S
  BY <1>1, <1>5
<1>9. ReadLines(ini, lines) \in G /\ (Pending(ini) = <<>> => Pending(ReadLines(ini, lines)) = texts)
  BY <1>1, <1>2, <1>6, <1>8 DEF S
<1> QED BY <1>1, <1>7, <1>9 DEF Within, R, lines

-----------------------------------------------------------------------------
(* Part of a structure: its first i sections, the i-th with its first j    *)
(* keys, as reading turns them around: the newest first.                   *)

Newest(s, n) == [a \in 1 .. n |-> s[n + 1 - a]]

KeyCount(ini, i) == IF i = 0 THEN 0 ELSE Len(ini.sections[i].keys)

PartOf(ini, i, j) ==
    [a \in 1 .. i |->
        LET s == ini.sections[i + 1 - a]
        IN  BareSection(s.name, Newest(s.keys, IF a = 1 THEN j ELSE Len(s.keys)))]

LEMMA NewestNext ==
    ASSUME NEW E, NEW s \in Seq(E)
    PROVE  /\ Newest(s, 0) = <<>>
           /\ \A n \in 0 .. Len(s) : Newest(s, n) \in Seq(E)
           /\ \A n \in 1 .. Len(s) : <<s[n]>> \o Newest(s, n - 1) = Newest(s, n)
<1>1. Len(s) \in Nat /\ \A i \in 1 .. Len(s) : s[i] \in E
  OBVIOUS
<1>2. Newest(s, 0) = <<>>
  BY DEF Newest
<1>3. ASSUME NEW n \in 0 .. Len(s)
      PROVE  Newest(s, n) \in Seq(E) /\ Len(Newest(s, n)) = n
  <2>1. \A a \in 1 .. n : s[n + 1 - a] \in E
    <3>1. \A a \in 1 .. n : n + 1 - a \in 1 .. Len(s)
      BY <1>1
    <3> QED BY <1>1, <3>1
  <2> QED BY <1>1, <2>1 DEF Newest
<1>4. ASSUME NEW n \in 1 .. Len(s)
      PROVE  <<s[n]>> \o Newest(s, n - 1) = Newest(s, n)
  <2> DEFINE q == Newest(s, n - 1)
             p == <<s[n]>> \o q
  <2>1. /\ q \in Seq(E) /\ Len(q) = n - 1
        /\ \A a \in 1 .. n - 1 : q[a] = s[(n - 1) + 1 - a]
    <3>1. n - 1 \in 0 .. Len(s)
      BY <1>1
    <3> QED BY <1>3, <3>1 DEF Newest
  <2> HIDE DEF q
  <2>2. /\ p \in Seq(E)
        /\ DOMAIN q = 1 .. Len(q) /\ DOMAIN p = 1 .. Len(q) + 1
        /\ p[1] = s[n]
        /\ \A i \in 1 .. Len(q) : p[i + 1] = q[i]
        /\ \A i \in 2 .. Len(q) + 1 : i - 1 \in 1 .. Len(q) /\ p[i] = q[i - 1]
    BY <1>1, <2>1, Pushed
  <2> HIDE DEF p
  <2>3. DOMAIN p = 1 .. n
    BY <1>1, <2>1, <2>2
  <2>4. ASSUME NEW a \in 1 .. n
        PROVE  p[a] = s[n + 1 - a]
    <3>1. CASE a = 1
      BY <1>1, <2>2, <3>1
    <3>2. CASE a \in 2 .. n
      <4>1. p[a] = q[a - 1] /\ a - 1 \in 1 .. n - 1
        BY <1>1, <2>1, <2>2, <3>2
      <4>2. (n - 1) + 1 - (a - 1) = n + 1 - a
        OBVIOUS
      <4> QED BY <2>1, <4>1, <4>2
    <3> QED BY <3>1, <3>2
  <2>5. p = [a \in 1 .. n |-> p[a]]
    BY <2>2, <2>3
  <2> QED BY <2>4, <2>5 DEF Newest, p, q
<1> QED BY <1>2, <1>3, <1>4

\* The parts grow by a header ...
LEMMA PartHeader ==
    ASSUME NEW T, NEW ini \in Structures(T), NEW i \in 1 .. Len(ini.sections)
    PROVE  <<BareSection(ini.sections[i].name, <<>>)>> \o PartOf(ini, i - 1, KeyCount(ini, i - 1))
             = PartOf(ini, i, 0)
<1> DEFINE q == ini.sections
           head == BareSection(q[i].name, <<>>)
           old == PartOf(ini, i - 1, KeyCount(ini, i - 1))
           p == <<head>> \o old
           B(s) == BareSection(s.name, Newest(s.keys, Len(s.keys)))
<1>1. /\ q \in Seq(SectionsOver(T)) /\ Len(q) \in Nat /\ i \in 1 .. Len(q)
      /\ \A x \in 1 .. Len(q) : q[x] \in SectionsOver(T)
  BY DEF Structures
<1>2. \A s \in SectionsOver(T) :
         /\ B(s) \in BareOver(T)
         /\ Newest(s.keys, 0) = <<>>
         /\ BareSection(s.name, <<>>) \in BareOver(T)
  <2> TAKE s \in SectionsOver(T)
  <2>1. s.keys \in Seq(KeysOver(T)) /\ s.name \in T
    BY DEF SectionsOver
  <2>2. Newest(s.keys, Len(s.keys)) \in Seq(KeysOver(T)) /\ Newest(s.keys, 0) = <<>>
    <3>1. Len(s.keys) \in Nat
      BY <2>1
    <3>2. Len(s.keys) \in 0 .. Len(s.keys)
      BY <3>1
    <3> QED BY <2>1, <3>2, NewestNext
  <2>3. <<>> \in Seq(KeysOver(T))
    OBVIOUS
  <2> QED BY <2>1, <2>2, <2>3 DEF BareSection, BareOver
<1>3. old = [a \in 1 .. i - 1 |-> B(q[i - a])]
  <2>1. ASSUME NEW a \in 1 .. i - 1
        PROVE  LET s == q[(i - 1) + 1 - a]
               IN  BareSection(s.name, Newest(s.keys, IF a = 1 THEN KeyCount(ini, i - 1)
                                                               ELSE Len(s.keys)))
                     = B(q[i - a])
    <3>1. (i - 1) + 1 - a = i - a
      BY <1>1
    <3>2. a = 1 => KeyCount(ini, i - 1) = Len(q[i - a].keys)
      BY <1>1 DEF KeyCount
    <3> QED BY <3>1, <3>2
  <2> QED BY <2>1 DEF PartOf
<1>4. PartOf(ini, i, 0) = [a \in 1 .. i |-> IF a = 1 THEN head ELSE B(q[i + 1 - a])]
  <2>1. ASSUME NEW a \in 1 .. i
        PROVE  LET s == q[i + 1 - a]
               IN  BareSection(s.name, Newest(s.keys, IF a = 1 THEN 0 ELSE Len(s.keys)))
                     = IF a = 1 THEN head ELSE B(q[i + 1 - a])
    <3>1. a = 1 => i + 1 - a = i
      BY <1>1
    <3> QED BY <1>1, <1>2, <3>1
  <2> QED BY <2>1 DEF PartOf
<1> HIDE DEF B, q
<1>5. \A a \in 1 .. i - 1 : B(q[i - a]) \in BareOver(T)
  <2>1. \A a \in 1 .. i - 1 : i - a \in 1 .. Len(q)
    BY <1>1
  <2> QED BY <1>1, <1>2, <2>1
<1>6. head \in BareOver(T)
  BY <1>1, <1>2
<1> HIDE DEF head, old
<1> DEFINE E == BareOver(T)
<1>7. old \in Seq(E) /\ Len(old) = i - 1 /\ head \in E
  BY <1>1, <1>3, <1>5, <1>6
<1> HIDE DEF E
<1>8. /\ p \in Seq(E)
      /\ DOMAIN old = 1 .. Len(old) /\ DOMAIN p = 1 .. Len(old) + 1
      /\ p[1] = head
      /\ \A x \in 1 .. Len(old) : p[x + 1] = old[x]
      /\ \A x \in 2 .. Len(old) + 1 : x - 1 \in 1 .. Len(old) /\ p[x] = old[x - 1]
  BY <1>7, Pushed
<1> HIDE DEF p
<1>9. ASSUME NEW a \in 1 .. i
      PROVE  p[a] = IF a = 1 THEN head ELSE B(q[i + 1 - a])
  <2>1. CASE a = 1
    BY <1>8, <2>1
  <2>2. CASE a \in 2 .. i
    <3>1. p[a] = old[a - 1] /\ a - 1 \in 1 .. i - 1
      BY <1>1, <1>7, <1>8, <2>2
    <3>2. i - (a - 1) = i + 1 - a
      OBVIOUS
    <3> QED BY <1>3, <2>2, <3>1, <3>2
  <2> QED BY <2>1, <2>2
<1>10. p = [a \in 1 .. i |-> p[a]]
  BY <1>1, <1>7, <1>8
<1> QED BY <1>4, <1>9, <1>10 DEF p, head, old, q

\* ... and by a key.
LEMMA PartKey ==
    ASSUME NEW T, NEW ini \in Structures(T), NEW i \in 1 .. Len(ini.sections),
           NEW j \in 1 .. Len(ini.sections[i].keys)
    PROVE  LET b == PartOf(ini, i, j - 1)
               s == ini.sections[i]
           IN  /\ b[1] = BareSection(s.name, Newest(s.keys, j - 1))
               /\ [b EXCEPT ![1] = BareSection(b[1].name, <<s.keys[j]>> \o b[1].keys)]
                     = PartOf(ini, i, j)
<1> DEFINE q == ini.sections
           s == q[i]
           b == PartOf(ini, i, j - 1)
           c == BareSection(b[1].name, <<s.keys[j]>> \o b[1].keys)
<1>1. q \in Seq(SectionsOver(T)) /\ Len(q) \in Nat /\ s \in SectionsOver(T)
  BY DEF Structures
<1>2. s.keys \in Seq(KeysOver(T))
  BY <1>1 DEF SectionsOver
<1>3. b[1] = BareSection(s.name, Newest(s.keys, j - 1))
  <2>1. i + 1 - 1 = i /\ 1 \in 1 .. i
    BY <1>1
  <2> QED BY <2>1 DEF PartOf
<1>4. <<s.keys[j]>> \o Newest(s.keys, j - 1) = Newest(s.keys, j)
  BY <1>2, NewestNext
<1>5. c = BareSection(s.name, Newest(s.keys, j))
  <2>1. \A x, n, ks : x = BareSection(n, ks) => x.name = n /\ x.keys = ks
    BY DEF BareSection
  <2> HIDE DEF b
  <2>2. b[1].name = s.name /\ b[1].keys = Newest(s.keys, j - 1)
    BY <1>3, <2>1
  <2> QED BY <1>4, <2>2
<1> HIDE DEF c
<1>6. ASSUME NEW a \in 1 .. i, a # 1
      PROVE  b[a] = PartOf(ini, i, j)[a]
  BY <1>6 DEF PartOf
<1>7. PartOf(ini, i, j)[1] = c
  <2>1. i + 1 - 1 = i /\ 1 \in 1 .. i
    BY <1>1
  <2> QED BY <1>5, <2>1 DEF PartOf
<1>8. DOMAIN b = 1 .. i /\ b = [a \in 1 .. i |-> b[a]]
  BY DEF PartOf
<1>9. PartOf(ini, i, j) = [a \in 1 .. i |-> PartOf(ini, i, j)[a]]
  BY DEF PartOf
<1> HIDE DEF b
<1>10. [b EXCEPT ![1] = c] = PartOf(ini, i, j)
  BY <1>6, <1>7, <1>8, <1>9
<1> QED BY <1>3, <1>10 DEF b, c

-----------------------------------------------------------------------------
(* The text of a structure leads from part to part of it.                  *)

\* The structures that hold a part of ini, and those from which the next key or
\* section can be read.
Parts(T, ini) ==
    {r \in Structures(T) :
        \E i \in 0 .. Len(ini.sections) : \E j \in 0 .. KeyCount(ini, i) :
            Bare(r) = PartOf(ini, i, j)}

At(T, ini, i, j) == {r \in Structures(T) : Bare(r) = PartOf(ini, i, j)}

Ready(T, ini, i, j) == {r \in At(T, ini, i, j) : Pending(r) = <<>>}

LEMMA AtIsPart ==
    ASSUME NEW T, NEW ini, NEW i \in 0 .. Len(ini.sections), NEW j \in 0 .. KeyCount(ini, i)
    PROVE  At(T, ini, i, j) \subseteq Parts(T, ini)
BY DEF At, Parts

\* The counts are numbers, and the keys are keys.
LEMMA Counted ==
    ASSUME NEW T, NEW ini \in Structures(T)
    PROVE  /\ ini.sections \in Seq(SectionsOver(T)) /\ Len(ini.sections) \in Nat
           /\ \A i \in 0 .. Len(ini.sections) : KeyCount(ini, i) \in Nat
           /\ \A i \in 1 .. Len(ini.sections) :
                 /\ ini.sections[i] \in SectionsOver(T)
                 /\ ini.sections[i].name \in T
                 /\ ini.sections[i].comments_before \in Seq(T)
                 /\ ini.sections[i].keys \in Seq(KeysOver(T))
                 /\ KeyCount(ini, i) = Len(ini.sections[i].keys)
                 /\ \A j \in 1 .. KeyCount(ini, i) : ini.sections[i].keys[j] \in KeysOver(T)
<1>1. ini.sections \in Seq(SectionsOver(T)) /\ Len(ini.sections) \in Nat
  BY DEF Structures
<1>2. \A s \in SectionsOver(T) :
         s.name \in T /\ s.comments_before \in Seq(T) /\ s.keys \in Seq(KeysOver(T))
  BY DEF SectionsOver
<1>3. \A i \in 1 .. Len(ini.sections) : ini.sections[i] \in SectionsOver(T)
  BY <1>1
<1>4. ASSUME NEW i \in 1 .. Len(ini.sections)
      PROVE  /\ KeyCount(ini, i) = Len(ini.sections[i].keys) /\ KeyCount(ini, i) \in Nat
             /\ \A j \in 1 .. KeyCount(ini, i) : ini.sections[i].keys[j] \in KeysOver(T)
  <2>1. ini.sections[i].keys \in Seq(KeysOver(T))
    BY <1>2, <1>3
  <2>2. KeyCount(ini, i) = Len(ini.sections[i].keys)
    BY DEF KeyCount
  <2> QED BY <2>1, <2>2
<1>5. \A i \in 0 .. Len(ini.sections) : KeyCount(ini, i) \in Nat
  <2>1. KeyCount(ini, 0) \in Nat
    BY DEF KeyCount
  <2>2. \A i \in 0 .. Len(ini.sections) : i = 0 \/ i \in 1 .. Len(ini.sections)
    BY <1>1
  <2> QED BY <1>4, <2>1, <2>2
<1> QED BY <1>1, <1>2, <1>3, <1>4, <1>5

LEMMA KeyTextRead ==
    ASSUME NEW T, NEW ini \in Structures(T), NEW i \in 1 .. Len(ini.sections),
           NEW j \in 1 .. KeyCount(ini, i), NEW r \in Ready(T, ini, i, j - 1)
    PROVE  LET text == KeyText(ini.sections[i].keys[j])
           IN  /\ text \in Seq(LinesOver(T))
               /\ Within(r, text, Parts(T, ini))
               /\ ReadLines(r, text) \in Ready(T, ini, i, j)
<1> DEFINE e    == ini.sections[i].keys[j]
           line == KeyLine(e.key, e.value, e.comment)
           cs   == Comments(e.comments_before)
           r1   == ReadLines(r, cs)
           r2   == ReadLine(r1, line)
           L    == LinesOver(T)
           G    == Parts(T, ini)
           b    == PartOf(ini, i, j - 1)
<1>1. e \in KeysOver(T) /\ KeyCount(ini, i) = Len(ini.sections[i].keys) /\ KeyCount(ini, i) \in Nat
  BY Counted
<1>2. /\ e.key \in T /\ e.value \in T /\ e.comment \in T /\ e.comments_before \in Seq(T)
      /\ e = [key |-> e.key, value |-> e.value, comment |-> e.comment,
              comments_before |-> e.comments_before]
  BY <1>1 DEF KeysOver
<1> HIDE DEF e
<1>3. line \in L /\ cs \in Seq(L)
  BY <1>2, LinesTyped, CommentsTyped
<1>4. r \in Structures(T) /\ Bare(r) = b /\ Pending(r) = <<>>
  BY DEF Ready, At
<1>5. /\ i \in 0 .. Len(ini.sections) /\ j \in 0 .. KeyCount(ini, i)
      /\ j - 1 \in 0 .. KeyCount(ini, i)
  BY <1>1
<1>6. At(T, ini, i, j - 1) \subseteq G /\ At(T, ini, i, j) \subseteq G
  BY <1>5, AtIsPart
<1>7. /\ Within(r, cs, {x \in Structures(T) : Bare(x) = Bare(r)})
      /\ r1 \in Structures(T) /\ Bare(r1) = Bare(r)
      /\ Pending(r) = <<>> => Pending(r1) = e.comments_before
  BY <1>2, <1>4, CommentsRead
<1> HIDE DEF r1, cs, line, L, G
<1>8. Within(r, cs, G) /\ r1 \in G
  <2>1. {x \in Structures(T) : Bare(x) = Bare(r)} \subseteq G
    BY <1>4, <1>6 DEF At
  <2> QED BY <1>7, <2>1 DEF Within
<1>9. r2 \in Ready(T, ini, i, j)
  <2>1. r1.sections # <<>>
    <3>1. DOMAIN Bare(r1) = DOMAIN r1.sections
      BY <1>7, BareTyped
    <3>2. 1 \in DOMAIN b
      BY DEF PartOf
    <3>3. 1 \in DOMAIN r1.sections
      BY <1>4, <1>7, <3>1, <3>2
    <3> QED BY <3>3
  <2> DEFINE new == [key |-> e.key, value |-> e.value, comment |-> e.comment,
                     comments_before |-> Pending(r1)]
             c == Bare(r1)
  <2>2. /\ r2 \in Structures(T)
        /\ 1 \in DOMAIN c
        /\ Bare(r2) = [c EXCEPT ![1] = BareSection(c[1].name, <<new>> \o c[1].keys)]
        /\ Pending(r2) = <<>>
    BY <1>2, <1>7, <2>1, KeyRead DEF line
  <2>3. new = e /\ c = b
    BY <1>2, <1>4, <1>7
  <2>4. [b EXCEPT ![1] = BareSection(b[1].name, <<e>> \o b[1].keys)] = PartOf(ini, i, j)
    BY <1>1, PartKey DEF e
  <2> HIDE DEF r2, new, c, b
  <2>5. Bare(r2) = PartOf(ini, i, j)
    BY <2>2, <2>3, <2>4
  <2> QED BY <2>2, <2>5 DEF Ready, At
<1>10. r2 \in G
  BY <1>6, <1>9 DEF Ready
<1>11. Within(r1, <<line>>, G) /\ ReadLines(r1, <<line>>) = r2
  BY <1>3, <1>8, <1>10, WithinOne
<1> HIDE DEF r2
<1> DEFINE one == <<line>>
<1>12. one \in Seq(L)
  BY <1>3
<1>13. Append(cs, line) = cs \o one /\ cs \o one \in Seq(L)
  BY <1>3
<1> HIDE DEF one
<1>14. Within(r, cs \o one, G) /\ ReadLines(r, cs \o one) = ReadLines(r1, one)
  BY <1>3, <1>8, <1>11, <1>12, WithinConcat DEF r1, one
<1>15. KeyText(e) = cs \o one
  BY <1>13 DEF KeyText, cs, line
<1> QED BY <1>9, <1>11, <1>13, <1>14, <1>15 DEF e, L, G, one

\* The texts of a section's keys.
KeyTexts(s) == [j \in DOMAIN s.keys |-> KeyText(s.keys[j])]

LEMMA KeyTextTyped ==
    ASSUME NEW T, NEW e \in KeysOver(T)
    PROVE  KeyText(e) \in Seq(LinesOver(T))
<1>1. e.key \in T /\ e.value \in T /\ e.comment \in T /\ e.comments_before \in Seq(T)
  BY DEF KeysOver
<1>2. /\ KeyLine(e.key, e.value, e.comment) \in LinesOver(T)
      /\ Comments(e.comments_before) \in Seq(LinesOver(T))
  BY <1>1, LinesTyped, CommentsTyped
<1> QED BY <1>2 DEF KeyText

LEMMA KeyTextsRead ==
    ASSUME NEW T, NEW ini \in Structures(T), NEW i \in 1 .. Len(ini.sections),
           NEW r \in Ready(T, ini, i, 0)
    PROVE  LET text == FlattenSeq(KeyTexts(ini.sections[i]))
           IN  /\ text \in Seq(LinesOver(T))
               /\ Within(r, text, Parts(T, ini))
               /\ ReadLines(r, text) \in Ready(T, ini, i, KeyCount(ini, i))
<1> DEFINE n  == KeyCount(ini, i)
           ks == ini.sections[i].keys
           ss == KeyTexts(ini.sections[i])
           L  == LinesOver(T)
           G  == Parts(T, ini)
           C  == [j \in 0 .. n |-> Ready(T, ini, i, j)]
<1>1. /\ n \in Nat /\ n = Len(ks) /\ ks \in Seq(KeysOver(T))
      /\ \A j \in 1 .. n : ks[j] \in KeysOver(T)
  BY Counted
<1>2. /\ ss = [j \in DOMAIN ks |-> ss[j]] /\ DOMAIN ks = 1 .. n
      /\ \A j \in 1 .. n : ss[j] = KeyText(ks[j])
  BY <1>1 DEF KeyTexts
<1>3. \A j \in 1 .. n : KeyText(ks[j]) \in Seq(L)
  BY <1>1, KeyTextTyped
<1>4. \A j \in 1 .. n : \A x \in Ready(T, ini, i, j - 1) :
          Within(x, KeyText(ks[j]), G) /\ ReadLines(x, KeyText(ks[j])) \in Ready(T, ini, i, j)
  BY KeyTextRead
<1>5. r \in G
  <2>1. i \in 0 .. Len(ini.sections) /\ 0 \in 0 .. n
    BY <1>1
  <2>2. At(T, ini, i, 0) \subseteq G
    BY <2>1, AtIsPart
  <2> QED BY <2>2 DEF Ready
<1> HIDE DEF n, ss, L, G
<1>6. \A j \in DOMAIN ks : ss[j] \in Seq(L)
  BY <1>2, <1>3
<1>7. ss \in Seq(Seq(L)) /\ Len(ss) = n
  <2> DEFINE q == ks
             E == KeysOver(T)
             F == Seq(L)
  <2>1. q \in Seq(E) /\ ss = [j \in DOMAIN q |-> ss[j]] /\ \A j \in DOMAIN q : ss[j] \in F
    BY <1>1, <1>2, <1>6
  <2> HIDE DEF q, E, F
  <2>2. ss \in Seq(F) /\ DOMAIN ss = DOMAIN q /\ Len(ss) = Len(q)
    BY <2>1, Mapped
  <2> QED BY <1>1, <2>2 DEF F, q
<1>8. /\ r \in C[0]
      /\ \A j \in 1 .. n : \A x \in C[j - 1] :
            Within(x, ss[j], G) /\ ReadLines(x, ss[j]) \in C[j]
  <2>1. \A j \in 1 .. n : C[j - 1] = Ready(T, ini, i, j - 1) /\ C[j] = Ready(T, ini, i, j)
    BY <1>1
  <2>2. C[0] = Ready(T, ini, i, 0)
    BY <1>1
  <2> HIDE DEF C
  <2> QED BY <1>2, <1>4, <2>1, <2>2
<1>9. C[n] = Ready(T, ini, i, n)
  BY <1>1
<1> HIDE DEF C
<1>10. /\ FlattenSeq(ss) \in Seq(L)
       /\ Within(r, FlattenSeq(ss), G)
       /\ ReadLines(r, FlattenSeq(ss)) \in C[Len(ss)]
  <2>1. \A j \in 1 .. Len(ss) : \A x \in C[j - 1] :
            Within(x, ss[j], G) /\ ReadLines(x, ss[j]) \in C[j]
    BY <1>7, <1>8
  <2> QED BY <1>5, <1>7, <1>8, <2>1, WithinJoined
<1> QED BY <1>7, <1>9, <1>10 DEF ss, L, G, n

\* The empty line after a section is a comment.
LEMMA BlankIsComment ==
    ASSUME NEW T, HasEmpty(T)
    PROVE  \E t \in T : Blank = CommentLine(t)
BY Zenon DEF Blank, HasEmpty

LEMMA SectionTextRead ==
    ASSUME NEW T, HasEmpty(T), NEW ini \in Structures(T), NEW i \in 1 .. Len(ini.sections),
           NEW r \in At(T, ini, i - 1, KeyCount(ini, i - 1))
    PROVE  LET text == SectionText(ini.sections[i])
           IN  /\ text \in Seq(LinesOver(T))
               /\ Within(r, text, Parts(T, ini))
               /\ ReadLines(r, text) \in At(T, ini, i, KeyCount(ini, i))
<1> DEFINE s  == ini.sections[i]
           n  == KeyCount(ini, i)
           head == SectionLine(s.name)
           A  == Comments(s.comments_before)
           B  == <<head>>
           C  == FlattenSeq(KeyTexts(s))
           D  == <<Blank>>
           r1 == ReadLines(r, A)
           r2 == ReadLine(r1, head)
           r3 == ReadLines(r2, C)
           r4 == ReadLine(r3, Blank)
           L  == LinesOver(T)
           G  == Parts(T, ini)
<1>1. /\ s.name \in T /\ s.comments_before \in Seq(T)
      /\ Len(ini.sections) \in Nat /\ n \in Nat /\ KeyCount(ini, i - 1) \in Nat
  <2>1. Len(ini.sections) \in Nat
    BY Counted
  <2>2. i - 1 \in 0 .. Len(ini.sections) /\ i \in 0 .. Len(ini.sections)
    BY <2>1
  <2> QED BY <2>1, <2>2, Counted
<1> HIDE DEF s
<1>2. /\ i - 1 \in 0 .. Len(ini.sections) /\ i \in 0 .. Len(ini.sections)
      /\ KeyCount(ini, i - 1) \in 0 .. KeyCount(ini, i - 1) /\ 0 \in 0 .. n /\ n \in 0 .. n
  BY <1>1
<1>3. /\ At(T, ini, i - 1, KeyCount(ini, i - 1)) \subseteq G
      /\ At(T, ini, i, 0) \subseteq G /\ At(T, ini, i, n) \subseteq G
  BY <1>2, AtIsPart
<1> HIDE DEF G
\* The comments change nothing that ini_get sees ...
<1>4. A \in Seq(L) /\ Within(r, A, G) /\ r1 \in At(T, ini, i - 1, KeyCount(ini, i - 1))
  <2>1. r \in Structures(T) /\ Bare(r) = PartOf(ini, i - 1, KeyCount(ini, i - 1))
    BY DEF At
  <2>2. /\ Within(r, A, {x \in Structures(T) : Bare(x) = Bare(r)})
        /\ r1 \in Structures(T) /\ Bare(r1) = Bare(r)
        /\ Pending(r) = <<>> => Pending(r1) = s.comments_before
    BY <1>1, <2>1, CommentsRead
  <2>3. {x \in Structures(T) : Bare(x) = Bare(r)} \subseteq G
    BY <1>3, <2>1 DEF At
  <2>4. A \in Seq(L)
    BY <1>1, CommentsTyped
  <2> HIDE DEF A, r1
  <2>5. Within(r, A, G)
    BY <2>2, <2>3 DEF Within
  <2> QED BY <2>1, <2>2, <2>4, <2>5 DEF At
<1> HIDE DEF A, r1
\* ... the header starts the section ...
<1>5. r2 \in Ready(T, ini, i, 0)
  <2>1. r1 \in Structures(T) /\ Bare(r1) = PartOf(ini, i - 1, KeyCount(ini, i - 1))
    BY <1>4 DEF At
  <2>2. /\ r2 \in Structures(T)
        /\ Bare(r2) = <<BareSection(s.name, <<>>)>> \o Bare(r1)
        /\ Pending(r2) = <<>>
    BY <1>1, <2>1, HeaderRead
  <2>3. <<BareSection(s.name, <<>>)>> \o PartOf(ini, i - 1, KeyCount(ini, i - 1))
            = PartOf(ini, i, 0)
    BY PartHeader DEF s
  <2> HIDE DEF r2
  <2>4. Bare(r2) = PartOf(ini, i, 0)
    BY <2>1, <2>2, <2>3, Zenon
  <2> QED BY <2>2, <2>4 DEF Ready, At
<1>6. head \in L
  BY <1>1, LinesTyped
<1> HIDE DEF head
<1>7. B \in Seq(L) /\ Within(r1, B, G) /\ ReadLines(r1, B) = r2
  <2>1. r1 \in G /\ r2 \in G
    BY <1>3, <1>4, <1>5 DEF Ready
  <2>2. B \in Seq(L)
    BY <1>6
  <2> HIDE DEF r2
  <2>3. ReadLine(r1, head) \in G
    BY <2>1 DEF r2
  <2> QED BY <1>6, <2>1, <2>2, <2>3, WithinOne DEF r2
<1> HIDE DEF r2, B
\* ... the keys follow ...
<1>8. C \in Seq(L) /\ Within(r2, C, G) /\ r3 \in Ready(T, ini, i, n)
  BY <1>5, KeyTextsRead DEF s, G
<1> HIDE DEF C, r3
\* ... and the empty line waits for a key that does not come.
<1>9. PICK t \in T : Blank = CommentLine(t)
  BY BlankIsComment
<1>10. Blank \in L /\ r4 \in At(T, ini, i, n)
  <2>1. r3 \in Structures(T) /\ Bare(r3) = PartOf(ini, i, n)
    BY <1>8 DEF Ready, At
  <2>2. /\ r4 \in Structures(T) /\ Bare(r4) = Bare(r3)
        /\ Pending(r4) = Append(Pending(r3), t)
    BY <1>9, <2>1, CommentRead
  <2>3. Blank \in L
    BY <1>9, LinesTyped
  <2> QED BY <2>1, <2>2, <2>3 DEF At
<1>11. D \in Seq(L) /\ Within(r3, D, G) /\ ReadLines(r3, D) = r4
  <2>1. r3 \in G /\ r4 \in G
    BY <1>3, <1>8, <1>10 DEF Ready
  <2>2. D \in Seq(L)
    BY <1>10
  <2> QED BY <1>10, <2>1, <2>2, WithinOne
<1> HIDE DEF L, D, r4
<1>12. A \o B \in Seq(L) /\ Within(r, A \o B, G) /\ ReadLines(r, A \o B) = r2
  <2>1. A \in Seq(L) /\ B \in Seq(L)
    BY <1>4, <1>7
  <2>2. Within(r, A, G) /\ Within(ReadLines(r, A), B, G)
    BY <1>4, <1>7 DEF r1
  <2>3. Within(r, A \o B, G) /\ ReadLines(r, A \o B) = ReadLines(ReadLines(r, A), B)
    BY <2>1, <2>2, WithinConcat
  <2> QED BY <1>7, <2>1, <2>3 DEF r1
<1> DEFINE AB == A \o B
<1> HIDE DEF AB
<1>13. AB \o C \in Seq(L) /\ Within(r, AB \o C, G) /\ ReadLines(r, AB \o C) = r3
  <2>1. AB \in Seq(L) /\ C \in Seq(L)
    BY <1>8, <1>12 DEF AB
  <2>2. Within(r, AB, G) /\ Within(ReadLines(r, AB), C, G)
    BY <1>8, <1>12 DEF AB
  <2>3. Within(r, AB \o C, G) /\ ReadLines(r, AB \o C) = ReadLines(ReadLines(r, AB), C)
    BY <2>1, <2>2, WithinConcat
  <2> QED BY <1>12, <2>1, <2>3 DEF AB, r3
<1> DEFINE ABC == AB \o C
<1> HIDE DEF ABC
<1>14. ABC \o D \in Seq(L) /\ Within(r, ABC \o D, G) /\ ReadLines(r, ABC \o D) = r4
  <2>1. ABC \in Seq(L) /\ D \in Seq(L)
    BY <1>11, <1>13 DEF ABC
  <2>2. Within(r, ABC, G) /\ Within(ReadLines(r, ABC), D, G)
    BY <1>11, <1>13 DEF ABC
  <2>3. Within(r, ABC \o D, G) /\ ReadLines(r, ABC \o D) = ReadLines(ReadLines(r, ABC), D)
    BY <2>1, <2>2, WithinConcat
  <2> QED BY <1>11, <1>13, <2>1, <2>3 DEF ABC
<1>15. SectionText(s) = ABC \o D
  BY Zenon DEF SectionText, KeyTexts, ABC, AB, A, B, C, D, head
<1> QED BY <1>10, <1>14, <1>15 DEF s, L, G, n

\* The texts of the sections.
SectionTexts(ini) == [i \in DOMAIN ini.sections |-> SectionText(ini.sections[i])]

LEMMA SectionTextTyped ==
    ASSUME NEW T, HasEmpty(T), NEW ini \in Structures(T), NEW i \in 1 .. Len(ini.sections)
    PROVE  SectionText(ini.sections[i]) \in Seq(LinesOver(T))
<1> DEFINE ss == KeyTexts(ini.sections[i])
           ks == ini.sections[i].keys
           L  == LinesOver(T)
           cs == Comments(ini.sections[i].comments_before)
           head == SectionLine(ini.sections[i].name)
<1>1. /\ ini.sections[i].name \in T /\ ini.sections[i].comments_before \in Seq(T)
      /\ ks \in Seq(KeysOver(T))
  BY Counted
<1>2. cs \in Seq(L) /\ head \in L /\ Blank \in L
  BY <1>1, LinesTyped, CommentsTyped, BlankIsComment
<1>3. FlattenSeq(ss) \in Seq(L)
  <2> DEFINE E == KeysOver(T)
             F == Seq(L)
             q == ks
  <2>1. /\ q \in Seq(E) /\ ss = [j \in DOMAIN q |-> ss[j]] /\ \A j \in DOMAIN q : ss[j] \in F
    <3>1. \A j \in DOMAIN ks : ks[j] \in KeysOver(T)
      BY <1>1
    <3>2. \A j \in DOMAIN ks : KeyText(ks[j]) \in Seq(L)
      BY <3>1, KeyTextTyped
    <3> QED BY <1>1, <3>2 DEF KeyTexts
  <2> HIDE DEF q, E, F, ss
  <2>2. ss \in Seq(F) /\ DOMAIN ss = DOMAIN q /\ Len(ss) = Len(q)
    BY <2>1, Mapped
  <2> HIDE DEF L
  <2>3. ss \in Seq(Seq(L))
    BY <2>2 DEF F
  <2>4. /\ \A n \in 0 .. Len(ss) : Joined(ss, n) \in Seq(L)
        /\ Joined(ss, Len(ss)) = FlattenSeq(ss)
    BY <2>3, JoinNext
  <2>5. Len(ss) \in Nat
    BY <2>3
  <2> QED BY <2>4, <2>5
<1> DEFINE body == FlattenSeq(ss)
<1> HIDE DEF body, cs, head, L
<1>4. cs \o <<head>> \o body \o <<Blank>> \in Seq(L)
  BY <1>2, <1>3 DEF body
<1>5. SectionText(ini.sections[i]) = cs \o <<head>> \o body \o <<Blank>>
  BY Zenon DEF SectionText, KeyTexts, cs, head, body
<1> QED BY <1>4, <1>5 DEF L

\* ini_load of what ini_save printed, or of its first lines, holds a part of
\* the structure; of the whole text, all of it.
LEMMA TextRead ==
    ASSUME NEW T, HasEmpty(T), NEW ini \in Structures(T)
    PROVE  LET n == Len(ini.sections)
           IN  /\ Text(ini) \in Seq(LinesOver(T))
               /\ Within(Empty, Text(ini), Parts(T, ini))
               /\ Load(Text(ini)) \in At(T, ini, n, KeyCount(ini, n))
<1> DEFINE n  == Len(ini.sections)
           ss == SectionTexts(ini)
           cs == Comments(ini.header_comments)
           r  == ReadLines(Empty, cs)
           L  == LinesOver(T)
           G  == Parts(T, ini)
           C  == [i \in 0 .. n |-> At(T, ini, i, KeyCount(ini, i))]
<1>1. /\ n \in Nat /\ ini.sections \in Seq(SectionsOver(T))
      /\ KeyCount(ini, 0) = 0 /\ ini.header_comments \in Seq(T)
  <2>1. n \in Nat /\ ini.sections \in Seq(SectionsOver(T))
    BY Counted
  <2>2. ini.header_comments \in Seq(T)
    BY DEF Structures
  <2> QED BY <2>1, <2>2 DEF KeyCount
<1>2. Empty \in At(T, ini, 0, 0)
  <2>1. <<>> \in Seq(T) /\ <<>> \in Seq(SectionsOver(T))
    OBVIOUS
  <2>2. Empty \in Structures(T)
    BY <2>1 DEF Empty, Structures
  <2>3. Bare(Empty) = <<>> /\ PartOf(ini, 0, 0) = <<>>
    BY DEF Bare, Empty, PartOf
  <2> QED BY <2>2, <2>3 DEF At
<1>3. At(T, ini, 0, 0) \subseteq G
  BY <1>1, AtIsPart
<1> HIDE DEF G
<1>4. cs \in Seq(L) /\ Within(Empty, cs, G) /\ r \in At(T, ini, 0, 0)
  <2>1. Empty \in Structures(T) /\ Bare(Empty) = PartOf(ini, 0, 0)
    BY <1>2 DEF At
  <2>2. /\ Within(Empty, cs, {x \in Structures(T) : Bare(x) = Bare(Empty)})
        /\ r \in Structures(T) /\ Bare(r) = Bare(Empty)
        /\ Pending(Empty) = <<>> => Pending(r) = ini.header_comments
    BY <1>1, <2>1, CommentsRead
  <2>3. {x \in Structures(T) : Bare(x) = Bare(Empty)} \subseteq G
    BY <1>3, <2>1 DEF At
  <2>4. cs \in Seq(L)
    BY <1>1, CommentsTyped
  <2> HIDE DEF cs, r
  <2>5. Within(Empty, cs, G)
    BY <2>2, <2>3 DEF Within
  <2> QED BY <2>1, <2>2, <2>4, <2>5 DEF At
<1> HIDE DEF cs, r
<1>5. /\ ss = [i \in DOMAIN ini.sections |-> ss[i]] /\ DOMAIN ini.sections = 1 .. n
      /\ \A i \in 1 .. n : ss[i] = SectionText(ini.sections[i])
  BY <1>1 DEF SectionTexts
<1>6. \A i \in 1 .. n : SectionText(ini.sections[i]) \in Seq(L)
  BY SectionTextTyped
<1>7. \A i \in 1 .. n : \A x \in At(T, ini, i - 1, KeyCount(ini, i - 1)) :
          /\ Within(x, SectionText(ini.sections[i]), G)
          /\ ReadLines(x, SectionText(ini.sections[i])) \in At(T, ini, i, KeyCount(ini, i))
  BY SectionTextRead DEF G
<1> HIDE DEF ss, L
<1>8. ss \in Seq(Seq(L)) /\ Len(ss) = n
  <2> DEFINE q == ini.sections
             E == SectionsOver(T)
             F == Seq(L)
  <2>1. q \in Seq(E) /\ ss = [i \in DOMAIN q |-> ss[i]] /\ \A i \in DOMAIN q : ss[i] \in F
    BY <1>1, <1>5, <1>6
  <2> HIDE DEF q, E, F
  <2>2. ss \in Seq(F) /\ DOMAIN ss = DOMAIN q /\ Len(ss) = Len(q)
    BY <2>1, Mapped
  <2> QED BY <1>1, <2>2 DEF F, q
<1> HIDE DEF n
<1>9. /\ r \in C[0] /\ r \in G
      /\ \A i \in 1 .. n : \A x \in C[i - 1] :
            Within(x, ss[i], G) /\ ReadLines(x, ss[i]) \in C[i]
  <2>1. \A i \in 1 .. n : /\ C[i - 1] = At(T, ini, i - 1, KeyCount(ini, i - 1))
                          /\ C[i] = At(T, ini, i, KeyCount(ini, i))
    BY <1>1
  <2>2. C[0] = At(T, ini, 0, 0)
    BY <1>1
  <2> HIDE DEF C
  <2> QED BY <1>3, <1>4, <1>5, <1>7, <2>1, <2>2
<1>10. C[n] = At(T, ini, n, KeyCount(ini, n))
  BY <1>1
<1> HIDE DEF C
<1>11. /\ FlattenSeq(ss) \in Seq(L)
       /\ Within(r, FlattenSeq(ss), G)
       /\ ReadLines(r, FlattenSeq(ss)) \in C[Len(ss)]
  <2>1. \A i \in 1 .. Len(ss) : \A x \in C[i - 1] :
            Within(x, ss[i], G) /\ ReadLines(x, ss[i]) \in C[i]
    BY <1>8, <1>9
  <2> QED BY <1>8, <1>9, <2>1, WithinJoined
<1> DEFINE body == FlattenSeq(ss)
<1> HIDE DEF body
<1>12. /\ cs \o body \in Seq(L)
       /\ Within(Empty, cs \o body, G)
       /\ ReadLines(Empty, cs \o body) \in C[n]
  <2>1. cs \in Seq(L) /\ body \in Seq(L)
    BY <1>4, <1>11 DEF body
  <2>2. Within(Empty, cs, G) /\ Within(ReadLines(Empty, cs), body, G)
    BY <1>4, <1>11 DEF body, r
  <2>3. /\ Within(Empty, cs \o body, G)
        /\ ReadLines(Empty, cs \o body) = ReadLines(ReadLines(Empty, cs), body)
    BY <2>1, <2>2, WithinConcat
  <2>4. ReadLines(Empty, cs \o body) \in C[n]
    BY <1>8, <1>11, <2>3 DEF r, body
  <2> QED BY <2>1, <2>3, <2>4
<1>13. Text(ini) = cs \o body
  BY Zenon DEF Text, SectionTexts, cs, body, ss
<1> QED BY <1>10, <1>12, <1>13 DEF Load, n, L, G

-----------------------------------------------------------------------------
(* What ini_get finds in a part.                                           *)

\* The sections and keys of a part are sections and keys of the whole.
LEMMA PartHas ==
    ASSUME NEW T, NEW ini \in Structures(T), NEW i \in 0 .. Len(ini.sections),
           NEW j \in 0 .. KeyCount(ini, i), NEW r \in At(T, ini, i, j)
    PROVE  /\ DOMAIN r.sections = 1 .. i
           /\ \A a \in 1 .. i :
                 LET s == ini.sections[i + 1 - a]
                     m == IF a = 1 THEN j ELSE Len(s.keys)
                 IN  /\ i + 1 - a \in 1 .. Len(ini.sections)
                     /\ m \in 0 .. Len(s.keys) /\ Len(s.keys) \in Nat
                     /\ r.sections[a].name = s.name
                     /\ DOMAIN r.sections[a].keys = 1 .. m
                     /\ \A b \in 1 .. m : /\ r.sections[a].keys[b] = s.keys[m + 1 - b]
                                          /\ m + 1 - b \in 1 .. Len(s.keys)
<1> DEFINE p == PartOf(ini, i, j)
           S(a) == ini.sections[i + 1 - a]
           M(a) == IF a = 1 THEN j ELSE Len(S(a).keys)
<1>1. r \in Structures(T) /\ Bare(r) = p
  BY DEF At
<1>2. /\ DOMAIN r.sections = DOMAIN p
      /\ \A a \in DOMAIN r.sections : p[a] = BareSection(r.sections[a].name, r.sections[a].keys)
  <2>1. /\ DOMAIN Bare(r) = DOMAIN r.sections
        /\ \A a \in DOMAIN r.sections :
              Bare(r)[a] = BareSection(r.sections[a].name, r.sections[a].keys)
    BY <1>1, BareTyped
  <2> QED BY <1>1, <2>1
<1>3. /\ DOMAIN p = 1 .. i
      /\ \A a \in 1 .. i : p[a] = BareSection(S(a).name, Newest(S(a).keys, M(a)))
  BY DEF PartOf
<1>4. Len(ini.sections) \in Nat /\ i \in Nat /\ KeyCount(ini, i) \in Nat
  BY Counted
<1> HIDE DEF p
<1>5. ASSUME NEW a \in 1 .. i
      PROVE  /\ i + 1 - a \in 1 .. Len(ini.sections)
             /\ M(a) \in 0 .. Len(S(a).keys) /\ Len(S(a).keys) \in Nat
             /\ r.sections[a].name = S(a).name
             /\ DOMAIN r.sections[a].keys = 1 .. M(a)
             /\ \A b \in 1 .. M(a) : /\ r.sections[a].keys[b] = S(a).keys[M(a) + 1 - b]
                                     /\ M(a) + 1 - b \in 1 .. Len(S(a).keys)
  <2>1. i + 1 - a \in 1 .. Len(ini.sections)
    BY <1>4
  <2>2. Len(S(a).keys) = KeyCount(ini, i + 1 - a) /\ KeyCount(ini, i + 1 - a) \in Nat
    <3>1. i + 1 - a \in 0 .. Len(ini.sections)
      BY <1>4, <2>1
    <3> QED BY <2>1, <3>1, Counted
  <2>3. a = 1 => j \in 0 .. Len(S(a).keys)
    <3>1. a = 1 => i + 1 - a = i
      BY <1>4
    <3> QED BY <2>2, <3>1
  <2>4. M(a) \in 0 .. Len(S(a).keys) /\ M(a) \in Nat
    BY <2>2, <2>3
  <2>5. r.sections[a].name = S(a).name /\ r.sections[a].keys = Newest(S(a).keys, M(a))
    <3>1. BareSection(r.sections[a].name, r.sections[a].keys)
             = BareSection(S(a).name, Newest(S(a).keys, M(a)))
      BY <1>2, <1>3
    <3>2. \A n1, n2, k1, k2 : BareSection(n1, k1) = BareSection(n2, k2) => n1 = n2 /\ k1 = k2
      BY DEF BareSection
    <3> HIDE DEF S, M
    <3> QED BY <3>1, <3>2
  <2> HIDE DEF S, M
  <2>6. /\ DOMAIN r.sections[a].keys = 1 .. M(a)
        /\ \A b \in 1 .. M(a) : r.sections[a].keys[b] = S(a).keys[M(a) + 1 - b]
    BY <2>5 DEF Newest
  <2>7. \A b \in 1 .. M(a) : M(a) + 1 - b \in 1 .. Len(S(a).keys)
    BY <2>2, <2>4
  <2> QED BY <2>1, <2>2, <2>4, <2>5, <2>6, <2>7
<1> QED BY <1>2, <1>3, <1>5

LEMMA PartOnce ==
    ASSUME NEW T, NEW ini \in Structures(T), NoDuplicates(ini), NEW i \in 0 .. Len(ini.sections),
           NEW j \in 0 .. KeyCount(ini, i), NEW r \in At(T, ini, i, j)
    PROVE  NoDuplicates(r)
<1> DEFINE q == ini.sections
<1>1. /\ Len(q) \in Nat /\ i \in Nat /\ DOMAIN q = 1 .. Len(q)
      /\ \A x \in 1 .. Len(q) : DOMAIN q[x].keys = 1 .. Len(q[x].keys)
  BY Counted
<1>2. /\ DOMAIN r.sections = 1 .. i
      /\ \A a \in 1 .. i :
            LET s == q[i + 1 - a]
                m == IF a = 1 THEN j ELSE Len(s.keys)
            IN  /\ i + 1 - a \in 1 .. Len(q)
                /\ m \in 0 .. Len(s.keys) /\ Len(s.keys) \in Nat
                /\ r.sections[a].name = s.name
                /\ DOMAIN r.sections[a].keys = 1 .. m
                /\ \A b \in 1 .. m : /\ r.sections[a].keys[b] = s.keys[m + 1 - b]
                                     /\ m + 1 - b \in 1 .. Len(s.keys)
  BY PartHas
<1>3. /\ \A x, y \in 1 .. Len(q) : q[x].name = q[y].name => x = y
      /\ \A x \in 1 .. Len(q) : \A b, c \in 1 .. Len(q[x].keys) :
            q[x].keys[b].key = q[x].keys[c].key => b = c
  BY <1>1 DEF NoDuplicates
<1> HIDE DEF q
<1>4. ASSUME NEW a \in 1 .. i, NEW b \in 1 .. i, r.sections[a].name = r.sections[b].name
      PROVE  a = b
  <2>1. i + 1 - a \in 1 .. Len(q) /\ i + 1 - b \in 1 .. Len(q)
    BY <1>2
  <2>2. q[i + 1 - a].name = q[i + 1 - b].name
    BY <1>2, <1>4
  <2>3. i + 1 - a = i + 1 - b
    BY <1>3, <2>1, <2>2
  <2> QED BY <1>1, <2>3
<1>5. ASSUME NEW a \in 1 .. i, NEW b \in DOMAIN r.sections[a].keys,
             NEW c \in DOMAIN r.sections[a].keys,
             r.sections[a].keys[b].key = r.sections[a].keys[c].key
      PROVE  b = c
  <2> DEFINE x == i + 1 - a
             m == IF a = 1 THEN j ELSE Len(q[x].keys)
  <2>1. /\ x \in 1 .. Len(q) /\ m \in 0 .. Len(q[x].keys) /\ Len(q[x].keys) \in Nat
        /\ DOMAIN r.sections[a].keys = 1 .. m
        /\ \A d \in 1 .. m : /\ r.sections[a].keys[d] = q[x].keys[m + 1 - d]
                             /\ m + 1 - d \in 1 .. Len(q[x].keys)
    BY <1>2
  <2> HIDE DEF x, m
  <2>2. m + 1 - b = m + 1 - c
    <3> DEFINE u == m + 1 - b
               w == m + 1 - c
    <3>1. /\ u \in 1 .. Len(q[x].keys) /\ r.sections[a].keys[b] = q[x].keys[u]
          /\ w \in 1 .. Len(q[x].keys) /\ r.sections[a].keys[c] = q[x].keys[w]
      BY <2>1
    <3> HIDE DEF u, w
    <3>2. u = w
      BY <1>3, <1>5, <2>1, <3>1
    <3> QED BY <3>2 DEF u, w
  <2>3. m \in Nat /\ b \in Nat /\ c \in Nat
    BY <2>1, SMTT(30)
  <2> QED BY <2>2, <2>3
<1> QED BY <1>2, <1>4, <1>5 DEF NoDuplicates

\* Each of its entries is an entry of the whole ...
LEMMA PartSays ==
    ASSUME NEW T, NEW ini \in Structures(T), NoDuplicates(ini), NEW i \in 0 .. Len(ini.sections),
           NEW j \in 0 .. KeyCount(ini, i), NEW r \in At(T, ini, i, j), NEW q \in DOMAIN Lookups(r)
    PROVE  q \in DOMAIN Lookups(ini) /\ Lookups(ini)[q] = Lookups(r)[q]
<1>1. r \in Structures(T)
  BY DEF At
<1>2. PICK a \in DOMAIN r.sections : \E b \in DOMAIN r.sections[a].keys :
          /\ q = <<r.sections[a].name, r.sections[a].keys[b].key>>
          /\ Lookups(r)[q] = r.sections[a].keys[b]
  BY <1>1, EntryIsSomewhere
<1>3. PICK b \in DOMAIN r.sections[a].keys :
          /\ q = <<r.sections[a].name, r.sections[a].keys[b].key>>
          /\ Lookups(r)[q] = r.sections[a].keys[b]
  BY <1>2
<1> DEFINE x == i + 1 - a
           s == ini.sections[x]
           m == IF a = 1 THEN j ELSE Len(s.keys)
           y == m + 1 - b
<1>4. /\ x \in 1 .. Len(ini.sections) /\ r.sections[a].name = s.name
      /\ r.sections[a].keys[b] = s.keys[y] /\ y \in 1 .. Len(s.keys)
  <2>1. /\ DOMAIN r.sections = 1 .. i
        /\ \A c \in 1 .. i :
              LET t == ini.sections[i + 1 - c]
                  n == IF c = 1 THEN j ELSE Len(t.keys)
              IN  /\ i + 1 - c \in 1 .. Len(ini.sections)
                  /\ n \in 0 .. Len(t.keys) /\ Len(t.keys) \in Nat
                  /\ r.sections[c].name = t.name
                  /\ DOMAIN r.sections[c].keys = 1 .. n
                  /\ \A d \in 1 .. n : /\ r.sections[c].keys[d] = t.keys[n + 1 - d]
                                       /\ n + 1 - d \in 1 .. Len(t.keys)
    BY PartHas
  <2>2. a \in 1 .. i
    BY <2>1
  <2>3. /\ x \in 1 .. Len(ini.sections) /\ r.sections[a].name = s.name
        /\ DOMAIN r.sections[a].keys = 1 .. m
        /\ \A d \in 1 .. m : /\ r.sections[a].keys[d] = s.keys[m + 1 - d]
                             /\ m + 1 - d \in 1 .. Len(s.keys)
    BY <2>1, <2>2
  <2> HIDE DEF x, s, m
  <2>4. b \in 1 .. m
    BY <2>3
  <2> QED BY <2>3, <2>4
<1> HIDE DEF x, y
<1>5. x \in DOMAIN ini.sections /\ y \in DOMAIN ini.sections[x].keys
  <2>1. /\ ini.sections \in Seq(SectionsOver(T)) /\ ini.sections[x].keys \in Seq(KeysOver(T))
    BY <1>4, Counted
  <2> QED BY <1>4, <2>1
<1>6. LET p == <<ini.sections[x].name, ini.sections[x].keys[y].key>>
      IN  p \in DOMAIN Lookups(ini) /\ Lookups(ini)[p] = ini.sections[x].keys[y]
  BY <1>5, FoundWhereItIs
<1> QED BY <1>3, <1>4, <1>6

\* ... and the whole part has every entry.
LEMMA WholeSays ==
    ASSUME NEW T, NEW ini \in Structures(T), NoDuplicates(ini),
           NEW r \in At(T, ini, Len(ini.sections), KeyCount(ini, Len(ini.sections))),
           NEW q \in DOMAIN Lookups(ini)
    PROVE  q \in DOMAIN Lookups(r)
<1> DEFINE i == Len(ini.sections)
           j == KeyCount(ini, i)
<1>1. /\ r \in Structures(T) /\ NoDuplicates(r) /\ i \in Nat /\ i \in 0 .. i
      /\ j \in Nat /\ j \in 0 .. KeyCount(ini, i)
  <2>1. i \in Nat
    BY Counted
  <2>2. i \in 0 .. i
    BY <2>1
  <2>3. j \in Nat
    BY <2>2, Counted
  <2>4. j \in 0 .. KeyCount(ini, i)
    BY <2>3
  <2>5. NoDuplicates(r)
    BY <2>2, <2>4, PartOnce
  <2> QED BY <2>1, <2>2, <2>3, <2>4, <2>5 DEF At
<1>2. PICK x \in DOMAIN ini.sections : \E y \in DOMAIN ini.sections[x].keys :
          /\ q = <<ini.sections[x].name, ini.sections[x].keys[y].key>>
          /\ Lookups(ini)[q] = ini.sections[x].keys[y]
  BY EntryIsSomewhere
<1>3. PICK y \in DOMAIN ini.sections[x].keys :
          /\ q = <<ini.sections[x].name, ini.sections[x].keys[y].key>>
          /\ Lookups(ini)[q] = ini.sections[x].keys[y]
  BY <1>2
<1> DEFINE a == i + 1 - x
           s == ini.sections[x]
           n == Len(s.keys)
           b == n + 1 - y
<1>4. /\ x \in 1 .. i /\ n \in Nat /\ y \in 1 .. n
      /\ KeyCount(ini, x) = n
  <2>1. x \in 1 .. i
    BY Counted
  <2>2. ini.sections[x].keys \in Seq(KeysOver(T)) /\ KeyCount(ini, x) = Len(ini.sections[x].keys)
    BY <2>1, Counted
  <2> QED BY <2>1, <2>2
<1>5. a \in 1 .. i /\ i + 1 - a = x
  <2> HIDE DEF i
  <2> QED BY <1>1, <1>4
<1>6. (IF a = 1 THEN j ELSE n) = n
  <2>1. a = 1 => x = i
    BY <1>1, <1>4
  <2> QED BY <1>4, <2>1
<1>7. b \in 1 .. n /\ n + 1 - b = y
  BY <1>4
<1> HIDE DEF a, b
<1>8. /\ DOMAIN r.sections = 1 .. i
      /\ \A c \in 1 .. i :
            LET t == ini.sections[i + 1 - c]
                h == IF c = 1 THEN j ELSE Len(t.keys)
            IN  /\ i + 1 - c \in 1 .. Len(ini.sections)
                /\ h \in 0 .. Len(t.keys) /\ Len(t.keys) \in Nat
                /\ r.sections[c].name = t.name
                /\ DOMAIN r.sections[c].keys = 1 .. h
                /\ \A d \in 1 .. h : /\ r.sections[c].keys[d] = t.keys[h + 1 - d]
                                     /\ h + 1 - d \in 1 .. Len(t.keys)
  BY <1>1, PartHas
<1>9. /\ r.sections[a].name = s.name
      /\ DOMAIN r.sections[a].keys = 1 .. n
      /\ r.sections[a].keys[b] = s.keys[y]
  <2> DEFINE m == IF a = 1 THEN j ELSE n
  <2>1. /\ r.sections[a].name = s.name
        /\ DOMAIN r.sections[a].keys = 1 .. m
        /\ \A d \in 1 .. m : r.sections[a].keys[d] = s.keys[m + 1 - d]
    BY <1>5, <1>8
  <2>2. m = n
    BY <1>6
  <2> HIDE DEF m, n, s
  <2> QED BY <1>7, <2>1, <2>2
<1>10. LET p == <<r.sections[a].name, r.sections[a].keys[b].key>>
       IN  p \in DOMAIN Lookups(r) /\ Lookups(r)[p] = r.sections[a].keys[b]
  <2>1. a \in DOMAIN r.sections /\ b \in DOMAIN r.sections[a].keys
    BY <1>5, <1>7, <1>8, <1>9
  <2> QED BY <1>1, <2>1, FoundWhereItIs
<1> QED BY <1>3, <1>9, <1>10

\* A part of a structure has some of its entries.
LEMMA PartIs ==
    ASSUME NEW T, NEW ini \in Structures(T), NoDuplicates(ini), NEW r \in Parts(T, ini)
    PROVE  /\ r \in Structures(T) /\ NoDuplicates(r)
           /\ \A q \in DOMAIN Lookups(r) :
                 q \in DOMAIN Lookups(ini) /\ Lookups(r)[q] = Lookups(ini)[q]
           /\ Remains(Lookups(r), Lookups(ini))
<1>1. PICK x \in 0 .. Len(ini.sections) : \E y \in 0 .. KeyCount(ini, x) :
          Bare(r) = PartOf(ini, x, y)
  BY DEF Parts
<1>2. PICK y \in 0 .. KeyCount(ini, x) : Bare(r) = PartOf(ini, x, y)
  BY <1>1
<1>3. r \in At(T, ini, x, y) /\ r \in Structures(T)
  BY <1>2 DEF Parts, At
<1>4. NoDuplicates(r)
  BY <1>3, PartOnce
<1>5. \A q \in DOMAIN Lookups(r) :
         q \in DOMAIN Lookups(ini) /\ Lookups(ini)[q] = Lookups(r)[q]
  BY <1>3, PartSays
<1> QED BY <1>3, <1>4, <1>5 DEF Remains

\* Read back, every entry is there; of any number of whole lines some of the
\* entries are and nothing else.
LEMMA LinesAreRead ==
    ASSUME NEW T, HasEmpty(T), NEW ini \in Structures(T), NoDuplicates(ini)
    PROVE  /\ Text(ini) \in Seq(LinesOver(T))
           /\ Lookups(Load(Text(ini))) = Lookups(ini)
           /\ \A n \in 0 .. Len(Text(ini)) :
                 LET r == Load(SubSeq(Text(ini), 1, n))
                 IN  /\ r \in Structures(T) /\ NoDuplicates(r) /\ r \in Parts(T, ini)
                     /\ DOMAIN Lookups(r) \subseteq DOMAIN Lookups(ini)
                     /\ \A q \in DOMAIN Lookups(r) : Lookups(r)[q] = Lookups(ini)[q]
<1> DEFINE i == Len(ini.sections)
           j == KeyCount(ini, i)
           text == Text(ini)
<1>1. text \in Seq(LinesOver(T)) /\ Within(Empty, text, Parts(T, ini)) /\ Load(text) \in At(T, ini, i, j)
  BY TextRead
<1> HIDE DEF text
<1>2. ASSUME NEW n \in 0 .. Len(text)
      PROVE  LET r == Load(SubSeq(text, 1, n))
             IN  /\ r \in Structures(T) /\ NoDuplicates(r) /\ r \in Parts(T, ini)
                 /\ DOMAIN Lookups(r) \subseteq DOMAIN Lookups(ini)
                 /\ \A q \in DOMAIN Lookups(r) : Lookups(r)[q] = Lookups(ini)[q]
  <2> DEFINE r == Load(SubSeq(text, 1, n))
  <2>1. r \in Parts(T, ini)
    BY <1>1 DEF Within, Read, Load
  <2> HIDE DEF r
  <2> QED BY <2>1, PartIs DEF r
<1>3. Lookups(Load(text)) = Lookups(ini)
  <2> DEFINE r == Load(text)
  <2>1. i \in 0 .. Len(ini.sections) /\ j \in 0 .. KeyCount(ini, i)
    <3>1. i \in 0 .. Len(ini.sections)
      BY Counted
    <3>2. j \in Nat
      BY <3>1, Counted
    <3> QED BY <3>1, <3>2
  <2> HIDE DEF r
  <2>2. \A q \in DOMAIN Lookups(r) :
           q \in DOMAIN Lookups(ini) /\ Lookups(ini)[q] = Lookups(r)[q]
    BY <1>1, <2>1, PartSays DEF r
  <2>3. \A q \in DOMAIN Lookups(ini) : q \in DOMAIN Lookups(r)
    BY <1>1, WholeSays DEF r
  <2>4. \A s : Lookups(s) = [q \in DOMAIN Lookups(s) |-> Lookups(s)[q]]
    BY DEF Lookups
  <2>5. DOMAIN Lookups(r) = DOMAIN Lookups(ini)
    BY <2>2, <2>3
  <2>6. Lookups(r) = Lookups(ini)
    <3> DEFINE A == Lookups(r)
               B == Lookups(ini)
    <3>1. A = [q \in DOMAIN A |-> A[q]] /\ B = [q \in DOMAIN B |-> B[q]]
      BY <2>4
    <3>2. DOMAIN A = DOMAIN B /\ \A q \in DOMAIN A : A[q] = B[q]
      BY <2>2, <2>5
    <3> HIDE DEF A, B
    <3>3. A = B
      BY <3>1, <3>2
    <3> QED BY <3>3 DEF A, B
  <2> QED BY <2>6 DEF r
<1> QED BY <1>1, <1>2, <1>3 DEF text

-----------------------------------------------------------------------------
(* A text cut inside a line.                                               *)

\* Begins relates T's texts: each to itself, and the empty one to each.
CutsOf(T) ==
    /\ Begins \subseteq T \X T
    /\ \A t \in T : <<t, t>> \in Begins /\ <<"", t>> \in Begins

LEMMA CutTyped ==
    ASSUME NEW T, CutsOf(T), NEW t, NEW u \in Cut(t)
    PROVE  u \in T /\ <<u, t>> \in Begins
<1>1. PICK b \in Begins : b[2] = t /\ u = b[1]
  BY DEF Cut
<1>2. PICK x \in T, y \in T : b = <<x, y>>
  <2>1. b \in T \X T
    BY DEF CutsOf
  <2> QED BY <2>1
<1>3. b[1] = x /\ b[2] = y
  BY <1>2
<1> QED BY <1>1, <1>2, <1>3

\* Torn, a line is junk, whole, another comment, or a key with its value or its
\* note cut.
LEMMA TornIs ==
    ASSUME NEW T, HasEmpty(T), CutsOf(T), NEW line \in LinesOver(T), NEW torn \in Torn(line)
    PROVE  /\ torn \in LinesOver(T)
           /\ \/ torn = Junk
              \/ torn = line
              \/ \E u \in T : torn = CommentLine(u)
              \/ \E k, v, w, c, d \in T :
                    /\ line = KeyLine(k, v, c) /\ torn = KeyLine(k, w, d)
                    /\ <<w, v>> \in Begins /\ <<d, c>> \in Begins
<1>1. /\ Junk \in LinesOver(T)
      /\ \A u \in T : CommentLine(u) \in LinesOver(T)
      /\ \A k, v, c \in T : KeyLine(k, v, c) \in LinesOver(T)
  BY DEF LinesOver, CommentLine, KeyLine
<1>2. ASSUME NEW u \in T, line = CommentLine(u)
      PROVE  \E w \in T : torn = CommentLine(w)
  <2>1. line.kind = "comment" /\ line.text = u
    BY <1>2 DEF CommentLine
  <2>2. PICK w \in Cut(u) : torn = CommentLine(w)
    BY <2>1 DEF Torn
  <2> QED BY <2>2, CutTyped
<1>3. ASSUME NEW n \in T, line = SectionLine(n)
      PROVE  torn = Junk \/ torn = line
  BY <1>3 DEF SectionLine, Torn
<1>4. ASSUME NEW k \in T, NEW v \in T, NEW c \in T, line = KeyLine(k, v, c)
      PROVE  \/ torn = Junk
             \/ \E w, d \in T : /\ torn = KeyLine(k, w, d)
                               /\ <<w, v>> \in Begins /\ <<d, c>> \in Begins
  <2>1. line.kind = "key" /\ line.key = k /\ line.value = v /\ line.note = c
    BY <1>4 DEF KeyLine
  <2>2. \/ torn = Junk
        \/ \E w \in Cut(v) : torn = KeyLine(k, w, "")
        \/ \E d \in Cut(c) : torn = KeyLine(k, v, d)
    BY <2>1 DEF Torn
  <2>3. ASSUME NEW w \in Cut(v), torn = KeyLine(k, w, "")
        PROVE  \E x, d \in T : /\ torn = KeyLine(k, x, d)
                              /\ <<x, v>> \in Begins /\ <<d, c>> \in Begins
    <3>1. w \in T /\ <<w, v>> \in Begins
      BY <2>3, CutTyped
    <3>2. "" \in T /\ <<"", c>> \in Begins
      BY DEF HasEmpty, CutsOf
    <3> QED BY <2>3, <3>1, <3>2, Zenon
  <2>4. ASSUME NEW d \in Cut(c), torn = KeyLine(k, v, d)
        PROVE  \E x, e \in T : /\ torn = KeyLine(k, x, e)
                              /\ <<x, v>> \in Begins /\ <<e, c>> \in Begins
    <3>1. d \in T /\ <<d, c>> \in Begins /\ <<v, v>> \in Begins
      BY <2>4, CutTyped DEF CutsOf
    <3> QED BY <2>4, <3>1, Zenon
  <2> QED BY <2>2, <2>3, <2>4
<1>5. CASE line = Junk
  BY <1>5 DEF Junk, Torn
<1>6. \/ \E t \in T : line = CommentLine(t)
      \/ \E n \in T : line = SectionLine(n)
      \/ \E k, v, note \in T : line = KeyLine(k, v, note)
      \/ line = Junk
  BY DEF LinesOver, CommentLine, SectionLine, KeyLine
<1>7. \/ torn = Junk
      \/ torn = line
      \/ \E u \in T : torn = CommentLine(u)
      \/ \E k, v, w, c, d \in T :
            /\ line = KeyLine(k, v, c) /\ torn = KeyLine(k, w, d)
            /\ <<w, v>> \in Begins /\ <<d, c>> \in Begins
  <2>1. CASE \E t \in T : line = CommentLine(t)
    BY <1>2, <2>1
  <2>2. CASE \E n \in T : line = SectionLine(n)
    BY <1>3, <2>2
  <2>3. CASE \E k, v, note \in T : line = KeyLine(k, v, note)
    <3>1. PICK k \in T, v \in T, note \in T : line = KeyLine(k, v, note)
      BY <2>3
    <3>2. CASE torn = Junk
      BY <3>2
    <3>3. CASE \E w, d \in T : /\ torn = KeyLine(k, w, d)
                               /\ <<w, v>> \in Begins /\ <<d, note>> \in Begins
      BY <3>1, <3>3, Zenon
    <3>4. \/ torn = Junk
          \/ \E w, d \in T : /\ torn = KeyLine(k, w, d)
                             /\ <<w, v>> \in Begins /\ <<d, note>> \in Begins
      BY <1>4, <3>1, Zenon
    <3> QED BY <3>2, <3>3, <3>4
  <2>4. CASE line = Junk
    BY <1>5, <2>4
  <2> QED BY <1>6, <2>1, <2>2, <2>3, <2>4
<1> QED BY <1>1, <1>7

\* One more line, of the text or torn, after the first n.
LEMMA OneMore ==
    ASSUME NEW T, NEW lines \in Seq(LinesOver(T)), NEW n \in 0 .. Len(lines),
           NEW line \in LinesOver(T)
    PROVE  LET a == SubSeq(lines, 1, n)
           IN  /\ a \in Seq(LinesOver(T)) /\ Len(a) = n
               /\ a \o <<line>> \in Seq(LinesOver(T)) /\ Len(a \o <<line>>) = n + 1
               /\ Load(a \o <<line>>) = ReadLine(Load(a), line)
<1> DEFINE L == LinesOver(T)
           a == SubSeq(lines, 1, n)
           b == <<line>>
<1>1. lines \in Seq(L) /\ line \in L
  OBVIOUS
<1> HIDE DEF L
<1>2. a \in Seq(L) /\ Len(a) = n /\ b \in Seq(L) /\ Len(b) = 1
  BY <1>1
<1> HIDE DEF a
<1>3. a \o b \in Seq(L) /\ Len(a \o b) = n + 1
  BY <1>2
<1> DEFINE r == ReadLines(Empty, a)
           G == {r, ReadLine(r, line)}
<1>4. ReadLines(Empty, a \o b) = ReadLines(r, b)
  <2> HIDE DEF b
  <2> QED BY <1>2, ReadConcat
<1>5. ReadLines(r, b) = ReadLine(r, line)
  <2>1. r \in G /\ ReadLine(r, line) \in G
    OBVIOUS
  <2> HIDE DEF r, G
  <2> QED BY <1>1, <2>1, WithinOne
<1> QED BY <1>2, <1>3, <1>4, <1>5 DEF Load, L, a

\* A structure like another, but for the newest section's newest key, which is
\* cut short, has the same entries but for that one.
LEMMA LikeButOne ==
    ASSUME NEW T, NEW w \in Structures(T), NoDuplicates(w), NEW v \in Structures(T),
           DOMAIN v.sections = DOMAIN w.sections,
           \A a \in DOMAIN w.sections :
              /\ v.sections[a].name = w.sections[a].name
              /\ DOMAIN v.sections[a].keys = DOMAIN w.sections[a].keys
              /\ \A b \in DOMAIN w.sections[a].keys :
                    LET e == v.sections[a].keys[b]
                        f == w.sections[a].keys[b]
                    IN  /\ e.key = f.key
                        /\ e = f \/ (a = 1 /\ b = 1 /\ CutShort(e, f))
    PROVE  /\ NoDuplicates(v)
           /\ Remains(Lookups(v), Lookups(w))
<1>1. NoDuplicates(v)
  BY DEF NoDuplicates
<1>2. ASSUME NEW q \in DOMAIN Lookups(v)
      PROVE  /\ q \in DOMAIN Lookups(w)
             /\ \/ Lookups(v)[q] = Lookups(w)[q]
                \/ /\ CutShort(Lookups(v)[q], Lookups(w)[q])
                   /\ q = <<w.sections[1].name, w.sections[1].keys[1].key>>
  <2>1. PICK a \in DOMAIN v.sections : \E b \in DOMAIN v.sections[a].keys :
            /\ q = <<v.sections[a].name, v.sections[a].keys[b].key>>
            /\ Lookups(v)[q] = v.sections[a].keys[b]
    BY EntryIsSomewhere
  <2>2. PICK b \in DOMAIN v.sections[a].keys :
            /\ q = <<v.sections[a].name, v.sections[a].keys[b].key>>
            /\ Lookups(v)[q] = v.sections[a].keys[b]
    BY <2>1
  <2>3. /\ a \in DOMAIN w.sections /\ b \in DOMAIN w.sections[a].keys
        /\ q = <<w.sections[a].name, w.sections[a].keys[b].key>>
        /\ \/ v.sections[a].keys[b] = w.sections[a].keys[b]
           \/ a = 1 /\ b = 1 /\ CutShort(v.sections[a].keys[b], w.sections[a].keys[b])
    BY <2>2
  <2>4. LET p == <<w.sections[a].name, w.sections[a].keys[b].key>>
        IN  p \in DOMAIN Lookups(w) /\ Lookups(w)[p] = w.sections[a].keys[b]
    <3>1. a \in DOMAIN w.sections /\ b \in DOMAIN w.sections[a].keys
      BY <2>3
    <3> QED BY <3>1, FoundWhereItIs
  <2> QED BY <2>2, <2>3, <2>4
<1> QED BY <1>1, <1>2 DEF Remains

\* A key cut short is read as that.
LEMMA TornKeyRead ==
    ASSUME NEW T, NEW ini \in Structures(T), NEW k \in T, NEW v \in T, NEW note \in T,
           NEW short \in T, NEW less \in T, <<short, v>> \in Begins, <<less, note>> \in Begins,
           NoDuplicates(ReadLine(ini, KeyLine(k, v, note)))
    PROVE  LET torn == ReadLine(ini, KeyLine(k, short, less))
           IN  /\ torn \in Structures(T) /\ NoDuplicates(torn)
               /\ Remains(Lookups(torn), Lookups(ReadLine(ini, KeyLine(k, v, note))))
<1> DEFINE full == ReadLine(ini, KeyLine(k, v, note))
           torn == ReadLine(ini, KeyLine(k, short, less))
           e    == [key |-> k, value |-> v, comment |-> note, comments_before |-> Pending(ini)]
           f    == [key |-> k, value |-> short, comment |-> less, comments_before |-> Pending(ini)]
           b    == Bare(ini)
           old  == b[1].keys
<1>1. CASE ini.sections = <<>>
  <2>1. torn = ini /\ full = ini
    BY <1>1, KeySkipped
  <2> QED BY <2>1 DEF Remains
<1>2. CASE ini.sections # <<>>
  <2>1. /\ full \in Structures(T) /\ 1 \in DOMAIN b
        /\ Bare(full) = [b EXCEPT ![1] = BareSection(b[1].name, <<e>> \o old)]
    BY <1>2, KeyRead
  <2>2. /\ torn \in Structures(T)
        /\ Bare(torn) = [b EXCEPT ![1] = BareSection(b[1].name, <<f>> \o old)]
    BY <1>2, KeyRead
  <2>3. CutShort(f, e) /\ f.key = e.key
    BY DEF CutShort
  <2>4. b \in Seq(BareOver(T)) /\ old \in Seq(KeysOver(T))
    <3>1. b \in Seq(BareOver(T))
      BY BareTyped
    <3>2. b[1] \in BareOver(T)
      BY <2>1, <3>1
    <3> QED BY <3>1, <3>2 DEF BareOver
  <2>5. e \in KeysOver(T) /\ f \in KeysOver(T)
    BY PendingTyped DEF KeysOver
  <2> HIDE DEF full, torn, b, e, f, old
  <2>6. /\ DOMAIN (<<e>> \o old) = 1 .. Len(old) + 1 /\ (<<e>> \o old)[1] = e
        /\ \A i \in 2 .. Len(old) + 1 : (<<e>> \o old)[i] = old[i - 1]
        /\ DOMAIN (<<f>> \o old) = 1 .. Len(old) + 1 /\ (<<f>> \o old)[1] = f
        /\ \A i \in 2 .. Len(old) + 1 : (<<f>> \o old)[i] = old[i - 1]
        /\ Len(old) \in Nat
    BY <2>4, <2>5, Pushed
  <2>7. /\ DOMAIN full.sections = DOMAIN b /\ DOMAIN torn.sections = DOMAIN b
        /\ \A a \in DOMAIN b :
              /\ BareSection(full.sections[a].name, full.sections[a].keys) = Bare(full)[a]
              /\ BareSection(torn.sections[a].name, torn.sections[a].keys) = Bare(torn)[a]
    BY <2>1, <2>2, BareTyped
  <2>8. \A m, n, x, y : BareSection(m, x) = BareSection(n, y) => m = n /\ x = y
    BY DEF BareSection
  <2>9. \A a \in DOMAIN b : a # 1 =>
            /\ torn.sections[a].name = full.sections[a].name
            /\ torn.sections[a].keys = full.sections[a].keys
    BY <2>1, <2>2, <2>7, <2>8
  <2>10. /\ full.sections[1].name = b[1].name /\ full.sections[1].keys = <<e>> \o old
         /\ torn.sections[1].name = b[1].name /\ torn.sections[1].keys = <<f>> \o old
    <3>1. /\ Bare(full)[1] = BareSection(b[1].name, <<e>> \o old)
          /\ Bare(torn)[1] = BareSection(b[1].name, <<f>> \o old)
      BY <2>1, <2>2
    <3>2. /\ BareSection(full.sections[1].name, full.sections[1].keys)
               = BareSection(b[1].name, <<e>> \o old)
          /\ BareSection(torn.sections[1].name, torn.sections[1].keys)
               = BareSection(b[1].name, <<f>> \o old)
      BY <2>1, <2>7, <3>1
    <3>3. /\ full.sections[1].name = b[1].name /\ full.sections[1].keys = <<e>> \o old
      BY <3>2 DEF BareSection
    <3>4. /\ torn.sections[1].name = b[1].name /\ torn.sections[1].keys = <<f>> \o old
      BY <3>2 DEF BareSection
    <3> QED BY <3>3, <3>4
  <2>11. ASSUME NEW a \in DOMAIN full.sections
         PROVE  /\ torn.sections[a].name = full.sections[a].name
                /\ DOMAIN torn.sections[a].keys = DOMAIN full.sections[a].keys
                /\ \A i \in DOMAIN full.sections[a].keys :
                      LET x == torn.sections[a].keys[i]
                          y == full.sections[a].keys[i]
                      IN  /\ x.key = y.key
                          /\ x = y \/ (a = 1 /\ i = 1 /\ CutShort(x, y))
    <3>1. CASE a # 1
      BY <2>7, <2>9, <3>1
    <3>2. CASE a = 1
      <4>1. DOMAIN torn.sections[1].keys = DOMAIN full.sections[1].keys
        BY <2>6, <2>10
      <4>2. ASSUME NEW i \in DOMAIN full.sections[1].keys
            PROVE  \/ torn.sections[1].keys[i] = full.sections[1].keys[i]
                   \/ i = 1 /\ torn.sections[1].keys[i] = f /\ full.sections[1].keys[i] = e
        <5>1. i = 1 \/ i \in 2 .. Len(old) + 1
          BY <2>6, <2>10
        <5> QED BY <2>6, <2>10, <5>1
      <4> QED BY <2>3, <2>10, <3>2, <4>1, <4>2
    <3> QED BY <3>1, <3>2
  <2>12. NoDuplicates(full)
    BY DEF full
  <2>13. NoDuplicates(torn) /\ Remains(Lookups(torn), Lookups(full))
    BY <2>1, <2>2, <2>7, <2>11, <2>12, LikeButOne
  <2> QED BY <2>2, <2>13 DEF torn, full
<1> QED BY <1>1, <1>2

\* Whole lines of a text and what may follow them.
LEMMA TailRead ==
    ASSUME NEW T, HasEmpty(T), CutsOf(T), NEW ini \in Structures(T), NoDuplicates(ini),
           NEW n \in 0 .. Len(Text(ini)), NEW tail \in Tails(Text(ini), n)
    PROVE  LET f == SubSeq(Text(ini), 1, n) \o tail
           IN  /\ f \in Seq(LinesOver(T)) /\ n <= Len(f) /\ Len(f) <= Len(Text(ini))
               /\ Load(f) \in Structures(T) /\ NoDuplicates(Load(f))
               /\ Remains(Lookups(Load(f)), Lookups(ini))
<1> DEFINE text == Text(ini)
           a    == SubSeq(text, 1, n)
           r    == Load(a)
           f    == a \o tail
<1>1. /\ text \in Seq(LinesOver(T)) /\ Len(text) \in Nat /\ n \in 0 .. Len(text)
      /\ r \in Parts(T, ini) /\ r \in Structures(T)
      /\ \A m \in 0 .. Len(text) : Load(SubSeq(text, 1, m)) \in Parts(T, ini)
  BY LinesAreRead
<1>2. tail \in Tails(text, n)
  OBVIOUS
<1> HIDE DEF text
<1>3. a \in Seq(LinesOver(T)) /\ Len(a) = n
  BY <1>1
<1>4. CASE tail = <<>>
  <2>1. f = a
    BY <1>3, <1>4
  <2>2. f \in Seq(LinesOver(T)) /\ n <= Len(f) /\ Len(f) <= Len(text)
    <3> HIDE DEF a, f
    <3> QED BY <1>1, <1>3, <2>1
  <2>3. NoDuplicates(r) /\ Remains(Lookups(r), Lookups(ini))
    <3> HIDE DEF r
    <3> QED BY <1>1, PartIs
  <2>4. Load(f) = r
    BY <2>1
  <2>5. Load(f) \in Structures(T) /\ NoDuplicates(Load(f)) /\ Remains(Lookups(Load(f)), Lookups(ini))
    <3> HIDE DEF f, r
    <3> QED BY <1>1, <2>3, <2>4
  <2> QED BY <2>2, <2>5 DEF text
<1>5. CASE tail # <<>>
  <2> DEFINE line == text[n + 1]
  <2>1. n \in Nat /\ n + 1 \in 1 .. Len(text) /\ \E t \in Torn(line) : tail = <<t>>
    BY <1>1, <1>2, <1>5 DEF Tails
  <2>2. PICK torn \in Torn(line) : tail = <<torn>>
    BY <2>1
  <2>3. line \in LinesOver(T)
    BY <1>1, <2>1
  <2>4. /\ torn \in LinesOver(T)
        /\ \/ torn = Junk
           \/ torn = line
           \/ \E u \in T : torn = CommentLine(u)
           \/ \E k, v, w, c, d \in T :
                 /\ line = KeyLine(k, v, c) /\ torn = KeyLine(k, w, d)
                 /\ <<w, v>> \in Begins /\ <<d, c>> \in Begins
    <3> DEFINE Is(l, t) ==
               \/ t = Junk
               \/ t = l
               \/ \E u \in T : t = CommentLine(u)
               \/ \E k, v, w, c, d \in T :
                     /\ l = KeyLine(k, v, c) /\ t = KeyLine(k, w, d)
                     /\ <<w, v>> \in Begins /\ <<d, c>> \in Begins
    <3>1. \A l \in LinesOver(T) : \A t \in Torn(l) : t \in LinesOver(T) /\ Is(l, t)
      BY TornIs
    <3> HIDE DEF Is
    <3>2. torn \in LinesOver(T) /\ Is(line, torn)
      BY <2>2, <2>3, <3>1
    <3> QED BY <3>2 DEF Is
  <2>5. /\ f \in Seq(LinesOver(T)) /\ Len(f) = n + 1
        /\ Load(f) = ReadLine(r, torn)
    BY <1>1, <2>2, <2>4, OneMore
  <2>6. ReadLine(r, line) \in Parts(T, ini)
    <3>1. Read(Empty, text, n + 1) = ReadLine(Read(Empty, text, (n + 1) - 1), text[n + 1])
      <4> DEFINE L == LinesOver(T)
                 e == Empty
      <4>1. text \in Seq(L)
        BY <1>1
      <4> HIDE DEF L, e
      <4>2. /\ Read(e, text, 0) = e
            /\ \A m \in 1 .. Len(text) : Read(e, text, m) = ReadLine(Read(e, text, m - 1), text[m])
            /\ Read(e, text, Len(text)) = ReadLines(e, text)
        BY <4>1, ReadNext
      <4> QED BY <2>1, <4>2 DEF e
    <3>2. (n + 1) - 1 = n
      BY <2>1
    <3>3. n + 1 \in 0 .. Len(text)
      BY <1>1, <2>1
    <3>4. Load(SubSeq(text, 1, n + 1)) = ReadLine(r, line)
      BY <3>1, <3>2 DEF Read, Load
    <3> QED BY <1>1, <3>3, <3>4
  <2> DEFINE new == ReadLine(r, torn)
  <2>7. /\ new \in Structures(T) /\ NoDuplicates(new)
        /\ Remains(Lookups(new), Lookups(ini))
    <3> HIDE DEF a, r, line
    <3>1. CASE torn = Junk
      <4>1. new = r
        BY <3>1 DEF ReadLine, Junk
      <4> QED BY <1>1, <4>1, PartIs
    <3>2. CASE torn = line
      BY <2>6, <3>2, PartIs
    <3>3. CASE \E u \in T : torn = CommentLine(u)
      <4>1. PICK u \in T : torn = CommentLine(u)
        BY <3>3
      <4>2. new \in Structures(T) /\ Bare(new) = Bare(r)
        BY <1>1, <4>1, CommentRead
      <4>3. new \in Parts(T, ini)
        <5> HIDE DEF new
        <5> QED BY <1>1, <4>2 DEF Parts
      <4> QED BY <4>3, PartIs
    <3>4. CASE \E k, v, w, c, d \in T :
                 /\ line = KeyLine(k, v, c) /\ torn = KeyLine(k, w, d)
                 /\ <<w, v>> \in Begins /\ <<d, c>> \in Begins
      <4>1. PICK k \in T, v \in T, w \in T, c \in T, d \in T :
                 /\ line = KeyLine(k, v, c) /\ torn = KeyLine(k, w, d)
                 /\ <<w, v>> \in Begins /\ <<d, c>> \in Begins
        BY <3>4
      <4> DEFINE full == ReadLine(r, KeyLine(k, v, c))
      <4>2. full \in Parts(T, ini)
        BY <2>6, <4>1
      <4>3. /\ NoDuplicates(full)
            /\ \A q \in DOMAIN Lookups(full) :
                  q \in DOMAIN Lookups(ini) /\ Lookups(full)[q] = Lookups(ini)[q]
        <5> HIDE DEF full
        <5> QED BY <4>2, PartIs
      <4>4. /\ new \in Structures(T) /\ NoDuplicates(new)
            /\ Remains(Lookups(new), Lookups(full))
        BY <1>1, <4>1, <4>3, TornKeyRead
      <4>5. Remains(Lookups(new), Lookups(ini))
        <5> HIDE DEF full, new
        <5> QED BY <4>3, <4>4 DEF Remains
      <4> QED BY <4>4, <4>5
    <3> QED BY <2>4, <3>1, <3>2, <3>3, <3>4
  <2> QED BY <1>1, <2>1, <2>5, <2>7 DEF text
<1> QED BY <1>4, <1>5 DEF text

\* Read back, every entry is there; of the text cut at any byte some of the
\* entries are, one of them at most with its value or its comment cut short,
\* and nothing else.
THEOREM SavedIsRead ==
    ASSUME NEW T, HasEmpty(T), CutsOf(T), NEW ini \in Structures(T), NoDuplicates(ini)
    PROVE  /\ Text(ini) \in Seq(LinesOver(T))
           /\ Lookups(Load(Text(ini))) = Lookups(ini)
           /\ \A n \in 0 .. Len(Text(ini)) : \A tail \in Tails(Text(ini), n) :
                 LET f == SubSeq(Text(ini), 1, n) \o tail
                 IN  /\ f \in Seq(LinesOver(T)) /\ n <= Len(f) /\ Len(f) <= Len(Text(ini))
                     /\ Load(f) \in Structures(T) /\ NoDuplicates(Load(f))
                     /\ Remains(Lookups(Load(f)), Lookups(ini))
<1>1. /\ Text(ini) \in Seq(LinesOver(T))
      /\ Lookups(Load(Text(ini))) = Lookups(ini)
  BY LinesAreRead
<1> QED BY <1>1, TailRead

=============================================================================
