----------------------------- MODULE IniProofs -----------------------------
(***************************************************************************)
(* What ini_get finds after ini_set, in a structure of any sections, keys  *)
(* and comments: the value at the entry that was set, and every other      *)
(* entry as it was.                                                        *)
(***************************************************************************)
EXTENDS Ini, NaturalsInduction, WellFoundedInduction, TLAPS

\* The texts include the empty one, which a new key has for its value.
HasEmpty(T) == "" \in T

\* What find_section and find_key return.
SectionNamed(ini, n) == ini.sections[FindSection(ini, n)]
KeyNamed(s, k) == s.keys[FindKey(s, k)]

-----------------------------------------------------------------------------
(* The first of the positions that match.                                  *)

Less == {pair \in Nat \X Nat : pair[1] < pair[2]}

\* Min of a set of numbers that is not empty is in it, and below all others.
LEMMA MinIsLeast ==
    ASSUME NEW S \in SUBSET Nat, S # {}
    PROVE  Min(S) \in S /\ \A m \in S : Min(S) <= m
<1>1. IsWellFoundedOn(Less, Nat)
  BY NatLessThanWellFounded DEF OpToRel, Less
<1>2. \E n \in S : \A m \in S : ~(<<m, n>> \in Less)
  BY <1>1, WFMin
<1>3. \A m, n \in S : <<m, n>> \in Less <=> m < n
  BY DEF Less
<1>4. \A m, n \in S : ~(m < n) => n <= m
  OBVIOUS
<1>5. \E n \in S : \A m \in S : n <= m
  BY <1>2, <1>3, <1>4
<1> QED BY <1>5 DEF Min

\* find_section returns the first section of that name ...
LEMMA FirstSection ==
    ASSUME NEW T, NEW ini \in Structures(T), NEW n, HasSection(ini, n)
    PROVE  /\ FindSection(ini, n) \in DOMAIN ini.sections
           /\ SectionNamed(ini, n).name = n
           /\ SectionNamed(ini, n) \in SectionsOver(T)
           /\ \A i \in DOMAIN ini.sections :
                 ini.sections[i].name = n => FindSection(ini, n) <= i
<1> DEFINE S == {i \in DOMAIN ini.sections : ini.sections[i].name = n}
<1>1. ini.sections \in Seq(SectionsOver(T))
  BY DEF Structures
<1>2. S \in SUBSET Nat /\ S # {}
  BY <1>1 DEF HasSection
<1>3. Min(S) \in S /\ \A m \in S : Min(S) <= m
  BY <1>2, MinIsLeast
<1>4. FindSection(ini, n) = Min(S)
  BY DEF FindSection
<1> HIDE DEF S
<1>5. FindSection(ini, n) \in S /\ \A m \in S : FindSection(ini, n) <= m
  BY <1>3, <1>4
<1> QED BY <1>1, <1>5 DEF S, SectionNamed

\* ... and find_key the first key of that name.
LEMMA FirstKey ==
    ASSUME NEW T, NEW s \in SectionsOver(T), NEW k, HasKey(s, k)
    PROVE  /\ FindKey(s, k) \in DOMAIN s.keys
           /\ KeyNamed(s, k).key = k
           /\ KeyNamed(s, k) \in KeysOver(T)
           /\ \A j \in DOMAIN s.keys : s.keys[j].key = k => FindKey(s, k) <= j
<1> DEFINE S == {j \in DOMAIN s.keys : s.keys[j].key = k}
<1>1. s.keys \in Seq(KeysOver(T))
  BY DEF SectionsOver
<1>2. S \in SUBSET Nat /\ S # {}
  BY <1>1 DEF HasKey
<1>3. Min(S) \in S /\ \A m \in S : Min(S) <= m
  BY <1>2, MinIsLeast
<1>4. FindKey(s, k) = Min(S)
  BY DEF FindKey
<1> HIDE DEF S
<1>5. FindKey(s, k) \in S /\ \A m \in S : FindKey(s, k) <= m
  BY <1>3, <1>4
<1> QED BY <1>1, <1>5 DEF S, KeyNamed

\* The first section of a name is the one with no earlier one of that name.
LEMMA SectionIsFirst ==
    ASSUME NEW T, NEW ini \in Structures(T), NEW i \in DOMAIN ini.sections,
           \A j \in DOMAIN ini.sections :
              ini.sections[j].name = ini.sections[i].name => i <= j
    PROVE  FindSection(ini, ini.sections[i].name) = i
<1>1. HasSection(ini, ini.sections[i].name)
  BY DEF HasSection
<1>2. ini.sections \in Seq(SectionsOver(T))
  BY DEF Structures
<1> QED BY <1>1, <1>2, FirstSection DEF SectionNamed

LEMMA KeyIsFirst ==
    ASSUME NEW T, NEW s \in SectionsOver(T), NEW i \in DOMAIN s.keys,
           \A j \in DOMAIN s.keys : s.keys[j].key = s.keys[i].key => i <= j
    PROVE  FindKey(s, s.keys[i].key) = i
<1>1. HasKey(s, s.keys[i].key)
  BY DEF HasKey
<1>2. s.keys \in Seq(KeysOver(T))
  BY DEF SectionsOver
<1> QED BY <1>1, <1>2, FirstKey DEF KeyNamed

-----------------------------------------------------------------------------
(* create_section and create_key push a new one in front.                  *)

\* Where the others are after a section was pushed.
LEMMA Pushed ==
    ASSUME NEW S, NEW q \in Seq(S), NEW e \in S
    PROVE  LET p == <<e>> \o q
           IN  /\ p \in Seq(S)
               /\ DOMAIN q = 1 .. Len(q) /\ DOMAIN p = 1 .. Len(q) + 1
               /\ p[1] = e
               /\ \A i \in 1 .. Len(q) : p[i + 1] = q[i]
               /\ \A i \in 2 .. Len(q) + 1 : i - 1 \in 1 .. Len(q) /\ p[i] = q[i - 1]
<1> DEFINE p == <<e>> \o q
<1>1. p \in Seq(S) /\ DOMAIN q = 1 .. Len(q)
  OBVIOUS
<1>2. DOMAIN p = 1 .. Len(q) + 1
  OBVIOUS
<1>3. p[1] = e
  OBVIOUS
<1>4. \A i \in 1 .. Len(q) : p[i + 1] = q[i]
  OBVIOUS
<1>5. \A i \in 2 .. Len(q) + 1 : i - 1 \in 1 .. Len(q) /\ p[i] = q[i - 1]
  OBVIOUS
<1> QED BY <1>1, <1>2, <1>3, <1>4, <1>5

\* What is pushed.
LEMMA NewSectionTyped ==
    ASSUME NEW T, NEW n \in T
    PROVE  NewSection(n) \in SectionsOver(T)
<1>1. <<>> \in Seq(T) /\ <<>> \in Seq(KeysOver(T))
  OBVIOUS
<1> QED BY <1>1 DEF NewSection, SectionsOver

LEMMA NewKeyTyped ==
    ASSUME NEW T, HasEmpty(T), NEW k \in T
    PROVE  NewKey(k) \in KeysOver(T) /\ NewKey(k).key = k
<1>1. <<>> \in Seq(T)
  OBVIOUS
<1>2. \A e \in T : [key |-> k, value |-> e, comment |-> e, comments_before |-> <<>>]
                       \in KeysOver(T)
  BY <1>1 DEF KeysOver
<1>3. NewKey(k) \in KeysOver(T)
  BY <1>2, Zenon DEF NewKey, HasEmpty
<1>4. NewKey(k).key = k
  BY Zenon DEF NewKey
<1> QED BY <1>3, <1>4

\* After it the section exists, and every other is found as before.
LEMMA SectionCreated ==
    ASSUME NEW T, NEW ini \in Structures(T), NEW n \in T
    PROVE  LET found == WithSection(ini, n)
           IN  /\ found \in Structures(T)
               /\ HasSection(found, n)
               /\ HasSection(ini, n) => found = ini
               /\ ~HasSection(ini, n) => SectionNamed(found, n) = NewSection(n)
               /\ \A m : m # n =>
                     /\ HasSection(found, m) <=> HasSection(ini, m)
                     /\ HasSection(ini, m) => SectionNamed(found, m) = SectionNamed(ini, m)
<1>1. CASE HasSection(ini, n)
  BY <1>1 DEF WithSection
<1>2. CASE ~HasSection(ini, n)
  <2> DEFINE found == WithSection(ini, n)
             q == ini.sections
             p == <<NewSection(n)>> \o q
  <2>1. q \in Seq(SectionsOver(T)) /\ NewSection(n) \in SectionsOver(T)
    BY NewSectionTyped DEF Structures
  <2>2. NewSection(n).name = n
    BY DEF NewSection
  <2>3. /\ p \in Seq(SectionsOver(T))
        /\ DOMAIN q = 1 .. Len(q) /\ DOMAIN p = 1 .. Len(q) + 1
        /\ p[1] = NewSection(n)
        /\ \A i \in 1 .. Len(q) : p[i + 1] = q[i]
        /\ \A i \in 2 .. Len(q) + 1 : i - 1 \in 1 .. Len(q) /\ p[i] = q[i - 1]
    BY <2>1, Pushed
  <2>4. found = [ini EXCEPT !.sections = p]
    BY <1>2 DEF WithSection, CreateSection
  <2>5. found \in Structures(T) /\ found.sections = p
    BY <2>3, <2>4 DEF Structures
  <2>6. Len(q) \in Nat
    BY <2>1
  <2> HIDE DEF found, p, q
  <2>7. HasSection(found, n) /\ SectionNamed(found, n) = NewSection(n)
    <3>1. 1 \in DOMAIN p /\ p[1].name = n /\ \A j \in DOMAIN p : 1 <= j
      BY <2>2, <2>3, <2>6
    <3>2. FindSection(found, n) = 1
      BY <2>5, <3>1, SectionIsFirst
    <3> QED BY <2>3, <2>5, <3>1, <3>2 DEF HasSection, SectionNamed
  <2>8. ASSUME NEW m, m # n
        PROVE  /\ HasSection(found, m) <=> HasSection(ini, m)
               /\ HasSection(ini, m) => SectionNamed(found, m) = SectionNamed(ini, m)
    <3>1. p[1].name # m
      BY <2>2, <2>3, <2>8
    <3>2. HasSection(found, m) => HasSection(ini, m)
      <4> SUFFICES ASSUME NEW i \in DOMAIN p, p[i].name = m
                   PROVE  HasSection(ini, m)
        BY <2>5 DEF HasSection
      <4>1. i \in 2 .. Len(q) + 1
        BY <2>3, <2>6, <3>1
      <4> QED BY <2>3, <4>1 DEF HasSection, q
    <3>3. ASSUME HasSection(ini, m)
          PROVE  HasSection(found, m) /\ SectionNamed(found, m) = SectionNamed(ini, m)
      <4> DEFINE i == FindSection(ini, m)
      <4>1. /\ i \in 1 .. Len(q) /\ q[i].name = m
            /\ \A j \in 1 .. Len(q) : q[j].name = m => i <= j
        BY <2>3, <3>3, FirstSection DEF SectionNamed, q
      <4> HIDE DEF i
      <4>2. i + 1 \in DOMAIN p /\ p[i + 1] = q[i]
        BY <2>3, <2>6, <4>1
      <4>3. ASSUME NEW j \in DOMAIN p, p[j].name = m
            PROVE  i + 1 <= j
        <5>1. j \in 2 .. Len(q) + 1
          BY <2>3, <2>6, <3>1, <4>3
        <5>2. i <= j - 1
          BY <2>3, <4>1, <4>3, <5>1
        <5> QED BY <2>6, <4>1, <5>1, <5>2
      <4>4. FindSection(found, m) = i + 1
        BY <2>5, <4>1, <4>2, <4>3, SectionIsFirst
      <4> QED BY <2>5, <4>1, <4>2, <4>4 DEF HasSection, SectionNamed, i, q
    <3> QED BY <3>2, <3>3
  <2> QED BY <1>2, <2>5, <2>7, <2>8 DEF found
<1> QED BY <1>1, <1>2

LEMMA KeyCreated ==
    ASSUME NEW T, HasEmpty(T), NEW s \in SectionsOver(T), NEW k \in T
    PROVE  LET found == WithKey(s, k)
           IN  /\ found \in SectionsOver(T)
               /\ found.name = s.name
               /\ HasKey(found, k)
               /\ HasKey(s, k) => found = s
               /\ ~HasKey(s, k) => KeyNamed(found, k) = NewKey(k)
               /\ \A m : m # k =>
                     /\ HasKey(found, m) <=> HasKey(s, m)
                     /\ HasKey(s, m) => KeyNamed(found, m) = KeyNamed(s, m)
<1>1. CASE HasKey(s, k)
  BY <1>1 DEF WithKey
<1>2. CASE ~HasKey(s, k)
  <2> DEFINE found == WithKey(s, k)
             q == s.keys
             p == <<NewKey(k)>> \o q
  <2>1. q \in Seq(KeysOver(T)) /\ NewKey(k) \in KeysOver(T) /\ NewKey(k).key = k
    BY NewKeyTyped DEF SectionsOver
  <2>2. /\ p \in Seq(KeysOver(T))
        /\ DOMAIN q = 1 .. Len(q) /\ DOMAIN p = 1 .. Len(q) + 1
        /\ p[1] = NewKey(k)
        /\ \A i \in 1 .. Len(q) : p[i + 1] = q[i]
        /\ \A i \in 2 .. Len(q) + 1 : i - 1 \in 1 .. Len(q) /\ p[i] = q[i - 1]
    BY <2>1, Pushed
  <2>3. found = [s EXCEPT !.keys = p]
    BY <1>2 DEF WithKey
  <2>4. found \in SectionsOver(T) /\ found.keys = p /\ found.name = s.name
    BY <2>2, <2>3 DEF SectionsOver
  <2>5. Len(q) \in Nat
    BY <2>1
  <2> HIDE DEF found, p, q
  <2>6. HasKey(found, k) /\ KeyNamed(found, k) = NewKey(k)
    <3>1. 1 \in DOMAIN p /\ p[1].key = k /\ \A j \in DOMAIN p : 1 <= j
      BY <2>1, <2>2, <2>5
    <3>2. FindKey(found, k) = 1
      BY <2>4, <3>1, KeyIsFirst
    <3> QED BY <2>2, <2>4, <3>1, <3>2 DEF HasKey, KeyNamed
  <2>7. ASSUME NEW m, m # k
        PROVE  /\ HasKey(found, m) <=> HasKey(s, m)
               /\ HasKey(s, m) => KeyNamed(found, m) = KeyNamed(s, m)
    <3>1. p[1].key # m
      BY <2>1, <2>2, <2>7
    <3>2. HasKey(found, m) => HasKey(s, m)
      <4> SUFFICES ASSUME NEW i \in DOMAIN p, p[i].key = m
                   PROVE  HasKey(s, m)
        BY <2>4 DEF HasKey
      <4>1. i \in 2 .. Len(q) + 1
        BY <2>2, <2>5, <3>1
      <4> QED BY <2>2, <4>1 DEF HasKey, q
    <3>3. ASSUME HasKey(s, m)
          PROVE  HasKey(found, m) /\ KeyNamed(found, m) = KeyNamed(s, m)
      <4> DEFINE i == FindKey(s, m)
      <4>1. /\ i \in 1 .. Len(q) /\ q[i].key = m
            /\ \A j \in 1 .. Len(q) : q[j].key = m => i <= j
        BY <2>2, <3>3, FirstKey DEF KeyNamed, q
      <4> HIDE DEF i
      <4>2. i + 1 \in DOMAIN p /\ p[i + 1] = q[i]
        BY <2>2, <2>5, <4>1
      <4>3. ASSUME NEW j \in DOMAIN p, p[j].key = m
            PROVE  i + 1 <= j
        <5>1. j \in 2 .. Len(q) + 1
          BY <2>2, <2>5, <3>1, <4>3
        <5>2. i <= j - 1
          BY <2>2, <4>1, <4>3, <5>1
        <5> QED BY <2>5, <4>1, <5>1, <5>2
      <4>4. FindKey(found, m) = i + 1
        BY <2>4, <4>1, <4>2, <4>3, KeyIsFirst
      <4> QED BY <2>4, <4>1, <4>2, <4>4 DEF HasKey, KeyNamed, i, q
    <3> QED BY <3>2, <3>3
  <2> QED BY <1>2, <2>4, <2>6, <2>7 DEF found
<1> QED BY <1>1, <1>2

-----------------------------------------------------------------------------
(* ini_set writes the value of the first such key of the first such        *)
(* section.                                                                *)

\* Another section in the place of one of the same name.
LEMMA SectionReplaced ==
    ASSUME NEW T, NEW ini \in Structures(T), NEW n, HasSection(ini, n),
           NEW s \in SectionsOver(T), s.name = n
    PROVE  LET new == [ini EXCEPT !.sections[FindSection(ini, n)] = s]
           IN  /\ new \in Structures(T)
               /\ \A m : HasSection(new, m) <=> HasSection(ini, m)
               /\ SectionNamed(new, n) = s
               /\ \A m : m # n /\ HasSection(ini, m) =>
                       SectionNamed(new, m) = SectionNamed(ini, m)
<1> DEFINE x == FindSection(ini, n)
           q == ini.sections
           new == [ini EXCEPT !.sections[x] = s]
<1>1. q \in Seq(SectionsOver(T)) /\ x \in DOMAIN q /\ q[x].name = n
  BY FirstSection DEF Structures, SectionNamed
<1>2. /\ [q EXCEPT ![x] = s] \in Seq(SectionsOver(T))
      /\ DOMAIN [q EXCEPT ![x] = s] = DOMAIN q
  BY <1>1
<1>3. new \in Structures(T) /\ new.sections = [q EXCEPT ![x] = s]
  BY <1>2 DEF Structures
<1> HIDE DEF new, x, q
<1>4. /\ DOMAIN new.sections = DOMAIN q /\ new.sections[x] = s
      /\ \A i \in DOMAIN q : /\ i # x => new.sections[i] = q[i]
                             /\ new.sections[i].name = q[i].name
  BY <1>1, <1>2, <1>3
<1>5. ASSUME NEW m
      PROVE  HasSection(new, m) <=> HasSection(ini, m)
  BY <1>4 DEF HasSection, q
<1>6. ASSUME NEW m, HasSection(ini, m)
      PROVE  FindSection(new, m) = FindSection(ini, m) /\ FindSection(ini, m) \in DOMAIN q
  <2> DEFINE i == FindSection(ini, m)
  <2>1. /\ i \in DOMAIN q /\ q[i].name = m
        /\ \A j \in DOMAIN q : q[j].name = m => i <= j
    BY <1>6, FirstSection DEF SectionNamed, q
  <2> HIDE DEF i
  <2>2. /\ i \in DOMAIN new.sections /\ new.sections[i].name = m
        /\ \A j \in DOMAIN new.sections : new.sections[j].name = m => i <= j
    BY <1>4, <2>1
  <2>3. FindSection(new, m) = i
    BY <1>3, <2>2, SectionIsFirst
  <2> QED BY <2>1, <2>3 DEF i
<1>7. SectionNamed(new, n) = s
  BY <1>4, <1>6 DEF SectionNamed, x
<1>8. ASSUME NEW m, m # n, HasSection(ini, m)
      PROVE  SectionNamed(new, m) = SectionNamed(ini, m)
  <2>1. FindSection(ini, m) # x
    BY <1>1, <1>8, FirstSection DEF SectionNamed, q
  <2> QED BY <1>4, <1>6, <1>8, <2>1 DEF SectionNamed, q
<1> QED BY <1>3, <1>5, <1>7, <1>8 DEF new, x

\* Another value in the place of a key's.
LEMMA ValueReplaced ==
    ASSUME NEW T, NEW s \in SectionsOver(T), NEW k, HasKey(s, k), NEW v \in T
    PROVE  LET new == [s EXCEPT !.keys[FindKey(s, k)].value = v]
           IN  /\ new \in SectionsOver(T) /\ new.name = s.name
               /\ \A m : HasKey(new, m) <=> HasKey(s, m)
               /\ KeyNamed(new, k) = [KeyNamed(s, k) EXCEPT !.value = v]
               /\ \A m : m # k /\ HasKey(s, m) => KeyNamed(new, m) = KeyNamed(s, m)
<1> DEFINE x == FindKey(s, k)
           q == s.keys
           e == [q[x] EXCEPT !.value = v]
           new == [s EXCEPT !.keys[x].value = v]
<1>1. q \in Seq(KeysOver(T)) /\ x \in DOMAIN q /\ q[x].key = k
  BY FirstKey DEF SectionsOver, KeyNamed
<1>2. e \in KeysOver(T) /\ e.key = k
  <2>1. q[x] \in KeysOver(T)
    BY <1>1
  <2>2. \A old \in KeysOver(T) :
           [old EXCEPT !.value = v] \in KeysOver(T) /\ [old EXCEPT !.value = v].key = old.key
    BY DEF KeysOver
  <2> QED BY <1>1, <2>1, <2>2
<1>3. new = [s EXCEPT !.keys = [q EXCEPT ![x] = e]]
  OBVIOUS
<1> HIDE DEF e
<1>4. /\ [q EXCEPT ![x] = e] \in Seq(KeysOver(T))
      /\ DOMAIN [q EXCEPT ![x] = e] = DOMAIN q
  BY <1>1, <1>2
<1>5. /\ new \in SectionsOver(T) /\ new.name = s.name
      /\ new.keys = [q EXCEPT ![x] = e]
  BY <1>3, <1>4 DEF SectionsOver
<1> HIDE DEF new, x, q
<1>6. /\ DOMAIN new.keys = DOMAIN q /\ new.keys[x] = e
      /\ \A i \in DOMAIN q : /\ i # x => new.keys[i] = q[i]
                             /\ new.keys[i].key = q[i].key
  BY <1>1, <1>2, <1>4, <1>5
<1>7. ASSUME NEW m
      PROVE  HasKey(new, m) <=> HasKey(s, m)
  BY <1>6 DEF HasKey, q
<1>8. ASSUME NEW m, HasKey(s, m)
      PROVE  FindKey(new, m) = FindKey(s, m) /\ FindKey(s, m) \in DOMAIN q
  <2> DEFINE i == FindKey(s, m)
  <2>1. /\ i \in DOMAIN q /\ q[i].key = m
        /\ \A j \in DOMAIN q : q[j].key = m => i <= j
    BY <1>8, FirstKey DEF KeyNamed, q
  <2> HIDE DEF i
  <2>2. /\ i \in DOMAIN new.keys /\ new.keys[i].key = m
        /\ \A j \in DOMAIN new.keys : new.keys[j].key = m => i <= j
    BY <1>6, <2>1
  <2>3. FindKey(new, m) = i
    BY <1>5, <2>2, KeyIsFirst
  <2> QED BY <2>1, <2>3 DEF i
<1>9. KeyNamed(new, k) = [KeyNamed(s, k) EXCEPT !.value = v]
  BY <1>6, <1>8 DEF KeyNamed, x, e, q
<1>10. ASSUME NEW m, m # k, HasKey(s, m)
       PROVE  KeyNamed(new, m) = KeyNamed(s, m)
  <2>1. FindKey(s, m) # x
    BY <1>1, <1>10, FirstKey DEF KeyNamed, q
  <2> QED BY <1>6, <1>8, <1>10, <2>1 DEF KeyNamed, q
<1> QED BY <1>5, <1>7, <1>9, <1>10 DEF new, x

\* ini_get after ini_set: the entry that was set, created if need be, has the
\* value and the comments it had; every other entry is there, with its value
\* and comments, exactly if it was; the structure stays one.  It holds also of
\* structures that name a section or a key twice.
THEOREM GetAfterSet ==
    ASSUME NEW T, HasEmpty(T), NEW ini \in Structures(T), NEW n \in T, NEW k \in T, NEW v \in T
    PROVE  LET new == Set(ini, n, k, v)
               old == IF Has(ini, n, k) THEN Entry(ini, n, k) ELSE NewKey(k)
           IN  /\ new \in Structures(T)
               /\ Has(new, n, k) /\ Entry(new, n, k) = [old EXCEPT !.value = v]
               /\ \A m, l : ~(m = n /\ l = k) =>
                     /\ Has(new, m, l) <=> Has(ini, m, l)
                     /\ Has(ini, m, l) => Entry(new, m, l) = Entry(ini, m, l)
<1> DEFINE found == WithSection(ini, n)
           s0    == SectionNamed(found, n)
           s1    == WithKey(s0, k)
           s2    == [s1 EXCEPT !.keys[FindKey(s1, k)].value = v]
           new   == Set(ini, n, k, v)
<1>1. /\ found \in Structures(T) /\ HasSection(found, n)
      /\ HasSection(ini, n) => found = ini
      /\ ~HasSection(ini, n) => s0 = NewSection(n)
      /\ \A m : m # n =>
            /\ HasSection(found, m) <=> HasSection(ini, m)
            /\ HasSection(ini, m) => SectionNamed(found, m) = SectionNamed(ini, m)
  BY SectionCreated
<1> HIDE DEF found
<1>2. s0 \in SectionsOver(T) /\ s0.name = n
  BY <1>1, FirstSection
<1> HIDE DEF s0
<1>3. /\ s1 \in SectionsOver(T) /\ s1.name = n /\ HasKey(s1, k)
      /\ HasKey(s0, k) => s1 = s0
      /\ ~HasKey(s0, k) => KeyNamed(s1, k) = NewKey(k)
      /\ \A l : l # k =>
            /\ HasKey(s1, l) <=> HasKey(s0, l)
            /\ HasKey(s0, l) => KeyNamed(s1, l) = KeyNamed(s0, l)
  BY <1>2, KeyCreated
<1> HIDE DEF s1
<1>4. /\ s2 \in SectionsOver(T) /\ s2.name = n
      /\ \A l : HasKey(s2, l) <=> HasKey(s1, l)
      /\ KeyNamed(s2, k) = [KeyNamed(s1, k) EXCEPT !.value = v]
      /\ \A l : l # k /\ HasKey(s1, l) => KeyNamed(s2, l) = KeyNamed(s1, l)
  BY <1>3, ValueReplaced, SMTT(30)
<1>5. new = [found EXCEPT !.sections[FindSection(found, n)] = s2]
  BY DEF Set, found, s0, s1, SectionNamed
<1> HIDE DEF s2, new
<1>6. /\ new \in Structures(T)
      /\ \A m : HasSection(new, m) <=> HasSection(found, m)
      /\ SectionNamed(new, n) = s2
      /\ \A m : m # n /\ HasSection(found, m) =>
              SectionNamed(new, m) = SectionNamed(found, m)
  BY <1>1, <1>4, <1>5, SectionReplaced, SMTT(30)
<1>7. \A l : Has(ini, n, l) <=> HasKey(s0, l)
  <2>1. CASE HasSection(ini, n)
    BY <1>1, <2>1 DEF Has, s0, SectionNamed
  <2>2. CASE ~HasSection(ini, n)
    BY <1>1, <2>2 DEF Has, HasKey, NewSection
  <2> QED BY <2>1, <2>2
<1>8. \A l : Has(ini, n, l) => Entry(ini, n, l) = KeyNamed(s0, l)
  BY <1>1 DEF Has, Entry, KeyNamed, SectionNamed, s0
<1>9. \A l : /\ Has(new, n, l) <=> HasKey(s2, l)
            /\ Entry(new, n, l) = KeyNamed(s2, l)
  BY <1>1, <1>6 DEF Has, Entry, KeyNamed, SectionNamed
<1>10. /\ Has(new, n, k)
       /\ Entry(new, n, k) = [IF Has(ini, n, k) THEN Entry(ini, n, k) ELSE NewKey(k)
                                EXCEPT !.value = v]
  BY <1>3, <1>4, <1>7, <1>8, <1>9
<1>11. ASSUME NEW m, NEW l, ~(m = n /\ l = k)
       PROVE  /\ Has(new, m, l) <=> Has(ini, m, l)
              /\ Has(ini, m, l) => Entry(new, m, l) = Entry(ini, m, l)
  <2>1. CASE m = n
    BY <1>3, <1>4, <1>7, <1>8, <1>9, <1>11, <2>1
  <2>2. CASE m # n
    BY <1>1, <1>6, <2>2 DEF Has, Entry, SectionNamed
  <2> QED BY <2>1, <2>2
<1> QED BY <1>6, <1>10, <1>11 DEF new

-----------------------------------------------------------------------------
(* What a caller learns: the entries.                                      *)

\* The entries that can be read are those that ini_get finds.
LEMMA ReadableIs ==
    ASSUME NEW T, NEW ini \in Structures(T)
    PROVE  /\ \A m, l : <<m, l>> \in Readable(ini) <=> Has(ini, m, l)
           /\ \A q \in Readable(ini) : q = <<q[1], q[2]>>
<1>1. ASSUME NEW m, NEW l, Has(ini, m, l)
      PROVE  <<m, l>> \in Names(ini)
  <2> DEFINE i == FindSection(ini, m)
             j == FindKey(ini.sections[i], l)
  <2>1. i \in DOMAIN ini.sections /\ ini.sections[i].name = m
        /\ ini.sections[i] \in SectionsOver(T)
    BY <1>1, FirstSection DEF Has, SectionNamed
  <2>2. j \in DOMAIN ini.sections[i].keys /\ ini.sections[i].keys[j].key = l
    BY <1>1, <2>1, FirstKey DEF Has, KeyNamed
  <2> HIDE DEF i, j
  <2> QED BY <2>1, <2>2 DEF Names
<1>2. \A q \in Names(ini) : q = <<q[1], q[2]>>
  BY DEF Names
<1> QED BY <1>1, <1>2 DEF Readable

\* In a structure without duplicates every key of a section is the entry that
\* ini_get finds ...
LEMMA FoundWhereItIs ==
    ASSUME NEW T, NEW ini \in Structures(T), NoDuplicates(ini),
           NEW i \in DOMAIN ini.sections, NEW j \in DOMAIN ini.sections[i].keys
    PROVE  LET q == <<ini.sections[i].name, ini.sections[i].keys[j].key>>
           IN  q \in DOMAIN Lookups(ini) /\ Lookups(ini)[q] = ini.sections[i].keys[j]
<1> DEFINE s == ini.sections[i]
           k == s.keys[j].key
<1>1. /\ ini.sections \in Seq(SectionsOver(T)) /\ s \in SectionsOver(T)
      /\ s.keys \in Seq(KeysOver(T))
  <2>1. ini.sections \in Seq(SectionsOver(T))
    BY DEF Structures
  <2>2. s \in SectionsOver(T)
    BY <2>1
  <2>3. s.keys \in Seq(KeysOver(T))
    BY <2>2 DEF SectionsOver
  <2> QED BY <2>1, <2>2, <2>3
<1>2. FindSection(ini, s.name) = i
  BY <1>1, SectionIsFirst DEF NoDuplicates
<1>3. FindKey(s, k) = j
  BY <1>1, KeyIsFirst DEF NoDuplicates
<1>4. Has(ini, s.name, k)
  BY <1>2 DEF Has, HasSection, HasKey
<1>5. Entry(ini, s.name, k) = s.keys[j]
  BY <1>2, <1>3 DEF Entry
<1>6. <<s.name, k>> \in Readable(ini)
  BY <1>4, ReadableIs
<1> QED BY <1>5, <1>6 DEF Lookups

\* ... and every entry that ini_get finds is in some section.
LEMMA EntryIsSomewhere ==
    ASSUME NEW T, NEW ini \in Structures(T), NEW q \in DOMAIN Lookups(ini)
    PROVE  \E i \in DOMAIN ini.sections : \E j \in DOMAIN ini.sections[i].keys :
              /\ q = <<ini.sections[i].name, ini.sections[i].keys[j].key>>
              /\ Lookups(ini)[q] = ini.sections[i].keys[j]
<1>1. q = <<q[1], q[2]>> /\ Has(ini, q[1], q[2])
  BY ReadableIs DEF Lookups
<1> DEFINE i == FindSection(ini, q[1])
           j == FindKey(ini.sections[i], q[2])
<1>2. /\ i \in DOMAIN ini.sections /\ ini.sections[i].name = q[1]
      /\ ini.sections[i] \in SectionsOver(T)
  BY <1>1, FirstSection DEF Has, SectionNamed
<1>3. j \in DOMAIN ini.sections[i].keys /\ ini.sections[i].keys[j].key = q[2]
  BY <1>1, <1>2, FirstKey DEF Has, KeyNamed
<1>4. Lookups(ini)[q] = ini.sections[i].keys[j]
  BY DEF Lookups, Entry
<1> QED BY <1>1, <1>2, <1>3, <1>4

\* Setting a value names nothing twice.
KeysOnce(s) == \A j, k \in DOMAIN s.keys : s.keys[j].key = s.keys[k].key => j = k

LEMMA SectionOnce ==
    ASSUME NEW T, NEW ini \in Structures(T), NoDuplicates(ini), NEW n \in T
    PROVE  NoDuplicates(WithSection(ini, n))
<1>1. CASE HasSection(ini, n)
  BY <1>1 DEF WithSection
<1>2. CASE ~HasSection(ini, n)
  <2> DEFINE q == ini.sections
             p == <<NewSection(n)>> \o q
             found == WithSection(ini, n)
  <2>1. q \in Seq(SectionsOver(T)) /\ NewSection(n) \in SectionsOver(T)
    BY NewSectionTyped DEF Structures
  <2>2. /\ p \in Seq(SectionsOver(T))
        /\ DOMAIN q = 1 .. Len(q) /\ DOMAIN p = 1 .. Len(q) + 1
        /\ p[1] = NewSection(n)
        /\ \A i \in 1 .. Len(q) : p[i + 1] = q[i]
        /\ \A i \in 2 .. Len(q) + 1 : i - 1 \in 1 .. Len(q) /\ p[i] = q[i - 1]
    BY <2>1, Pushed
  <2>3. found = [ini EXCEPT !.sections = p]
    BY <1>2 DEF WithSection, CreateSection
  <2>4. found.sections = p
    BY <2>3 DEF Structures
  <2>5. NewSection(n).name = n /\ NewSection(n).keys = <<>>
    BY DEF NewSection
  <2>6. /\ \A i \in DOMAIN q : q[i].name # n
        /\ \A i, j \in DOMAIN q : q[i].name = q[j].name => i = j
        /\ \A i \in DOMAIN q : KeysOnce(q[i])
    BY <1>2 DEF HasSection, NoDuplicates, KeysOnce
  <2>7. Len(q) \in Nat
    BY <2>1
  <2> HIDE DEF found, p, q
  <2>8. \A i \in DOMAIN p : i = 1 \/ (i \in 2 .. Len(q) + 1 /\ i - 1 \in DOMAIN q /\ p[i] = q[i - 1])
    BY <2>2, <2>7
  <2>9. ASSUME NEW i \in DOMAIN p, NEW j \in DOMAIN p, p[i].name = p[j].name
        PROVE  i = j
    <3>1. CASE i = 1 \/ j = 1
      BY <2>2, <2>5, <2>6, <2>8, <2>9, <3>1
    <3>2. CASE i # 1 /\ j # 1
      <4>1. i - 1 = j - 1
        BY <2>6, <2>8, <2>9, <3>2
      <4> QED BY <2>2, <2>7, <4>1
    <3> QED BY <3>1, <3>2
  <2>10. ASSUME NEW i \in DOMAIN p
         PROVE  KeysOnce(p[i])
    <3>1. KeysOnce(NewSection(n))
      BY <2>5 DEF KeysOnce
    <3> QED BY <2>2, <2>6, <2>8, <3>1
  <2> QED BY <2>4, <2>9, <2>10 DEF NoDuplicates, KeysOnce, found
<1> QED BY <1>1, <1>2

LEMMA KeyOnce ==
    ASSUME NEW T, HasEmpty(T), NEW s \in SectionsOver(T), KeysOnce(s), NEW k \in T
    PROVE  KeysOnce(WithKey(s, k))
<1>1. CASE HasKey(s, k)
  BY <1>1 DEF WithKey
<1>2. CASE ~HasKey(s, k)
  <2> DEFINE q == s.keys
             p == <<NewKey(k)>> \o q
             found == WithKey(s, k)
  <2>1. q \in Seq(KeysOver(T)) /\ NewKey(k) \in KeysOver(T) /\ NewKey(k).key = k
    BY NewKeyTyped DEF SectionsOver
  <2>2. /\ p \in Seq(KeysOver(T))
        /\ DOMAIN q = 1 .. Len(q) /\ DOMAIN p = 1 .. Len(q) + 1
        /\ p[1] = NewKey(k)
        /\ \A i \in 1 .. Len(q) : p[i + 1] = q[i]
        /\ \A i \in 2 .. Len(q) + 1 : i - 1 \in 1 .. Len(q) /\ p[i] = q[i - 1]
    BY <2>1, Pushed
  <2>3. found.keys = p
    BY <1>2 DEF WithKey, SectionsOver
  <2>4. /\ \A i \in DOMAIN q : q[i].key # k
        /\ \A i, j \in DOMAIN q : q[i].key = q[j].key => i = j
    BY <1>2 DEF HasKey, KeysOnce
  <2>5. Len(q) \in Nat
    BY <2>1
  <2> HIDE DEF found, p, q
  <2>6. \A i \in DOMAIN p : i = 1 \/ (i \in 2 .. Len(q) + 1 /\ i - 1 \in DOMAIN q /\ p[i] = q[i - 1])
    BY <2>2, <2>5
  <2>7. ASSUME NEW i \in DOMAIN p, NEW j \in DOMAIN p, p[i].key = p[j].key
        PROVE  i = j
    <3>1. CASE i = 1 \/ j = 1
      BY <2>1, <2>2, <2>4, <2>6, <2>7, <3>1
    <3>2. CASE i # 1 /\ j # 1
      <4>1. i - 1 = j - 1
        BY <2>4, <2>6, <2>7, <3>2
      <4> QED BY <2>2, <2>5, <4>1
    <3> QED BY <3>1, <3>2
  <2> QED BY <2>3, <2>7 DEF KeysOnce, found
<1> QED BY <1>1, <1>2

LEMMA SetOnce ==
    ASSUME NEW T, HasEmpty(T), NEW ini \in Structures(T), NoDuplicates(ini),
           NEW n \in T, NEW k \in T, NEW v \in T
    PROVE  NoDuplicates(Set(ini, n, k, v))
<1> DEFINE found == WithSection(ini, n)
           x     == FindSection(found, n)
           s0    == found.sections[x]
           s1    == WithKey(s0, k)
           y     == FindKey(s1, k)
           s2    == [s1 EXCEPT !.keys[y].value = v]
           new   == Set(ini, n, k, v)
<1>1. /\ found \in Structures(T) /\ HasSection(found, n)
      /\ HasSection(ini, n) => found = ini
      /\ ~HasSection(ini, n) => SectionNamed(found, n) = NewSection(n)
      /\ \A m : m # n =>
            /\ HasSection(found, m) <=> HasSection(ini, m)
            /\ HasSection(ini, m) => SectionNamed(found, m) = SectionNamed(ini, m)
  BY SectionCreated
<1>2. NoDuplicates(found)
  BY SectionOnce
<1> HIDE DEF found
<1>3. /\ x \in DOMAIN found.sections /\ s0 \in SectionsOver(T) /\ s0.name = n
      /\ found.sections \in Seq(SectionsOver(T))
  BY <1>1, FirstSection DEF SectionNamed, Structures
<1>4. KeysOnce(s0)
  BY <1>2, <1>3 DEF NoDuplicates, KeysOnce
<1>5. new = [found EXCEPT !.sections[x] = s2]
  BY DEF Set, found, s0, s1
<1> HIDE DEF s0
<1>6. /\ s1 \in SectionsOver(T) /\ s1.name = n /\ HasKey(s1, k)
      /\ HasKey(s0, k) => s1 = s0
      /\ ~HasKey(s0, k) => KeyNamed(s1, k) = NewKey(k)
      /\ \A l : l # k =>
            /\ HasKey(s1, l) <=> HasKey(s0, l)
            /\ HasKey(s0, l) => KeyNamed(s1, l) = KeyNamed(s0, l)
  BY <1>3, KeyCreated
<1>7. KeysOnce(s1)
  BY <1>3, <1>4, KeyOnce
<1> HIDE DEF s1
<1>8. KeysOnce(s2) /\ s2.name = n
  <2> DEFINE q == s1.keys
             e == [q[y] EXCEPT !.value = v]
  <2>1. q \in Seq(KeysOver(T)) /\ y \in DOMAIN q /\ q[y] \in KeysOver(T)
    BY <1>6, FirstKey DEF SectionsOver, KeyNamed
  <2>2. e.key = q[y].key
    BY <2>1 DEF KeysOver
  <2>3. s2 = [s1 EXCEPT !.keys = [q EXCEPT ![y] = e]]
    OBVIOUS
  <2> HIDE DEF e
  <2>4. s2.keys = [q EXCEPT ![y] = e] /\ s2.name = n
    BY <1>6, <2>3 DEF SectionsOver
  <2> HIDE DEF s2
  <2>5. DOMAIN s2.keys = DOMAIN q /\ \A j \in DOMAIN q : s2.keys[j].key = q[j].key
    BY <2>1, <2>2, <2>4
  <2> QED BY <1>7, <2>4, <2>5 DEF KeysOnce
<1> HIDE DEF s2, x
<1>9. new.sections = [found.sections EXCEPT ![x] = s2]
  BY <1>1, <1>5 DEF Structures
<1> HIDE DEF new
<1> DEFINE q == found.sections
           p == new.sections
<1>10. /\ DOMAIN p = DOMAIN q
       /\ \A i \in DOMAIN q : p[i].name = q[i].name /\ KeysOnce(p[i])
  <2>1. \A i \in DOMAIN q : KeysOnce(q[i])
    BY <1>2 DEF NoDuplicates, KeysOnce
  <2>2. q[x].name = n
    BY <1>3 DEF s0
  <2> HIDE DEF q
  <2> QED BY <1>3, <1>8, <1>9, <2>1, <2>2 DEF q
<1>11. \A i, j \in DOMAIN q : q[i].name = q[j].name => i = j
  BY <1>2 DEF NoDuplicates
<1> QED BY <1>10, <1>11 DEF NoDuplicates, KeysOnce, new

=============================================================================
