--------------------------- MODULE FtpPathsProofs ---------------------------
(***************************************************************************)
(* What holds of FtpPaths for all clients, arguments and file systems: the *)
(* file system stays a tree whatever is removed or renamed (TypeCorrect),  *)
(* a working directory stays a directory (WorkingDirectoryStays), an       *)
(* undisturbed listing is exact (ListingIsExact), and the texts stand for  *)
(* nodes as FtpDirectory promises (TextsStandForNodes).                    *)
(***************************************************************************)
EXTENDS FtpPaths, SequenceTheorems, WellFoundedInduction, TLAPS

-----------------------------------------------------------------------------
(* Sequences.                                                              *)

\* The parent of a node, name by name.
LEMMA FrontOf ==
    ASSUME NEW S, NEW n \in Seq(S), n # Root
    PROVE  /\ Parent(n) \in Seq(S)
           /\ Len(Parent(n)) = Len(n) - 1
           /\ \A i \in 1 .. Len(n) - 1 : Parent(n)[i] = n[i]
<1>1. PICK d \in Nat : d = Len(n) - 1
  BY DEF Root
<1>2. Parent(n) = SubSeq(n, 1, d)
  BY <1>1 DEF Parent, Front
<1>3. \A i \in 1 .. d : n[i] \in S
  BY <1>1
<1>4. /\ SubSeq(n, 1, d) \in Seq(S)
      /\ Len(SubSeq(n, 1, d)) = IF 1 <= d THEN d - 1 + 1 ELSE 0
      /\ \A i \in 1 .. d - 1 + 1 : SubSeq(n, 1, d)[i] = n[1 + i - 1]
  BY <1>3, SubSeqProperties
<1>5. \A i \in 1 .. d : SubSeq(n, 1, d)[i] = n[i]
  BY <1>4
<1> QED BY <1>1, <1>2, <1>4, <1>5

\* A prefix, name by name.
LEMMA PrefixOf ==
    ASSUME NEW S, NEW m \in Seq(S), NEW n \in Seq(S)
    PROVE  IsPrefix(m, n) <=> Len(m) <= Len(n) /\ \A i \in 1 .. Len(m) : m[i] = n[i]
<1>1. ASSUME Len(m) <= Len(n)
      PROVE  /\ SubSeq(m, 1, Len(m)) = [i \in 1 .. Len(m) |-> m[i]]
             /\ SubSeq(n, 1, Len(m)) = [i \in 1 .. Len(m) |-> n[i]]
  BY <1>1
<1>2. ASSUME Len(m) <= Len(n)
      PROVE  SubSeq(m, 1, Len(m)) = SubSeq(n, 1, Len(m))
                <=> \A i \in 1 .. Len(m) : m[i] = n[i]
  BY <1>1, <1>2
<1> QED BY <1>2 DEF IsPrefix

\* What lies below the parent of a node lies below nothing the node does not.
LEMMA PrefixOfParent ==
    ASSUME NEW S, NEW m \in Seq(S), NEW n \in Seq(S), n # Root
    PROVE  /\ IsPrefix(m, Parent(n)) => IsPrefix(m, n)
           /\ IsPrefix(m, n) /\ m # n => IsPrefix(m, Parent(n))
           /\ ~IsPrefix(n, Parent(n))
<1>1. /\ Parent(n) \in Seq(S)
      /\ Len(Parent(n)) = Len(n) - 1
      /\ \A i \in 1 .. Len(n) - 1 : Parent(n)[i] = n[i]
  BY FrontOf
<1>2. Len(n) # 0
  BY DEF Root
<1>3. IsPrefix(m, n) <=> Len(m) <= Len(n) /\ \A i \in 1 .. Len(m) : m[i] = n[i]
  BY PrefixOf
<1>4. IsPrefix(m, Parent(n)) <=>
         Len(m) <= Len(Parent(n)) /\ \A i \in 1 .. Len(m) : m[i] = Parent(n)[i]
  BY <1>1, PrefixOf
<1>5. IsPrefix(n, Parent(n)) => Len(n) <= Len(Parent(n))
  BY DEF IsPrefix
<1>6. ASSUME IsPrefix(m, Parent(n))
      PROVE  IsPrefix(m, n)
  <2>1. Len(m) <= Len(n) - 1 /\ \A i \in 1 .. Len(m) : m[i] = Parent(n)[i]
    BY <1>1, <1>4, <1>6
  <2>2. \A i \in 1 .. Len(m) : m[i] = n[i]
    BY <1>1, <2>1
  <2> QED BY <1>3, <2>1, <2>2
<1>7. ASSUME IsPrefix(m, n), m # n
      PROVE  IsPrefix(m, Parent(n))
  <2>1. Len(m) <= Len(n) /\ \A i \in 1 .. Len(m) : m[i] = n[i]
    BY <1>3, <1>7
  <2>2. Len(m) # Len(n)
    BY <2>1, <1>7, SeqEqual
  <2>3. Len(m) <= Len(Parent(n))
    BY <1>1, <2>1, <2>2
  <2>4. \A i \in 1 .. Len(m) : m[i] = Parent(n)[i]
    BY <1>1, <2>1, <2>3
  <2> QED BY <1>4, <2>3, <2>4
<1>8. ~IsPrefix(n, Parent(n))
  BY <1>1, <1>5
<1> QED BY <1>6, <1>7, <1>8

\* The names beneath a node, one by one.
LEMMA BeneathOf ==
    ASSUME NEW S, NEW n \in Seq(S), NEW m \in Seq(S), Len(n) <= Len(m)
    PROVE  /\ Beneath(n, m) \in Seq(S)
           /\ Len(Beneath(n, m)) = Len(m) - Len(n)
           /\ \A i \in 1 .. Len(m) - Len(n) : Beneath(n, m)[i] = m[Len(n) + i]
<1>1. \A i \in Len(n) + 1 .. Len(m) : m[i] \in S
  OBVIOUS
<1>2. /\ SubSeq(m, Len(n) + 1, Len(m)) \in Seq(S)
      /\ Len(SubSeq(m, Len(n) + 1, Len(m))) =
            IF Len(n) + 1 <= Len(m) THEN Len(m) - (Len(n) + 1) + 1 ELSE 0
      /\ \A i \in 1 .. Len(m) - (Len(n) + 1) + 1 :
            SubSeq(m, Len(n) + 1, Len(m))[i] = m[Len(n) + 1 + i - 1]
  BY <1>1, SubSeqProperties
<1> QED BY <1>2 DEF Beneath

\* A prefix and what is beneath it make the node.
LEMMA PrefixAndBeneath ==
    ASSUME NEW S, NEW n \in Seq(S), NEW m \in Seq(S), IsPrefix(n, m)
    PROVE  n \o Beneath(n, m) = m
<1>1. Len(n) <= Len(m) /\ \A i \in 1 .. Len(n) : n[i] = m[i]
  BY PrefixOf
<1>2. /\ Beneath(n, m) \in Seq(S)
      /\ Len(Beneath(n, m)) = Len(m) - Len(n)
      /\ \A i \in 1 .. Len(m) - Len(n) : Beneath(n, m)[i] = m[Len(n) + i]
  BY <1>1, BeneathOf
<1>3. /\ n \o Beneath(n, m) \in Seq(S)
      /\ Len(n \o Beneath(n, m)) = Len(n) + Len(Beneath(n, m))
      /\ \A i \in 1 .. Len(n) + Len(Beneath(n, m)) :
            (n \o Beneath(n, m))[i] = IF i <= Len(n) THEN n[i] ELSE Beneath(n, m)[i - Len(n)]
  BY <1>2, ConcatProperties
<1>4. Len(n \o Beneath(n, m)) = Len(m)
  BY <1>2, <1>3
<1>5. \A i \in 1 .. Len(m) : (n \o Beneath(n, m))[i] = m[i]
  BY <1>1, <1>2, <1>3
<1> QED BY <1>3, <1>4, <1>5, SeqEqual

\* What a node k under from becomes when from is renamed to to, and back.
LEMMA MovedNode ==
    ASSUME NEW S, NEW from \in Seq(S), NEW to \in Seq(S), NEW k \in Seq(S),
           IsPrefix(from, k)
    PROVE  /\ to \o Beneath(from, k) \in Seq(S)
           /\ Len(to \o Beneath(from, k)) = Len(to) + Len(k) - Len(from)
           /\ IsPrefix(to, to \o Beneath(from, k))
           /\ Source(from, to, to \o Beneath(from, k)) = k
<1> DEFINE m == to \o Beneath(from, k)
<1>1. Len(from) <= Len(k)
  BY PrefixOf
<1>2. /\ Beneath(from, k) \in Seq(S)
      /\ Len(Beneath(from, k)) = Len(k) - Len(from)
  BY <1>1, BeneathOf
<1>3. /\ m \in Seq(S)
      /\ Len(m) = Len(to) + Len(Beneath(from, k))
      /\ \A i \in 1 .. Len(to) + Len(Beneath(from, k)) :
            m[i] = IF i <= Len(to) THEN to[i] ELSE Beneath(from, k)[i - Len(to)]
  BY <1>2, ConcatProperties
<1> HIDE DEF m
<1>4. IsPrefix(to, m)
  <2>1. Len(to) <= Len(m)
    BY <1>1, <1>2, <1>3
  <2>2. ASSUME NEW i \in 1 .. Len(to)
        PROVE  to[i] = m[i]
    <3>1. i \in 1 .. Len(to) + Len(Beneath(from, k)) /\ i <= Len(to)
      BY <1>1, <1>2
    <3> QED BY <1>3, <3>1
  <2> QED BY <1>3, <2>1, <2>2, PrefixOf
<1>5. Beneath(to, m) = Beneath(from, k)
  <2>1. Len(to) <= Len(m)
    BY <1>1, <1>2, <1>3
  <2>2. /\ Beneath(to, m) \in Seq(S)
        /\ Len(Beneath(to, m)) = Len(m) - Len(to)
        /\ \A i \in 1 .. Len(m) - Len(to) : Beneath(to, m)[i] = m[Len(to) + i]
    BY <1>3, <2>1, BeneathOf
  <2>3. Len(Beneath(to, m)) = Len(Beneath(from, k))
    BY <1>2, <1>3, <2>2
  <2>4. \A i \in 1 .. Len(Beneath(to, m)) : Beneath(to, m)[i] = Beneath(from, k)[i]
    BY <1>2, <1>3, <2>2
  <2> QED BY <1>2, <2>2, <2>3, <2>4, SeqEqual
<1>6. Source(from, to, m) = k
  BY <1>4, <1>5, PrefixAndBeneath DEF Source
<1> QED BY <1>1, <1>2, <1>3, <1>4, <1>6 DEF m

\* The parent of a moved node is the moved parent.
LEMMA MovedParent ==
    ASSUME NEW S, NEW from \in Seq(S), NEW to \in Seq(S), NEW k \in Seq(S),
           IsPrefix(from, k), k # from, k # Root
    PROVE  /\ to \o Beneath(from, k) # Root
           /\ IsPrefix(from, Parent(k))
           /\ Parent(to \o Beneath(from, k)) = to \o Beneath(from, Parent(k))
<1> DEFINE m == to \o Beneath(from, k)
           p == to \o Beneath(from, Parent(k))
<1>1. Len(from) <= Len(k) /\ \A i \in 1 .. Len(from) : from[i] = k[i]
  BY PrefixOf
<1>2. Len(from) # Len(k)
  BY <1>1
<1>3. /\ Parent(k) \in Seq(S)
      /\ Len(Parent(k)) = Len(k) - 1
      /\ \A i \in 1 .. Len(k) - 1 : Parent(k)[i] = k[i]
  BY FrontOf
<1>4. IsPrefix(from, Parent(k))
  BY PrefixOfParent
<1>5. /\ Beneath(from, k) \in Seq(S)
      /\ Len(Beneath(from, k)) = Len(k) - Len(from)
      /\ \A i \in 1 .. Len(k) - Len(from) : Beneath(from, k)[i] = k[Len(from) + i]
  BY <1>1, BeneathOf
<1>6. /\ Beneath(from, Parent(k)) \in Seq(S)
      /\ Len(Beneath(from, Parent(k))) = Len(Parent(k)) - Len(from)
      /\ \A i \in 1 .. Len(Parent(k)) - Len(from) :
            Beneath(from, Parent(k))[i] = Parent(k)[Len(from) + i]
  <2>1. Len(from) <= Len(Parent(k))
    BY <1>1, <1>2, <1>3
  <2> QED BY <1>3, <2>1, BeneathOf
<1>7. /\ m \in Seq(S)
      /\ Len(m) = Len(to) + Len(Beneath(from, k))
      /\ \A i \in 1 .. Len(to) + Len(Beneath(from, k)) :
            m[i] = IF i <= Len(to) THEN to[i] ELSE Beneath(from, k)[i - Len(to)]
  BY <1>5, ConcatProperties
<1>8. /\ p \in Seq(S)
      /\ Len(p) = Len(to) + Len(Beneath(from, Parent(k)))
      /\ \A i \in 1 .. Len(to) + Len(Beneath(from, Parent(k))) :
            p[i] = IF i <= Len(to) THEN to[i] ELSE Beneath(from, Parent(k))[i - Len(to)]
  BY <1>6, ConcatProperties
<1> HIDE DEF m, p
<1>9. Len(m) > 0 /\ Len(p) = Len(m) - 1
  BY <1>1, <1>2, <1>3, <1>5, <1>6, <1>7, <1>8
<1>10. m # Root
  BY <1>9 DEF Root
<1>11. /\ Parent(m) \in Seq(S)
       /\ Len(Parent(m)) = Len(m) - 1
       /\ \A i \in 1 .. Len(m) - 1 : Parent(m)[i] = m[i]
  BY <1>7, <1>10, FrontOf
<1>12. ASSUME NEW i \in 1 .. Len(p)
       PROVE  p[i] = m[i]
  <2>1. i \in 1 .. Len(to) + Len(Beneath(from, k)) /\ i \in 1 .. Len(to) + Len(Beneath(from, Parent(k)))
    BY <1>7, <1>8, <1>9
  <2>2. CASE i <= Len(to)
    BY <2>1, <2>2, <1>7, <1>8
  <2>3. CASE ~(i <= Len(to))
    <3>1. p[i] = Beneath(from, Parent(k))[i - Len(to)]
      BY <2>1, <2>3, <1>8
    <3>2. m[i] = Beneath(from, k)[i - Len(to)]
      BY <2>1, <2>3, <1>7
    <3>3. PICK j \in Int : j = i - Len(to)
      BY <2>1
    <3>4. /\ j \in 1 .. Len(Parent(k)) - Len(from)
          /\ j \in 1 .. Len(k) - Len(from)
          /\ Len(from) + j \in 1 .. Len(k) - 1
      BY <2>1, <2>3, <3>3, <1>3, <1>5, <1>6
    <3>5. Beneath(from, Parent(k))[j] = Parent(k)[Len(from) + j]
      BY <3>4, <1>6
    <3>6. Beneath(from, k)[j] = k[Len(from) + j]
      BY <3>4, <1>5
    <3>7. Parent(k)[Len(from) + j] = k[Len(from) + j]
      BY <3>4, <1>3
    <3> QED BY <3>1, <3>2, <3>3, <3>5, <3>6, <3>7
  <2> QED BY <2>2, <2>3
<1>13. Parent(m) = p
  BY <1>7, <1>8, <1>9, <1>11, <1>12, SeqEqual
<1> QED BY <1>4, <1>10, <1>13 DEF m, p

-----------------------------------------------------------------------------
(* The file system.                                                        *)

\* mkdir, or the open of a new file, makes a tree of a tree.
LEMMA MadeTree ==
    ASSUME NEW t, IsTree(t), NEW n, CanMake(t, n), NEW kind \in Kinds
    PROVE  IsTree(Made(t, n, kind))
<1>1. DOMAIN Made(t, n, kind) = DOMAIN t \cup {n}
  BY DEF Made
<1>2. \A m \in DOMAIN t : Made(t, n, kind)[m] = t[m]
  BY DEF Made, CanMake
<1>3. Made(t, n, kind)[n] = kind
  BY DEF Made
<1>4. Made(t, n, kind) \in [DOMAIN Made(t, n, kind) -> Kinds]
  BY DEF Made, IsTree
<1>5. \A m \in DOMAIN t : IsDir(t, m) => IsDir(Made(t, n, kind), m)
  BY <1>1, <1>2 DEF IsDir
<1>6. ASSUME NEW m \in DOMAIN t \cup {n}
      PROVE  IsDir(t, Parent(m))
  BY DEF IsTree, CanMake
<1>7. IsDir(Made(t, n, kind), Root)
  BY <1>5 DEF IsTree, IsDir
<1>8. ASSUME NEW m \in DOMAIN t \cup {n}
      PROVE  IsDir(Made(t, n, kind), Parent(m))
  BY <1>5, <1>6 DEF IsDir
<1> QED BY <1>1, <1>4, <1>7, <1>8 DEF IsTree

\* remove takes a node that is nobody's parent.
LEMMA RemovedTree ==
    ASSUME NEW t, IsTree(t), NEW n, CanRemove(t, n)
    PROVE  IsTree(Removed(t, n)) /\ DOMAIN Removed(t, n) \subseteq DOMAIN t
<1>1. DOMAIN Removed(t, n) = DOMAIN t \ {n}
  BY DEF Removed, Restrict
<1>2. \A m \in DOMAIN t \ {n} : Removed(t, n)[m] = t[m]
  BY DEF Removed, Restrict
<1>3. Removed(t, n) \in [DOMAIN Removed(t, n) -> Kinds]
  BY DEF Removed, Restrict, IsTree
<1>4. ASSUME NEW m \in DOMAIN t
      PROVE  Parent(m) # n
  BY DEF CanRemove, Children, Parent
<1>5. n # Root
  BY DEF CanRemove
<1>6. \A m \in DOMAIN t \ {n} : IsDir(t, m) => IsDir(Removed(t, n), m)
  BY <1>1, <1>2 DEF IsDir
<1>7. IsDir(Removed(t, n), Root)
  BY <1>5, <1>6 DEF IsTree, IsDir
<1>8. ASSUME NEW m \in DOMAIN t \ {n}
      PROVE  IsDir(Removed(t, n), Parent(m))
  <2>1. IsDir(t, Parent(m)) /\ Parent(m) # n
    BY <1>4 DEF IsTree
  <2> QED BY <2>1, <1>6 DEF IsDir
<1> QED BY <1>1, <1>3, <1>7, <1>8 DEF IsTree

\* rename moves a subtree under a directory that is not in it.
LEMMA RenamedTree ==
    ASSUME NEW t, IsTree(t), DOMAIN t \subseteq Nodes,
           NEW from, NEW to \in Nodes, CanRename(t, from, to)
    PROVE  IsTree(Renamed(t, from, to))
<1> DEFINE S     == Names
           under == {k \in DOMAIN t : IsPrefix(from, k)}
           kept  == {m \in DOMAIN t : ~IsPrefix(from, m) /\ ~IsPrefix(to, m)}
           moved == {to \o Beneath(from, m) : m \in under}
           new   == Renamed(t, from, to)
<1>1. /\ from # Root /\ from \in DOMAIN t
      /\ to # Root /\ IsDir(t, Parent(to))
      /\ from # to => ~IsPrefix(from, to)
  BY DEF CanRename
<1>2. DOMAIN t \subseteq Seq(S) /\ from \in Seq(S) /\ to \in Seq(S) /\ Root \in Seq(S)
  BY <1>1, NodesAssumption DEF Root
<1>3. ~IsPrefix(from, Root) /\ ~IsPrefix(to, Root)
  <2>1. Len(from) > 0 /\ Len(to) > 0 /\ Len(Root) = 0
    BY <1>1, <1>2 DEF Root
  <2>2. /\ IsPrefix(from, Root) => Len(from) <= Len(Root)
        /\ IsPrefix(to, Root) => Len(to) <= Len(Root)
    BY <1>2 DEF IsPrefix
  <2> QED BY <2>1, <2>2, <1>2
<1>4. DOMAIN new = kept \cup moved
  BY DEF Renamed
<1>5. \A m \in kept : new[m] = t[m]
  BY DEF Renamed, Source
<1>6. ASSUME NEW k \in under
      PROVE  new[to \o Beneath(from, k)] = t[k]
  <2>1. Source(from, to, to \o Beneath(from, k)) = k
    BY <1>2, MovedNode
  <2> QED BY <2>1 DEF Renamed
<1>7. new \in [DOMAIN new -> Kinds]
  <2>1. \A m \in DOMAIN new : new[m] \in Kinds
    BY <1>4, <1>5, <1>6 DEF IsTree
  <2>2. new = [m \in DOMAIN new |-> new[m]]
    BY DEF Renamed
  <2> QED BY <2>1, <2>2
<1>8. \A m \in kept : IsDir(t, m) => IsDir(new, m)
  BY <1>4, <1>5 DEF IsDir
<1>9. IsDir(new, Root)
  BY <1>3, <1>8 DEF IsTree, IsDir
<1>10. ASSUME NEW m \in kept
       PROVE  IsDir(new, Parent(m))
  <2>1. CASE m = Root
    BY <2>1, <1>9 DEF Parent
  <2>2. CASE m # Root
    <3>1. IsDir(t, Parent(m))
      BY DEF IsTree
    <3>2. ~IsPrefix(from, Parent(m)) /\ ~IsPrefix(to, Parent(m))
      BY <2>2, <1>2, PrefixOfParent
    <3> QED BY <3>1, <3>2, <1>8 DEF IsDir
  <2> QED BY <2>1, <2>2
<1>11. ASSUME NEW k \in under
       PROVE  IsDir(new, Parent(to \o Beneath(from, k)))
  <2>1. CASE k = from
    <3>1. to \o Beneath(from, k) = to
      <4>1. /\ Beneath(from, from) \in Seq(S)
            /\ Len(Beneath(from, from)) = 0
        BY <1>2, BeneathOf
      <4>2. Beneath(from, from) = <<>>
        BY <4>1
      <4> QED BY <2>1, <4>2, <1>2, ConcatEmptySeq
    <3>2. ~IsPrefix(to, Parent(to))
      BY <1>1, <1>2, PrefixOfParent
    <3>3. ~IsPrefix(from, Parent(to))
      BY <3>2, <1>1, <1>2, PrefixOfParent
    <3> QED BY <3>1, <3>2, <3>3, <1>1, <1>8 DEF IsDir
  <2>2. CASE k # from
    <3>1. k # Root
      BY <1>3
    <3>2. /\ IsPrefix(from, Parent(k))
          /\ Parent(to \o Beneath(from, k)) = to \o Beneath(from, Parent(k))
      BY <2>2, <3>1, <1>2, MovedParent
    <3>3. IsDir(t, Parent(k))
      BY DEF IsTree
    <3>4. Parent(k) \in under
      BY <3>2, <3>3 DEF IsDir
    <3>5. to \o Beneath(from, Parent(k)) \in DOMAIN new
      BY <3>4, <1>4
    <3>6. new[to \o Beneath(from, Parent(k))] = t[Parent(k)]
      BY <3>4, <1>6
    <3> QED BY <3>2, <3>3, <3>5, <3>6 DEF IsDir
  <2> QED BY <2>1, <2>2
<1>12. ASSUME NEW m \in DOMAIN new
       PROVE  IsDir(new, Parent(m))
  BY <1>4, <1>10, <1>11
<1> QED BY <1>7, <1>9, <1>12 DEF IsTree

-----------------------------------------------------------------------------
(* The types.                                                              *)

\* A sequence with something behind it is not empty.
LEMMA Joined ==
    ASSUME NEW S, NEW p \in Seq(S), NEW q \in Seq(S), q # <<>>
    PROVE  p \o q \in Seq(S) \ {<<>>}
BY ConcatProperties, ConcatEqualIffEmpty

\* What a client sends joined to its working directory is a text, not empty.
LEMMA AbspathText ==
    ASSUME TypeOK, NEW s \in Sessions, NEW a \in Arguments
    PROVE  Abspath(s, a) \in Texts \ {<<>>}
<1>1. a.parts \in Texts /\ a.parts # <<>>
  BY ArgumentsAssumption
<1>2. cwd[s] \in Texts
  BY DEF TypeOK
<1>3. cwd[s] \o a.parts \in Texts \ {<<>>}
  BY <1>1, <1>2, Joined DEF Texts
<1> QED BY <1>1, <1>3 DEF Abspath

\* The last name of a node is a name.
LEMMA LastName ==
    ASSUME NEW n \in Nodes, n # Root
    PROVE  Last(n) \in Names
<1>1. n \in Seq(Names) /\ Len(n) # 0
  BY NodesAssumption DEF Root
<1> QED BY <1>1 DEF Last

\* THEOREM TypeCorrect: after any commands of any clients the file system is
\* a tree, whatever was removed or renamed into what, and every cwd is a text
\* that is not empty (TypeOK of the run ftp_paths).
LEMMA TypeStart == Init => TypeOK
<1> SUFFICES ASSUME Init PROVE TypeOK
  OBVIOUS
<1>1. IsTree(tree) /\ DOMAIN tree \subseteq Nodes
  BY TreesAssumption DEF Init
<1>2. Slash \in Texts \ {<<>>} /\ NoText \in Texts
  BY DEF Slash, NoText, Texts
<1>3. cwd \in [Sessions -> Texts \ {<<>>}] /\ rename_path \in [Sessions -> Texts]
  BY <1>2 DEF Init
<1>4. job \in [Sessions -> [pc : {"idle", "rename", "list"}, arg : Arguments \cup {NoArg},
                            todo : SUBSET Names, listing : SUBSET (Names \X Kinds)]]
  BY DEF Init, Idle
<1> QED BY <1>1, <1>3, <1>4, BoundAssumption DEF Init, TypeOK

LEMMA TypeStep == TypeOK /\ [Next]_vars => TypeOK'
<1> SUFFICES ASSUME TypeOK, [Next]_vars PROVE TypeOK'
  OBVIOUS
<1> DEFINE Jobs == [pc : {"idle", "rename", "list"}, arg : Arguments \cup {NoArg},
                    todo : SUBSET Names, listing : SUBSET (Names \X Kinds)]
<1>types. /\ IsTree(tree) /\ DOMAIN tree \subseteq Nodes
          /\ cwd \in [Sessions -> Texts \ {<<>>}]
          /\ rename_path \in [Sessions -> Texts]
          /\ job \in [Sessions -> Jobs]
          /\ quiet \in [Sessions -> BOOLEAN]
          /\ asked \in [who : Sessions, arg : Arguments \cup {NoArg}] \cup {Nothing}
          /\ budget \in 0 .. MaxCommands
  BY DEF TypeOK
<1>files. FileArguments \subseteq Arguments
  BY DEF FileArguments
<1>idle. Idle \in Jobs
  BY DEF Idle
<1>spent. ASSUME NEW s \in Sessions, Command(s)
          PROVE  budget' \in 0 .. MaxCommands
  BY <1>types, <1>spent, BoundAssumption DEF Command
<1>used. ASSUME NEW s \in Sessions, NEW a \in Arguments, Uses(s, a)
         PROVE  asked' \in [who : Sessions, arg : Arguments \cup {NoArg}] \cup {Nothing}
  BY <1>used DEF Uses
<1>changed. ASSUME NEW t, Change(t), IsTree(t), DOMAIN t \subseteq Nodes
            PROVE  /\ IsTree(tree') /\ DOMAIN tree' \subseteq Nodes
                   /\ quiet' \in [Sessions -> BOOLEAN]
  <2>1. tree' = t
    BY <1>changed DEF Change
  <2>2. \A s \in Sessions : (quiet[s] /\ (t = tree \/ job[s].pc = "idle")) \in BOOLEAN
    OBVIOUS
  <2>3. quiet' \in [Sessions -> BOOLEAN]
    BY <1>changed, <2>2 DEF Change
  <2> QED BY <1>changed, <2>1, <2>3
<1>1. ASSUME NEW s \in Sessions, Cwd(s)
      PROVE  TypeOK'
  <2>1. PICK a \in Arguments : Uses(s, a) /\ cwd' = [cwd EXCEPT ![s] = Abspath(s, a)]
    BY <1>1 DEF Cwd
  <2>2. cwd' \in [Sessions -> Texts \ {<<>>}]
    BY <2>1, <1>types, AbspathText
  <2>3. Command(s) /\ UNCHANGED <<tree, rename_path, job, quiet>>
    BY <1>1 DEF Cwd
  <2> QED BY <2>1, <2>2, <2>3, <1>types, <1>spent, <1>used DEF TypeOK
<1>2. ASSUME NEW s \in Sessions, Cdup(s)
      PROVE  TypeOK'
  <2> DEFINE up == IF Len(cwd[s]) = 1 THEN Slash ELSE Front(cwd[s])
  <2>1. up \in Texts \ {<<>>}
    <3>1. CASE Len(cwd[s]) = 1
      BY <3>1 DEF Slash, Texts
    <3>2. CASE Len(cwd[s]) # 1
      <4>1. cwd[s] \in Texts /\ cwd[s] # Root
        BY <1>types DEF Root
      <4>2. Front(cwd[s]) = Parent(cwd[s])
        BY <4>1 DEF Parent
      <4>3. /\ Parent(cwd[s]) \in Texts
            /\ Len(Parent(cwd[s])) = Len(cwd[s]) - 1
        BY <4>1, FrontOf DEF Texts
      <4>4. Len(cwd[s]) \in Nat /\ Len(cwd[s]) # 1
        BY <4>1, <3>2, LenProperties DEF Texts
      <4>5. Parent(cwd[s]) # <<>>
        <5>1. Len(Parent(cwd[s])) # 0 /\ Len(<<>>) = 0
          BY <4>3, <4>4
        <5> QED BY <5>1
      <4> QED BY <3>2, <4>2, <4>3, <4>5
    <3> QED BY <3>1, <3>2
  <2>2. cwd' = [cwd EXCEPT ![s] = up]
    BY <1>2 DEF Cdup
  <2>3. cwd' \in [Sessions -> Texts \ {<<>>}]
    BY <2>1, <2>2, <1>types
  <2>4. Command(s) /\ UNCHANGED <<tree, rename_path, job, quiet, asked>>
    BY <1>2 DEF Cdup
  <2> QED BY <2>3, <2>4, <1>types, <1>spent DEF TypeOK
<1>3. ASSUME NEW s \in Sessions, Mkd(s)
      PROVE  TypeOK'
  <2>1. PICK a \in FileArguments :
           /\ Uses(s, a) /\ Target(s, a) \in Nodes /\ CanMake(tree, Target(s, a))
           /\ Change(Made(tree, Target(s, a), "dir"))
    BY <1>3 DEF Mkd
  <2>2. IsTree(Made(tree, Target(s, a), "dir"))
    BY <2>1, <1>types, MadeTree DEF Kinds
  <2>3. DOMAIN Made(tree, Target(s, a), "dir") \subseteq Nodes
    BY <2>1, <1>types DEF Made
  <2>4. Command(s) /\ UNCHANGED <<cwd, rename_path, job>>
    BY <1>3 DEF Mkd
  <2> QED BY <2>1, <2>2, <2>3, <2>4, <1>types, <1>spent, <1>used, <1>files, <1>changed DEF TypeOK
<1>4. ASSUME NEW s \in Sessions, Store(s)
      PROVE  TypeOK'
  <2>1. PICK a \in FileArguments :
           /\ Uses(s, a) /\ Target(s, a) \in Nodes /\ CanMake(tree, Target(s, a))
           /\ Change(Made(tree, Target(s, a), "file"))
    BY <1>4 DEF Store
  <2>2. IsTree(Made(tree, Target(s, a), "file"))
    BY <2>1, <1>types, MadeTree DEF Kinds
  <2>3. DOMAIN Made(tree, Target(s, a), "file") \subseteq Nodes
    BY <2>1, <1>types DEF Made
  <2>4. Command(s) /\ UNCHANGED <<cwd, rename_path, job>>
    BY <1>4 DEF Store
  <2> QED BY <2>1, <2>2, <2>3, <2>4, <1>types, <1>spent, <1>used, <1>files, <1>changed DEF TypeOK
<1>5. ASSUME NEW s \in Sessions, Dele(s) \/ Rmd(s)
      PROVE  TypeOK'
  <2>1. PICK a \in FileArguments :
           /\ Uses(s, a) /\ CanRemove(tree, Target(s, a))
           /\ Change(Removed(tree, Target(s, a)))
    BY <1>5 DEF Dele, Rmd
  <2>2. /\ IsTree(Removed(tree, Target(s, a)))
        /\ DOMAIN Removed(tree, Target(s, a)) \subseteq Nodes
    BY <2>1, <1>types, RemovedTree
  <2>3. Command(s) /\ UNCHANGED <<cwd, rename_path, job>>
    BY <1>5 DEF Dele, Rmd
  <2> QED BY <2>1, <2>2, <2>3, <1>types, <1>spent, <1>used, <1>files, <1>changed DEF TypeOK
<1>6. ASSUME NEW s \in Sessions, Rnfr(s)
      PROVE  TypeOK'
  <2>1. PICK a \in FileArguments :
           Uses(s, a) /\ rename_path' = [rename_path EXCEPT ![s] = Abspath(s, a)]
    BY <1>6 DEF Rnfr
  <2>2. rename_path' \in [Sessions -> Texts]
    BY <2>1, <1>types, <1>files, AbspathText
  <2>3. Command(s) /\ UNCHANGED <<tree, cwd, job, quiet>>
    BY <1>6 DEF Rnfr
  <2> QED BY <2>1, <2>2, <2>3, <1>types, <1>spent, <1>used, <1>files DEF TypeOK
<1>7. ASSUME NEW s \in Sessions, RntoStat(s)
      PROVE  TypeOK'
  <2>1. PICK a \in FileArguments :
           job' = [job EXCEPT ![s] = [Idle EXCEPT !.pc = "rename", !.arg = a]]
    BY <1>7 DEF RntoStat
  <2>2. [Idle EXCEPT !.pc = "rename", !.arg = a] \in Jobs
    BY <1>files DEF Idle
  <2>3. job' \in [Sessions -> Jobs]
    BY <2>1, <2>2, <1>types
  <2>4. Command(s) /\ UNCHANGED <<tree, cwd, rename_path, quiet, asked>>
    BY <1>7 DEF RntoStat
  <2> QED BY <2>3, <2>4, <1>types, <1>spent DEF TypeOK
<1>8. ASSUME NEW s \in Sessions, Rename(s)
      PROVE  TypeOK'
  <2> DEFINE from == Walk(tree, rename_path[s])
             to   == Target(s, job[s].arg)
  <2>1. /\ Uses(s, job[s].arg) /\ job[s].pc = "rename"
        /\ CanRename(tree, from, to) /\ to \in Nodes
        /\ DOMAIN Renamed(tree, from, to) \subseteq Nodes
        /\ Change(Renamed(tree, from, to))
    BY <1>8 DEF Rename
  <2>2. IsTree(Renamed(tree, from, to))
    BY <2>1, <1>types, RenamedTree
  <2>3. IsTree(tree') /\ DOMAIN tree' \subseteq Nodes /\ quiet' \in [Sessions -> BOOLEAN]
    BY <2>1, <2>2, <1>changed
  <2>4. asked' \in [who : Sessions, arg : Arguments \cup {NoArg}] \cup {Nothing}
    BY <2>1, <1>types DEF Uses
  <2>5. job' \in [Sessions -> Jobs]
    BY <1>8, <1>idle, <1>types DEF Rename
  <2>6. UNCHANGED <<cwd, rename_path, budget>>
    BY <1>8 DEF Rename
  <2> QED BY <2>3, <2>4, <2>5, <2>6, <1>types DEF TypeOK
<1>9. ASSUME NEW s \in Sessions, RenameFail(s) \/ ListEnd(s)
      PROVE  TypeOK'
  <2>1. job' \in [Sessions -> Jobs]
    BY <1>9, <1>idle, <1>types DEF RenameFail, ListEnd
  <2>2. UNCHANGED <<tree, cwd, rename_path, quiet, asked, budget>>
    BY <1>9 DEF RenameFail, ListEnd
  <2> QED BY <2>1, <2>2, <1>types DEF TypeOK
<1>10. ASSUME NEW s \in Sessions, ListOpen(s)
       PROVE  TypeOK'
  <2>1. PICK a \in Arguments \cup {NoArg} :
           job' = [job EXCEPT ![s] =
                     [pc |-> "list", arg |-> a, listing |-> {},
                      todo |-> {Last(m) : m \in Children(tree, Walk(tree, Opened(s, a)))}]]
    BY <1>10 DEF ListOpen
  <2> DEFINE todo == {Last(m) : m \in Children(tree, Walk(tree, Opened(s, a)))}
  <2>2. todo \subseteq Names
    BY <1>types, LastName DEF Children
  <2>3. [pc |-> "list", arg |-> a, listing |-> {}, todo |-> todo] \in Jobs
    BY <2>2
  <2>4. job' \in [Sessions -> Jobs]
    BY <2>1, <2>3, <1>types
  <2>5. /\ Command(s) /\ quiet' = [quiet EXCEPT ![s] = TRUE]
        /\ UNCHANGED <<tree, cwd, rename_path, asked>>
    BY <1>10 DEF ListOpen
  <2> QED BY <2>4, <2>5, <1>types, <1>spent DEF TypeOK
<1>11. ASSUME NEW s \in Sessions, ListLine(s)
       PROVE  TypeOK'
  <2>1. PICK name \in job[s].todo :
          LET n == Walk(tree, Listed(s, job[s].arg, name))
          IN  job' = [job EXCEPT
                 ![s].todo = @ \ {name},
                 ![s].listing = IF n \in DOMAIN tree THEN @ \cup {<<name, tree[n]>>} ELSE @]
    BY <1>11 DEF ListLine
  <2> DEFINE n    == Walk(tree, Listed(s, job[s].arg, name))
             more == IF n \in DOMAIN tree THEN job[s].listing \cup {<<name, tree[n]>>}
                                          ELSE job[s].listing
             next == [job[s] EXCEPT !.todo = @ \ {name}, !.listing = more]
  <2>2. name \in Names
    BY <1>types
  <2>3. n \in DOMAIN tree => tree[n] \in Kinds
    BY <1>types DEF IsTree
  <2>4. more \subseteq Names \X Kinds
    BY <2>2, <2>3, <1>types
  <2>5. next \in Jobs
    <3>1. job[s] \in Jobs
      BY <1>types
    <3> HIDE DEF more
    <3>2. job[s].todo \ {name} \in SUBSET Names /\ more \in SUBSET (Names \X Kinds)
      BY <3>1, <2>4
    <3> QED BY <3>1, <3>2
  <2>6. job'[s] = next
    <3> HIDE DEF n
    <3>1. job' = [job EXCEPT ![s].todo = @ \ {name}, ![s].listing = more]
      BY <2>1 DEF n
    <3> HIDE DEF more
    <3> QED BY <3>1, <1>types
  <2>7. job' \in [Sessions -> Jobs]
    <3>1. job' = [t \in Sessions |-> job'[t]]
      BY <2>1, <1>types
    <3>2. \A t \in Sessions : t # s => job'[t] = job[t]
      BY <2>1, <1>types
    <3> HIDE DEF next, Jobs
    <3>3. \A t \in Sessions : job'[t] \in Jobs
      BY <2>5, <2>6, <3>2, <1>types
    <3> QED BY <3>1, <3>3
  <2>8. UNCHANGED <<tree, cwd, rename_path, quiet, asked, budget>>
    BY <1>11 DEF ListLine
  <2> QED BY <2>7, <2>8, <1>types DEF TypeOK
<1>12. ASSUME NEW s \in Sessions, Reconnect(s)
       PROVE  TypeOK'
  <2>1. Slash \in Texts \ {<<>>} /\ NoText \in Texts
    BY DEF Slash, NoText, Texts
  <2> QED BY <1>12, <2>1, <1>types DEF Reconnect, TypeOK
<1>13. CASE UNCHANGED vars
  BY <1>13, <1>types DEF TypeOK, vars
<1> QED BY <1>1, <1>2, <1>3, <1>4, <1>5, <1>6, <1>7, <1>8, <1>9, <1>10, <1>11, <1>12, <1>13
        DEF Next

THEOREM TypeCorrect == Spec => []TypeOK
<1> QED BY TypeStart, TypeStep, PTL DEF Spec

-----------------------------------------------------------------------------
(* Induction, over sets of numbers and of sequences.                       *)

Less == {pair \in Nat \X Nat : pair[1] < pair[2]}

\* A set with 0 and every successor up to k has all of them.
LEMMA UpTo ==
    ASSUME NEW k \in Nat, NEW S, 0 \in S,
           \A i \in 1 .. k : i - 1 \in S => i \in S
    PROVE  \A i \in 0 .. k : i \in S
<1> DEFINE bad == {i \in 0 .. k : i \notin S}
<1>1. SUFFICES ASSUME bad # {} PROVE FALSE
  OBVIOUS
<1>2. IsWellFoundedOn(Less, Nat)
  BY NatLessThanWellFounded DEF OpToRel, Less
<1>3. bad \subseteq Nat
  OBVIOUS
<1>4. PICK i \in bad : \A m \in bad : ~(<<m, i>> \in Less)
  BY <1>1, <1>2, <1>3, WFMin
<1>5. i \in 1 .. k /\ i \notin S
  BY <1>4
<1>6. i - 1 \notin bad
  <2>1. \A m, n \in Nat : <<m, n>> \in Less <=> m < n
    BY DEF Less
  <2>2. i - 1 \in Nat /\ i \in Nat /\ i - 1 < i
    BY <1>5
  <2> HIDE DEF bad
  <2> QED BY <1>4, <2>1, <2>2
<1>7. i - 1 \in S
  BY <1>5, <1>6
<1> QED BY <1>5, <1>7

\* A set with the empty sequence and every longer one has all of them.
LEMMA ByLength ==
    ASSUME NEW S, NEW P, <<>> \in P,
           \A t \in Seq(S) : t \in P => \A x \in S : Append(t, x) \in P
    PROVE  \A t \in Seq(S) : t \in P
<1> SUFFICES ASSUME NEW t \in Seq(S) PROVE t \in P
  OBVIOUS
<1> DEFINE Q == {k \in Nat : \A u \in Seq(S) : Len(u) = k => u \in P}
<1>1. 0 \in Q
  OBVIOUS
<1>2. ASSUME NEW k \in 1 .. Len(t), k - 1 \in Q
      PROVE  k \in Q
  <2>1. ASSUME NEW u \in Seq(S), Len(u) = k
        PROVE  u \in P
    <3>1. PICK v \in Seq(S), x \in S : u = Append(v, x)
      <4>1. u # <<>>
        BY <2>1
      <4> QED BY <4>1, SequenceEmptyOrAppend, Zenon
    <3>2. Len(v) = k - 1
      BY <2>1, <3>1
    <3> QED BY <1>2, <3>1, <3>2
  <2> QED BY <2>1
<1> HIDE DEF Q
<1>3. Len(t) \in Nat /\ Len(t) \in 0 .. Len(t)
  OBVIOUS
<1>4. Len(t) \in Q
  BY <1>1, <1>2, <1>3, UpTo
<1> QED BY <1>4 DEF Q

-----------------------------------------------------------------------------
(* Where texts lead.                                                       *)

\* The nodes on the way.
Way(f, dirs, n, text, k) ==
    f = [i \in 0 .. k |-> IF i = 0 THEN n ELSE Lookup(dirs, f[i - 1], text[i])]

LEMMA WayExists ==
    ASSUME NEW dirs, NEW n, NEW text, NEW k \in Nat
    PROVE  \E f : Way(f, dirs, n, text, k)
<1> DEFINE S == {m \in 0 .. k : \E f : Way(f, dirs, n, text, m)}
<1>1. 0 \in S
  <2> DEFINE f == [i \in 0 .. 0 |-> n]
  <2>1. Way(f, dirs, n, text, 0)
    BY DEF Way
  <2> HIDE DEF f
  <2> QED BY <2>1
<1>2. ASSUME NEW m \in 1 .. k, m - 1 \in S
      PROVE  m \in S
  <2>1. PICK f : Way(f, dirs, n, text, m - 1)
    BY <1>2
  <2> DEFINE g == [i \in 0 .. m |->
                     IF i <= m - 1 THEN f[i] ELSE Lookup(dirs, f[i - 1], text[i])]
  <2>2. g[0] = n
    BY <2>1 DEF Way
  <2>3. ASSUME NEW i \in 1 .. m
        PROVE  g[i] = Lookup(dirs, g[i - 1], text[i])
    <3>1. g[i - 1] = f[i - 1]
      OBVIOUS
    <3>2. CASE i <= m - 1
      BY <2>1, <3>1, <3>2 DEF Way
    <3>3. CASE i = m
      BY <3>1, <3>3
    <3> QED BY <3>2, <3>3
  <2>4. Way(g, dirs, n, text, m)
    <3>2. g = [i \in 0 .. m |-> g[i]]
      OBVIOUS
    <3> HIDE DEF g
    <3>3. ASSUME NEW i \in 0 .. m
          PROVE  g[i] = IF i = 0 THEN n ELSE Lookup(dirs, g[i - 1], text[i])
      <4>1. CASE i = 0
        BY <2>2, <4>1
      <4>2. CASE i # 0
        <5>1. i \in 1 .. m
          BY <4>2
        <5> QED BY <2>3, <4>2, <5>1
      <4> QED BY <4>1, <4>2
    <3> QED BY <3>2, <3>3 DEF Way
  <2> QED BY <2>4
<1>3. \A m \in 0 .. k : m \in S
  BY <1>1, <1>2, UpTo
<1> QED BY <1>3

\* Ways along the same text agree as far as both go.
LEMMA WaysAgree ==
    ASSUME NEW dirs, NEW n, NEW a, NEW b, NEW k \in Nat, NEW m \in 0 .. k, NEW f, NEW g,
           Way(f, dirs, n, a, k), Way(g, dirs, n, b, m), \A i \in 1 .. m : a[i] = b[i]
    PROVE  \A i \in 0 .. m : f[i] = g[i]
<1> DEFINE S == {i \in 0 .. m : f[i] = g[i]}
<1>1. 0 \in S
  BY DEF Way
<1>2. ASSUME NEW i \in 1 .. m, i - 1 \in S
      PROVE  i \in S
  <2>1. f[i] = Lookup(dirs, f[i - 1], a[i])
    BY DEF Way
  <2>2. g[i] = Lookup(dirs, g[i - 1], b[i])
    BY DEF Way
  <2> QED BY <1>2, <2>1, <2>2
<1> HIDE DEF S
<1>3. \A i \in 0 .. m : i \in S
  BY <1>1, <1>2, UpTo
<1> QED BY <1>3 DEF S

LEMMA ResolveIsWay ==
    ASSUME NEW dirs, NEW n, NEW text, Len(text) \in Nat
    PROVE  \E f : Way(f, dirs, n, text, Len(text)) /\ Resolve(dirs, n, text) = f[Len(text)]
<1> DEFINE at == CHOOSE f : Way(f, dirs, n, text, Len(text))
<1>1. Resolve(dirs, n, text) = at[Len(text)]
  BY DEF Resolve, Way
<1>2. Way(at, dirs, n, text, Len(text))
  BY WayExists
<1> QED BY <1>1, <1>2

\* One component more.
LEMMA ResolveNext ==
    ASSUME NEW S, NEW dirs, NEW n, NEW text \in Seq(S), NEW part \in S
    PROVE  Resolve(dirs, n, Append(text, part)) = Lookup(dirs, Resolve(dirs, n, text), part)
<1> DEFINE b == Append(text, part)
           k == Len(text)
<1>1. k \in Nat /\ Len(b) = k + 1 /\ b[k + 1] = part /\ \A i \in 1 .. k : b[i] = text[i]
  OBVIOUS
<1> HIDE DEF b
<1>2. PICK f : Way(f, dirs, n, text, k) /\ Resolve(dirs, n, text) = f[k]
  BY <1>1, ResolveIsWay
<1>3. PICK g : Way(g, dirs, n, b, k + 1) /\ Resolve(dirs, n, b) = g[k + 1]
  BY <1>1, ResolveIsWay
<1>4. g[k] = f[k]
  <2>1. k + 1 \in Nat /\ k \in 0 .. k + 1 /\ k \in 0 .. k
    BY <1>1
  <2> QED BY <1>1, <1>2, <1>3, <2>1, WaysAgree
<1>5. g[k + 1] = Lookup(dirs, g[k], b[k + 1])
  <2>1. k + 1 \in 0 .. k + 1 /\ k + 1 # 0 /\ (k + 1) - 1 = k
    BY <1>1
  <2> HIDE DEF k
  <2> QED BY <1>3, <2>1 DEF Way
<1> QED BY <1>1, <1>2, <1>3, <1>4, <1>5 DEF b

LEMMA ResolveNone ==
    ASSUME NEW dirs, NEW n
    PROVE  Resolve(dirs, n, <<>>) = n
<1>1. Len(<<>>) = 0
  OBVIOUS
<1>2. PICK f : Way(f, dirs, n, <<>>, 0) /\ Resolve(dirs, n, <<>>) = f[0]
  BY <1>1, ResolveIsWay
<1> QED BY <1>2 DEF Way

-----------------------------------------------------------------------------

\* A text after another is read from where that leads.
LEMMA ResolveConcat ==
    ASSUME NEW S, NEW dirs, NEW n, NEW p \in Seq(S), NEW q \in Seq(S)
    PROVE  Resolve(dirs, n, p \o q) = Resolve(dirs, Resolve(dirs, n, p), q)
<1> DEFINE m == Resolve(dirs, n, p)
           P == {t \in Seq(S) : Resolve(dirs, n, p \o t) = Resolve(dirs, m, t)}
<1>1. <<>> \in P
  <2>1. p \o <<>> = p
    OBVIOUS
  <2> QED BY <2>1, ResolveNone
<1>2. ASSUME NEW t \in Seq(S), t \in P, NEW x \in S
      PROVE  Append(t, x) \in P
  <2> DEFINE u == p \o t
  <2>1. u \in Seq(S) /\ p \o Append(t, x) = Append(u, x)
    OBVIOUS
  <2> HIDE DEF u
  <2>2. Resolve(dirs, n, p \o Append(t, x)) = Lookup(dirs, Resolve(dirs, n, u), x)
    BY <2>1, ResolveNext
  <2>3. Resolve(dirs, m, Append(t, x)) = Lookup(dirs, Resolve(dirs, m, t), x)
    BY ResolveNext
  <2> QED BY <1>2, <2>2, <2>3 DEF u
<1> HIDE DEF P
<1>3. q \in P
  BY <1>1, <1>2, ByLength
<1> QED BY <1>3 DEF P

\* What is nowhere leads nowhere, and where a text leads among some of the
\* directories it leads among all, if it gets anywhere.
LEMMA ResolveMore ==
    ASSUME NEW S, NEW dirs, NEW more, dirs \subseteq more, Nowhere \notin dirs,
           NEW n, NEW text \in Seq(S)
    PROVE  /\ Resolve(dirs, n, text) \in {Nowhere, Resolve(more, n, text)}
           /\ Resolve(dirs, Nowhere, text) = Nowhere
<1> DEFINE P == {t \in Seq(S) : /\ Resolve(dirs, n, t) \in {Nowhere, Resolve(more, n, t)}
                                /\ Resolve(dirs, Nowhere, t) = Nowhere}
<1>1. <<>> \in P
  BY ResolveNone
<1>2. ASSUME NEW t \in Seq(S), t \in P, NEW x \in S
      PROVE  Append(t, x) \in P
  <2>1. \A d, m : Resolve(d, m, Append(t, x)) = Lookup(d, Resolve(d, m, t), x)
    BY ResolveNext
  <2> QED BY <1>2, <2>1 DEF Lookup
<1> HIDE DEF P
<1>3. text \in P
  BY <1>1, <1>2, ByLength
<1> QED BY <1>3 DEF P

\* If a text gets anywhere, what is in front of its end leads to a directory.
LEMMA ResolveFront ==
    ASSUME NEW S, NEW dirs, Nowhere \notin dirs, NEW n, NEW p \in Seq(S), NEW q \in Seq(S),
           Resolve(dirs, n, p \o q) # Nowhere, q # <<>>
    PROVE  Resolve(dirs, n, p) \in dirs
<1> DEFINE m == Resolve(dirs, n, p)
           h == Head(q)
           u == Tail(q)
           v == Append(p, h)
<1>1. h \in S /\ u \in Seq(S) /\ v \in Seq(S)
  OBVIOUS
<1>2. p \o q = v \o u
  <2>1. q = <<h>> \o u
    OBVIOUS
  <2>2. v = p \o <<h>> /\ <<h>> \in Seq(S)
    OBVIOUS
  <2> HIDE DEF h, u, v
  <2> QED BY <1>1, <2>1, <2>2, ConcatAssociative
<1> HIDE DEF h, u
<1>3. Resolve(dirs, n, p \o q) = Resolve(dirs, Resolve(dirs, n, v), u)
  <2> HIDE DEF v
  <2> QED BY <1>1, <1>2, ResolveConcat
<1>4. Resolve(dirs, n, v) = Lookup(dirs, m, h)
  BY <1>1, ResolveNext
<1> HIDE DEF m, v
<1>5. ASSUME m \notin dirs
      PROVE  FALSE
  <2>1. Lookup(dirs, m, h) = Nowhere
    BY <1>5 DEF Lookup
  <2>2. Resolve(dirs, Nowhere, u) = Nowhere
    BY <1>1, ResolveMore
  <2> QED BY <1>3, <1>4, <2>1, <2>2
<1> QED BY <1>5 DEF m

-----------------------------------------------------------------------------
(* Nodes.                                                                  *)

LEMMA SeqOfMore ==
    ASSUME NEW A, NEW B, A \subseteq B
    PROVE  Seq(A) \subseteq Seq(B)
<1> SUFFICES ASSUME NEW t \in Seq(A) PROVE t \in Seq(B)
  OBVIOUS
<1>1. Len(t) \in Nat /\ \A i \in 1 .. Len(t) : t[i] \in B
  OBVIOUS
<1>2. SubSeq(t, 1, Len(t)) \in Seq(B)
  BY <1>1, SubSeqProperties
<1> QED BY <1>2, SubSeqFull

Nodal == Seq(Names)
Parts == Names \cup {"", ".", ".."}

LEMMA NodalFacts ==
    /\ Nodes \subseteq Nodal
    /\ Nodal \subseteq Seq(STRING)
    /\ Nowhere \notin Nodal
    /\ Root \in Nodal
    /\ \A n \in Nodal, x \in Names : Append(n, x) \in Nodal /\ Follow(n, x) = Append(n, x)
    /\ \A n \in Nodal, x \in Parts : Follow(n, x) \in Nodal
<1>1. Names \subseteq STRING /\ \A x \in {"", ".", "..", "/"} : x \notin Names
  BY NamesAssumption
<1>2. Nodes \subseteq Nodal
  BY NodesAssumption DEF Nodal
<1>3. Nodal \subseteq Seq(STRING)
  BY <1>1, SeqOfMore DEF Nodal
<1>4. Nowhere \notin Nodal
  <2>1. ASSUME Nowhere \in Nodal
        PROVE  FALSE
    <3>1. 1 \in 1 .. Len(Nowhere) /\ Nowhere[1] = "/"
      BY DEF Nowhere
    <3>2. Nowhere[1] \in Names
      BY <2>1, <3>1 DEF Nodal
    <3> QED BY <1>1, <3>1, <3>2
  <2> QED BY <2>1
<1>5. ASSUME NEW n \in Nodal, NEW x \in Names
      PROVE  Append(n, x) \in Nodal /\ Follow(n, x) = Append(n, x)
  <2>1. Append(n, x) \in Nodal
    BY DEF Nodal
  <2>2. x \notin {"", "."} /\ x # ".."
    BY <1>1
  <2> QED BY <2>1, <2>2, Zenon DEF Follow
<1>6. ASSUME NEW n \in Nodal
      PROVE  Parent(n) \in Nodal
  BY DEF Nodal, Parent, Front, Root
<1>7. ASSUME NEW n \in Nodal, NEW x \in Parts
      PROVE  Follow(n, x) \in Nodal
  <2>1. CASE x \in Names
    BY <1>5, <2>1
  <2>2. CASE x = ".."
    BY <1>6, <2>2 DEF Follow
  <2>3. CASE x \in {"", "."}
    BY <2>3 DEF Follow
  <2> QED BY <2>1, <2>2, <2>3 DEF Parts
<1>8. Root \in Nodal
  BY DEF Root, Nodal
<1> QED BY <1>2, <1>3, <1>4, <1>5, <1>7, <1>8

\* What a text means is a node; one component more goes on from there.
LEMMA NormalNode ==
    ASSUME NEW text \in Texts
    PROVE  /\ Normal(text) \in Nodal
           /\ \A x \in Parts : Normal(Append(text, x)) = Follow(Normal(text), x)
<1> DEFINE P == {t \in Seq(Parts) : Normal(t) \in Nodal}
<1>1. <<>> \in P
  BY ResolveNone, NodalFacts DEF Normal
<1>2. ASSUME NEW t \in Seq(Parts), t \in P, NEW x \in Parts
      PROVE  Append(t, x) \in P /\ Normal(Append(t, x)) = Follow(Normal(t), x)
  <2>1. Normal(t) \in Nodal /\ Normal(t) \in Seq(STRING)
    BY <1>2, NodalFacts
  <2>2. Normal(Append(t, x)) = Lookup(Seq(STRING), Normal(t), x)
    BY ResolveNext DEF Normal
  <2>3. Normal(Append(t, x)) = Follow(Normal(t), x)
    BY <2>1, <2>2 DEF Lookup
  <2>4. Normal(Append(t, x)) \in Nodal
    BY <2>1, <2>3, NodalFacts
  <2> QED BY <2>3, <2>4
<1> HIDE DEF P
<1>3. \A t \in Seq(Parts) : t \in P
  BY <1>1, <1>2, ByLength
<1>4. text \in Seq(Parts)
  BY DEF Texts, Parts
<1>5. text \in P
  BY <1>3, <1>4
<1> QED BY <1>2, <1>4, <1>5 DEF P

\* A node, read as a text, means itself.
LEMMA NodeIsNormal ==
    ASSUME NEW n \in Nodal
    PROVE  Normal(n) = n /\ n \in Texts
<1> DEFINE P == {t \in Seq(Names) : Normal(t) = t}
<1>0. Seq(Names) \subseteq Texts /\ Names \subseteq Parts
  BY SeqOfMore DEF Texts, Parts
<1>1. <<>> \in P
  BY ResolveNone DEF Normal, Root
<1>2. ASSUME NEW t \in Seq(Names), t \in P, NEW x \in Names
      PROVE  Append(t, x) \in P
  <2>1. Normal(Append(t, x)) = Follow(Normal(t), x)
    BY <1>0, NormalNode
  <2>2. Follow(t, x) = Append(t, x)
    BY NodalFacts DEF Nodal
  <2> QED BY <1>2, <2>1, <2>2
<1> HIDE DEF P
<1>3. n \in P
  BY <1>1, <1>2, ByLength DEF Nodal
<1> QED BY <1>0, <1>3 DEF P, Nodal

\* What is sent means the same behind a working directory and behind its text.
LEMMA NormalConcat ==
    ASSUME NEW p \in Texts, NEW q \in Texts
    PROVE  Normal(p \o q) = Normal(Normal(p) \o q)
<1>1. Normal(p) \in Nodal
  BY NormalNode
<1>2. Normal(p) \in Texts /\ Normal(Normal(p)) = Normal(p)
  BY <1>1, NodeIsNormal
<1>3. ASSUME NEW m \in Texts
      PROVE  Normal(m \o q) = Resolve(Seq(STRING), Normal(m), q)
  <2>1. m \in Seq(Parts) /\ q \in Seq(Parts)
    BY DEF Texts, Parts
  <2>2. \A d, r : Resolve(d, r, m \o q) = Resolve(d, Resolve(d, r, m), q)
    BY <2>1, ResolveConcat
  <2> QED BY <2>2, Zenon DEF Normal
<1>4. Normal(p \o q) = Resolve(Seq(STRING), Normal(p), q)
  BY <1>3
<1> DEFINE n == Normal(p)
<1> HIDE DEF n
<1>5. Normal(n \o q) = Resolve(Seq(STRING), Normal(n), q)
  BY <1>2, <1>3 DEF n
<1> QED BY <1>2, <1>4, <1>5 DEF n

-----------------------------------------------------------------------------
(* What the kernel makes of a text.                                        *)

IsFiles(t) == IsTree(t) /\ DOMAIN t \subseteq Nodes

LEMMA DirsAre ==
    ASSUME NEW t, IsFiles(t)
    PROVE  /\ Dirs(t) \subseteq Seq(STRING) /\ Nowhere \notin Dirs(t) /\ Nowhere \notin DOMAIN t
           /\ Nowhere \notin Nodes
           /\ \A n : n \in Dirs(t) <=> IsDir(t, n)
BY NodalFacts DEF IsFiles, Dirs, IsDir

\* It is what the text means or nothing.
LEMMA WalkIsNormal ==
    ASSUME NEW t, IsFiles(t), NEW text \in Texts
    PROVE  Walk(t, text) \in {Nowhere, Normal(text)}
BY DirsAre, ResolveMore DEF Walk, Normal, Texts

\* A directory is reached through directories, which more of them leave so.
LEMMA WalkStays ==
    ASSUME NEW t, IsFiles(t), NEW u, Dirs(t) \subseteq Dirs(u), NEW text \in Texts,
           IsDir(t, Walk(t, text))
    PROVE  Walk(u, text) = Walk(t, text)
<1>1. Nowhere \notin Dirs(t) /\ Walk(t, text) # Nowhere
  BY DirsAre
<1>2. Resolve(Dirs(t), Root, text) \in {Nowhere, Resolve(Dirs(u), Root, text)}
  BY <1>1, ResolveMore DEF Texts
<1> QED BY <1>1, <1>2 DEF Walk

\* In front of a directory or a file there is a directory.
LEMMA WalkFront ==
    ASSUME NEW t, IsFiles(t), NEW p \in Texts, NEW q \in Texts, q # <<>>,
           Walk(t, p \o q) # Nowhere
    PROVE  IsDir(t, Walk(t, p))
BY DirsAre, ResolveFront DEF Walk, Texts

-----------------------------------------------------------------------------
(* Texts and nodes of a state.                                             *)

LEMMA Typed ==
    ASSUME TypeOK
    PROVE  /\ IsFiles(tree)
           /\ \A s \in Sessions : /\ cwd[s] \in Texts /\ cwd[s] # <<>>
                                  /\ rename_path[s] \in Texts
           /\ \A a \in Arguments : a.parts \in Texts /\ a.parts # <<>>
           /\ \A s \in Sessions, a \in Arguments : Abspath(s, a) \in Texts
           /\ \A n \in DOMAIN tree : n \in Nodal
<1>1. IsFiles(tree) /\ DOMAIN tree \subseteq Nodes
  BY DEF TypeOK, IsFiles
<1>2. \A s \in Sessions : /\ cwd[s] \in Texts /\ cwd[s] # <<>>
                          /\ rename_path[s] \in Texts
  BY DEF TypeOK
<1>3. \A a \in Arguments : a.parts \in Texts /\ a.parts # <<>>
  BY ArgumentsAssumption
<1>4. \A s \in Sessions, a \in Arguments : Abspath(s, a) \in Texts
  BY AbspathText
<1> QED BY <1>1, <1>2, <1>3, <1>4, NodalFacts

LEMMA TextsJoin ==
    /\ Texts = Seq(Parts) /\ <<>> \in Texts /\ Slash \in Texts
    /\ \A p \in Texts : p \o <<>> = p /\ <<>> \o p = p
    /\ \A p, q \in Texts : p \o q \in Texts
<1>1. Texts = Seq(Parts)
  BY DEF Texts, Parts
<1>2. Slash \in Seq(Parts)
  BY DEF Parts, Slash
<1> QED BY <1>1, <1>2, ConcatProperties, ConcatEmptySeq

LEMMA WalkSlash ==
    ASSUME NEW t, IsFiles(t)
    PROVE  Walk(t, Slash) = Root /\ IsDir(t, Root)
<1>1. Slash = Append(<<>>, "") /\ <<>> \in Seq(Parts) /\ "" \in Parts
  BY DEF Slash, Parts
<1>2. \A d : Resolve(d, Root, Slash) = Lookup(d, Resolve(d, Root, <<>>), "")
  <2> DEFINE none == <<>>
             x == ""
  <2>1. none \in Seq(Parts) /\ x \in Parts /\ Slash = Append(none, x)
    BY <1>1
  <2> HIDE DEF none, x
  <2>2. \A d : Resolve(d, Root, Append(none, x)) = Lookup(d, Resolve(d, Root, none), x)
    BY <2>1, ResolveNext
  <2> QED BY <2>1, <2>2 DEF none, x
<1>3. Root \in Dirs(t) /\ IsDir(t, Root)
  BY DirsAre DEF IsFiles, IsTree
<1>4. Follow(Root, "") = Root
  <2> DEFINE x == ""
  <2>1. x \in {"", "."} /\ x # ".."
    OBVIOUS
  <2> HIDE DEF x
  <2>2. Follow(Root, x) = Root
    BY <2>1 DEF Follow
  <2> QED BY <2>2 DEF x
<1>5. Walk(t, Slash) = Lookup(Dirs(t), Root, "")
  BY <1>2, ResolveNone DEF Walk
<1>6. Lookup(Dirs(t), Root, "") = Root
  BY <1>3, <1>4 DEF Lookup
<1> QED BY <1>3, <1>5, <1>6

\* A name in a directory.
LEMMA WalkName ==
    ASSUME NEW t, IsFiles(t), NEW p \in Texts, IsDir(t, Walk(t, p)), NEW name \in Names
    PROVE  Walk(t, p \o <<name>>) = Append(Walk(t, p), name)
<1>1. p \in Seq(Parts) /\ name \in Parts
  BY DEF Texts, Parts
<1>2. p \o <<name>> = Append(p, name)
  BY <1>1
<1>3. Walk(t, p \o <<name>>) = Lookup(Dirs(t), Walk(t, p), name)
  <2>1. \A d : Resolve(d, Root, Append(p, name)) = Lookup(d, Resolve(d, Root, p), name)
    BY <1>1, ResolveNext
  <2> QED BY <1>2, <2>1 DEF Walk
<1>4. Walk(t, p) \in Dirs(t) /\ Walk(t, p) \in Nodal
  BY DirsAre, NodalFacts DEF IsDir, IsFiles
<1> QED BY <1>3, <1>4, NodalFacts DEF Lookup

LEMMA WalkConcat ==
    ASSUME NEW t, NEW p \in Texts, NEW q \in Texts
    PROVE  Walk(t, p \o q) = Resolve(Dirs(t), Walk(t, p), q)
<1>1. \A d, r : Resolve(d, r, p \o q) = Resolve(d, Resolve(d, r, p), q)
  BY TextsJoin, ResolveConcat
<1> QED BY <1>1 DEF Walk

-----------------------------------------------------------------------------
(* Working directories.                                                    *)

\* The ways in which cwd changes.
LEMMA CwdMoves ==
    ASSUME TypeOK, [Next]_vars, NEW s \in Sessions
    PROVE  \/ cwd'[s] = cwd[s]
           \/ /\ tree' = tree /\ job' = job /\ job[s].pc = "idle"
              /\ \/ cwd'[s] = Slash
                 \/ Len(cwd[s]) # 1 /\ cwd'[s] = Front(cwd[s])
                 \/ \E a \in Arguments :
                       IsDir(tree, Target(s, a)) /\ cwd'[s] = Abspath(s, a)
<1>0. cwd \in [Sessions -> Texts \ {<<>>}]
  BY DEF TypeOK
<1>1. CASE \E r \in Sessions : Cwd(r)
  BY <1>0, <1>1 DEF Cwd, Command
<1>2. CASE \E r \in Sessions : Cdup(r)
  BY <1>0, <1>2 DEF Cdup, Command
<1>3. CASE \E r \in Sessions : Reconnect(r)
  BY <1>0, <1>3 DEF Reconnect
<1>4. CASE UNCHANGED cwd
  BY <1>4
<1>5. CASE \E r \in Sessions : \/ Mkd(r) \/ Store(r) \/ Dele(r) \/ Rmd(r)
                               \/ Rnfr(r) \/ RntoStat(r) \/ Rename(r) \/ RenameFail(r)
                               \/ ListOpen(r) \/ ListLine(r) \/ ListEnd(r)
  BY <1>4, <1>5 DEF Mkd, Store, Dele, Rmd, Rnfr, RntoStat, Rename, RenameFail, ListOpen,
                    ListLine, ListEnd
<1> QED BY <1>1, <1>2, <1>3, <1>4, <1>5 DEF Next, vars

\* A text that is not empty goes through its front.
LEMMA FrontText ==
    ASSUME NEW text \in Texts, text # <<>>
    PROVE  /\ Front(text) \in Texts
           /\ \E x \in Parts : text = Append(Front(text), x) /\ text = Front(text) \o <<x>>
                               /\ <<x>> \in Texts
           /\ Len(text) # 1 => Front(text) # <<>>
<1>1. text \in Seq(Parts) /\ Texts = Seq(Parts)
  BY DEF Texts, Parts
<1>2. PICK u \in Seq(Parts), x \in Parts : text = Append(u, x)
  BY <1>1, SequenceEmptyOrAppend
<1>3. Front(text) = u /\ (Len(text) # 1 => u # <<>>)
  BY <1>2 DEF Front
<1>4. text = u \o <<x>> /\ <<x>> \in Seq(Parts)
  BY <1>2
<1> QED BY <1>1, <1>2, <1>3, <1>4

\* THEOREM WorkingDirectoryStays: no command makes a client's working directory
\* anything but a directory, as long as no directory goes away, although CWD
\* checks a path once and keeps its text and CDUP checks nothing (CwdStays of
\* the run ftp_paths).
THEOREM WorkingDirectoryStays == Spec => CwdStays
<1>1. ASSUME TypeOK, [Next]_vars, NEW s \in Sessions, IsDir(tree, Walk(tree, cwd[s])),
             \A n \in DOMAIN tree : IsDir(tree, n) => IsDir(tree', n)
      PROVE  IsDir(tree', Walk(tree', cwd'[s]))
  <2>1. IsFiles(tree) /\ cwd[s] \in Texts /\ cwd[s] # <<>>
    BY <1>1, Typed
  <2>2. CASE cwd'[s] = cwd[s]
    <3>1. Dirs(tree) \subseteq Dirs(tree')
      BY <1>1 DEF Dirs, IsDir
    <3>2. Walk(tree', cwd[s]) = Walk(tree, cwd[s])
      BY <1>1, <2>1, <3>1, WalkStays
    <3> QED BY <1>1, <2>2, <3>2 DEF IsDir
  <2>3. CASE tree' = tree /\ cwd'[s] = Slash
    BY <2>1, <2>3, WalkSlash
  <2>4. CASE tree' = tree /\ cwd'[s] = Front(cwd[s])
    <3>1. PICK x \in Parts : cwd[s] = Front(cwd[s]) \o <<x>> /\ <<x>> \in Texts
      BY <2>1, FrontText
    <3>2. Walk(tree, cwd[s]) # Nowhere
      BY <1>1, <2>1, DirsAre DEF IsDir
    <3>3. Front(cwd[s]) \in Texts /\ <<x>> # <<>>
      BY <2>1, FrontText
    <3>4. IsDir(tree, Walk(tree, Front(cwd[s])))
      BY <2>1, <3>1, <3>2, <3>3, WalkFront
    <3> QED BY <2>4, <3>4
  <2>5. CASE tree' = tree /\ \E a \in Arguments :
                 IsDir(tree, Target(s, a)) /\ cwd'[s] = Abspath(s, a)
    BY <2>5 DEF Target
  <2> QED BY <1>1, <2>2, <2>3, <2>4, <2>5, CwdMoves
<1>2. TypeOK /\ [Next]_vars =>
        [\A s \in Sessions :
            /\ IsDir(tree, Walk(tree, cwd[s]))
            /\ \A n \in DOMAIN tree : IsDir(tree, n) => IsDir(tree', n)
            => IsDir(tree', Walk(tree', cwd'[s]))]_vars
  BY <1>1
<1> QED BY <1>2, TypeCorrect, PTL DEF Spec, CwdStays

-----------------------------------------------------------------------------
(* Listings.                                                               *)

\* LIST with argument a stats in the directory it opens.
SamePlace(s, a) ==
    \/ a = NoArg \/ a.rooted
    \/ Normal(cwd[s]) = ProcessDir /\ IsDir(tree, Walk(tree, cwd[s]))

LEMMA Place ==
    ASSUME TypeOK, NEW s \in Sessions, NEW a \in Arguments \cup {NoArg},
           IsDir(tree, Walk(tree, Opened(s, a))), SamePlace(s, a)
    PROVE  /\ Walk(tree, Opened(s, a)) = Normal(Abspath(s, a))
           /\ \A name \in Names :
                 Walk(tree, Listed(s, a, name)) = Append(Normal(Abspath(s, a)), name)
<1>0. IsFiles(tree) /\ cwd[s] \in Texts
  BY Typed
<1>1. ASSUME NEW p \in Texts, IsDir(tree, Walk(tree, p))
      PROVE  /\ Walk(tree, p) = Normal(p)
             /\ \A name \in Names : Walk(tree, p \o <<name>>) = Append(Walk(tree, p), name)
  <2>1. Walk(tree, p) # Nowhere
    BY <1>0, <1>1, DirsAre DEF IsDir
  <2> QED BY <1>0, <1>1, <2>1, WalkIsNormal, WalkName
<1>2. CASE a = NoArg
  <2>1. Opened(s, a) = cwd[s] /\ \A name \in Names : Listed(s, a, name) = cwd[s] \o <<name>>
    BY <1>2 DEF Opened, Listed, NoArg
  <2>2. Abspath(s, a) = cwd[s]
    <3>1. cwd[s] \o <<>> = cwd[s]
      BY <1>0, TextsJoin
    <3> QED BY <1>2, <3>1 DEF Abspath, NoArg
  <2> QED BY <1>0, <1>1, <2>1, <2>2
<1>3. CASE a # NoArg /\ a.rooted
  <2>1. /\ Opened(s, a) = a.parts /\ Abspath(s, a) = a.parts
        /\ \A name \in Names : Listed(s, a, name) = a.parts \o <<name>>
    BY <1>3 DEF Opened, Listed, Abspath
  <2>2. a.parts \in Texts
    BY <1>3, Typed
  <2> QED BY <1>1, <2>1, <2>2
<1>4. CASE a # NoArg /\ ~a.rooted
  <2> DEFINE q == a.parts
             d == Normal(cwd[s])
             far == Slash \o cwd[s]
             D == Resolve(Dirs(tree), d, q)
  <2>1. /\ Opened(s, a) = d \o q /\ Abspath(s, a) = cwd[s] \o q
        /\ \A name \in Names : Listed(s, a, name) = Slash \o cwd[s] \o q \o <<name>>
    BY <1>4 DEF Opened, Listed, Abspath, SamePlace
  <2>2. q \in Texts /\ q # <<>>
    BY <1>4, Typed
  <2>3. d \in Texts /\ Normal(d) = d /\ Walk(tree, cwd[s]) = d
    <3>1. IsDir(tree, Walk(tree, cwd[s]))
      BY <1>4 DEF SamePlace
    <3> QED BY <1>0, <1>1, <3>1, NormalNode, NodeIsNormal
  <2>4. Slash \in Texts /\ far \in Texts
    BY <1>0, TextsJoin
  <2>5. Normal(cwd[s] \o q) = Normal(d \o q)
    BY <1>0, <2>2, NormalConcat
  <2>6. Walk(tree, far) = d
    <3>1. Walk(tree, far) = Resolve(Dirs(tree), Root, cwd[s])
      BY <1>0, <2>4, WalkConcat, WalkSlash
    <3> QED BY <2>3, <3>1 DEF Walk
  <2> HIDE DEF q, d, far
  <2>7. d \o q \in Texts /\ far \o q \in Texts
    BY <2>2, <2>3, <2>4, TextsJoin
  <2>8. Walk(tree, d \o q) = Normal(d \o q) /\ IsDir(tree, Walk(tree, d \o q))
    BY <1>1, <2>1, <2>7
  <2>9. Walk(tree, d) = d
    <3>1. Walk(tree, d \o q) # Nowhere
      BY <1>0, <2>8, DirsAre DEF IsDir
    <3>2. IsDir(tree, Walk(tree, d))
      BY <1>0, <2>2, <2>3, <3>1, WalkFront
    <3> QED BY <1>1, <2>3, <3>2
  <2>10. Walk(tree, far \o q) = Walk(tree, d \o q)
    BY <2>2, <2>3, <2>4, <2>6, <2>9, WalkConcat
  <2>11. ASSUME NEW name \in Names
         PROVE  Walk(tree, (far \o q) \o <<name>>) = Append(Walk(tree, d \o q), name)
    BY <1>1, <2>7, <2>8, <2>10
  <2>12. \A name \in Names : Listed(s, a, name) = (far \o q) \o <<name>>
    BY <2>1 DEF far
  <2> QED BY <2>1, <2>5, <2>8, <2>11, <2>12
<1> QED BY <1>2, <1>3, <1>4

\* The entries of a directory are its names put behind it.
LEMMA ChildrenAre ==
    ASSUME NEW t, IsFiles(t), NEW d \in Nodal
    PROVE  /\ \A m \in Children(t, d) : Last(m) \in Names /\ m = Append(d, Last(m))
           /\ \A x : Append(d, x) \in DOMAIN t =>
                        Append(d, x) \in Children(t, d) /\ Last(Append(d, x)) = x
<1>1. ASSUME NEW m \in Children(t, d)
      PROVE  Last(m) \in Names /\ m = Append(d, Last(m))
  <2>1. m \in Seq(Names) /\ m # <<>> /\ Front(m) = d
    BY NodalFacts DEF Children, IsFiles, Nodal, Root
  <2>2. PICK u \in Seq(Names), x \in Names : m = Append(u, x)
    BY <2>1, SequenceEmptyOrAppend
  <2>3. Front(m) = u /\ Last(m) = x
    BY <2>2 DEF Front, Last
  <2> QED BY <2>1, <2>2, <2>3
<1>2. ASSUME NEW x, Append(d, x) \in DOMAIN t
      PROVE  Append(d, x) \in Children(t, d) /\ Last(Append(d, x)) = x
  <2>1. /\ Append(d, x) # <<>> /\ Front(Append(d, x)) = d /\ Last(Append(d, x)) = x
    BY DEF Nodal, Front, Last
  <2> QED BY <1>2, <2>1 DEF Children, Root
<1> QED BY <1>1, <1>2

-----------------------------------------------------------------------------
\* A listing in progress: the directory of arg is open, and what has been
\* printed is what is in it, without what is still to do.
Progress(s) ==
    LET kids == Children(tree, Normal(Abspath(s, job[s].arg)))
    IN  /\ IsDir(tree, Walk(tree, Opened(s, job[s].arg)))
        /\ job[s].todo \subseteq {Last(m) : m \in kids}
        /\ job[s].listing = {<<Last(m), tree[m]>> : m \in {k \in kids : Last(k) \notin job[s].todo}}

Listing(s) == job[s].pc = "list" /\ quiet[s] /\ SamePlace(s, job[s].arg)

ListInv == \A s \in Sessions : Listing(s) => Progress(s)

\* Whoever does nothing keeps what he has, unless he is disturbed.
LEMMA ListKept ==
    ASSUME NEW s \in Sessions, Listing(s) => Progress(s),
           tree' = tree, cwd'[s] = cwd[s], job'[s] = job[s], quiet'[s] = quiet[s]
    PROVE  Listing(s)' => Progress(s)'
<1>1. /\ Abspath(s, job[s].arg)' = Abspath(s, job[s].arg)
      /\ Opened(s, job[s].arg)' = Opened(s, job[s].arg)
      /\ SamePlace(s, job[s].arg)' = SamePlace(s, job[s].arg)
  BY DEF Abspath, Opened, SamePlace
<1> QED BY <1>1 DEF Listing, Progress

LEMMA ListStart == Init => ListInv
BY DEF Init, Idle, ListInv, Listing

LEMMA ListStep == TypeOK /\ ListInv /\ [Next]_vars => ListInv'
<1> SUFFICES ASSUME TypeOK, ListInv, [Next]_vars PROVE ListInv'
  OBVIOUS
<1> DEFINE Jobs == [pc : {"idle", "rename", "list"}, arg : Arguments \cup {NoArg},
                    todo : SUBSET Names, listing : SUBSET (Names \X Kinds)]
<1>types. /\ IsFiles(tree) /\ job \in [Sessions -> Jobs]
          /\ quiet \in [Sessions -> BOOLEAN]
  BY Typed DEF TypeOK
<1>idle. ASSUME NEW s \in Sessions, job'[s].pc # "list"
         PROVE  Listing(s)' => Progress(s)'
  BY <1>idle DEF Listing
<1>cwd. ASSUME NEW s \in Sessions, job[s].pc # "idle"
        PROVE  cwd'[s] = cwd[s]
  BY <1>cwd, CwdMoves
\* An action of another session, or one that leaves the job alone.
<1>frame. ASSUME NEW r \in Sessions, job'[r] = job[r], tree' = tree, quiet'[r] = quiet[r]
          PROVE  Listing(r)' => Progress(r)'
  <2>1. CASE job[r].pc = "list"
    BY <1>frame, <1>cwd, <2>1, ListKept DEF ListInv
  <2>2. CASE job[r].pc # "list"
    BY <1>frame, <1>idle, <2>2
  <2> QED BY <2>1, <2>2
<1>change. ASSUME NEW r \in Sessions, job'[r] = job[r], NEW t, Change(t)
           PROVE  Listing(r)' => Progress(r)'
  <2>1. tree' = t /\ quiet'[r] = (quiet[r] /\ (t = tree \/ job[r].pc = "idle"))
    BY <1>change DEF Change
  <2>2. CASE t = tree
    BY <1>change, <1>frame, <1>types, <2>1, <2>2
  <2>3. CASE job[r].pc = "idle"
    BY <1>change, <1>idle, <2>3
  <2>4. CASE t # tree /\ job[r].pc # "idle"
    BY <2>1, <2>4 DEF Listing
  <2> QED BY <2>2, <2>3, <2>4
<1>1. ASSUME NEW s \in Sessions, Mkd(s) \/ Store(s) \/ Dele(s) \/ Rmd(s)
      PROVE  ListInv'
  <2>1. job' = job /\ \E t : Change(t)
    BY <1>1 DEF Mkd, Store, Dele, Rmd
  <2> QED BY <1>change, <2>1 DEF ListInv
<1>2. ASSUME NEW s \in Sessions, Cwd(s) \/ Cdup(s) \/ Rnfr(s) \/ Reconnect(s)
      PROVE  ListInv'
  <2>1. job' = job /\ tree' = tree /\ quiet' = quiet
    BY <1>2 DEF Cwd, Cdup, Rnfr, Reconnect
  <2> QED BY <1>frame, <2>1 DEF ListInv
<1>3. ASSUME NEW s \in Sessions, RntoStat(s) \/ RenameFail(s) \/ ListEnd(s)
      PROVE  ListInv'
  <2>1. tree' = tree /\ quiet' = quiet
    BY <1>3 DEF RntoStat, RenameFail, ListEnd
  <2>2. PICK j : job' = [job EXCEPT ![s] = j] /\ j.pc # "list"
    <3>1. CASE RntoStat(s)
      <4>1. PICK a \in FileArguments :
               job' = [job EXCEPT ![s] = [Idle EXCEPT !.pc = "rename", !.arg = a]]
        BY <3>1 DEF RntoStat
      <4> DEFINE j == [Idle EXCEPT !.pc = "rename", !.arg = a]
      <4>2. j.pc # "list"
        BY DEF Idle
      <4>3. job' = [job EXCEPT ![s] = j]
        BY <4>1
      <4> HIDE DEF j
      <4> QED BY <4>2, <4>3
    <3>2. CASE RenameFail(s) \/ ListEnd(s)
      <4>1. job' = [job EXCEPT ![s] = Idle] /\ Idle.pc # "list"
        BY <3>2 DEF RenameFail, ListEnd, Idle
      <4> QED BY <4>1
    <3> QED BY <1>3, <3>1, <3>2
  <2>3. job'[s].pc # "list" /\ \A r \in Sessions \ {s} : job'[r] = job[r]
    BY <1>types, <2>2
  <2> QED BY <1>frame, <1>idle, <2>1, <2>3 DEF ListInv
<1>4. ASSUME NEW s \in Sessions, Rename(s)
      PROVE  ListInv'
  <2>1. Change(Renamed(tree, Walk(tree, rename_path[s]), Target(s, job[s].arg)))
    BY <1>4 DEF Rename
  <2>2. job'[s].pc # "list" /\ \A r \in Sessions \ {s} : job'[r] = job[r]
    BY <1>4, <1>types DEF Rename, Idle
  <2> QED BY <1>change, <1>idle, <2>1, <2>2 DEF ListInv
<1>5. ASSUME NEW s \in Sessions, ListOpen(s)
      PROVE  ListInv'
  <2>1. PICK a \in Arguments \cup {NoArg} :
           /\ IsDir(tree, Walk(tree, Opened(s, a)))
           /\ job' = [job EXCEPT ![s] =
                     [pc |-> "list", arg |-> a, listing |-> {},
                      todo |-> {Last(m) : m \in Children(tree, Walk(tree, Opened(s, a)))}]]
    BY <1>5 DEF ListOpen
  <2>2. tree' = tree /\ cwd' = cwd /\ \A r \in Sessions \ {s} : quiet'[r] = quiet[r]
    BY <1>5, <1>types DEF ListOpen
  <2>3. \A r \in Sessions \ {s} : job'[r] = job[r]
    BY <2>1, <1>types
  <2>4. ASSUME Listing(s)'
        PROVE  Progress(s)'
    <3> DEFINE kids == Children(tree, Walk(tree, Opened(s, a)))
    <3>1. /\ job'[s].arg = a /\ job'[s].listing = {}
          /\ job'[s].todo = {Last(m) : m \in kids}
      BY <2>1, <1>types
    <3>2. /\ Abspath(s, job[s].arg)' = Abspath(s, a)
          /\ Opened(s, job[s].arg)' = Opened(s, a)
      BY <2>2, <3>1 DEF Abspath, Opened
    <3>3. SamePlace(s, a)
      BY <2>2, <2>4, <3>1 DEF Listing, SamePlace
    <3>4. Walk(tree, Opened(s, a)) = Normal(Abspath(s, a))
      BY <2>1, <3>3, Place
    <3> DEFINE node == Normal(Abspath(s, a))
    <3> HIDE DEF node
    <3>5. kids = Children(tree, node) /\ IsDir(tree', Walk(tree', Opened(s, a)))
      BY <2>1, <2>2, <3>4 DEF node
    <3>6. {k \in Children(tree, node) : Last(k) \notin job'[s].todo} = {}
      BY <3>1, <3>5
    <3> HIDE DEF kids
    <3> QED BY <2>2, <3>1, <3>2, <3>5, <3>6 DEF Progress, node
  <2> QED BY <1>frame, <2>2, <2>3, <2>4 DEF ListInv
<1>6. ASSUME NEW s \in Sessions, ListLine(s)
      PROVE  ListInv'
  <2> DEFINE a == job[s].arg
             d == Normal(Abspath(s, a))
  <2>1. PICK name \in job[s].todo :
          LET n == Walk(tree, Listed(s, job[s].arg, name))
          IN  job' = [job EXCEPT
                 ![s].todo = @ \ {name},
                 ![s].listing = IF n \in DOMAIN tree THEN @ \cup {<<name, tree[n]>>} ELSE @]
    BY <1>6 DEF ListLine
  <2> DEFINE n    == Walk(tree, Listed(s, job[s].arg, name))
             more == IF n \in DOMAIN tree THEN job[s].listing \cup {<<name, tree[n]>>}
                                          ELSE job[s].listing
  <2>2. tree' = tree /\ cwd' = cwd /\ quiet' = quiet
    BY <1>6 DEF ListLine
  <2>3. job[s] \in Jobs /\ name \in Names
    BY <2>1, <1>types
  <2>4. /\ \A r \in Sessions \ {s} : job'[r] = job[r]
        /\ job'[s].arg = a /\ job'[s].pc = job[s].pc
        /\ job'[s].todo = job[s].todo \ {name} /\ job'[s].listing = more
    <3> HIDE DEF n
    <3>1. job' = [job EXCEPT ![s].todo = @ \ {name}, ![s].listing = more]
      BY <2>1 DEF n
    <3> HIDE DEF more, Jobs, a
    <3>2. /\ job' = [job EXCEPT ![s] = [job[s] EXCEPT !.todo = @ \ {name}, !.listing = more]]
      BY <3>1, <1>types
    <3>3. job'[s] = [job[s] EXCEPT !.todo = @ \ {name}, !.listing = more]
      BY <3>2, <1>types
    <3> QED BY <2>3, <3>2, <3>3, <1>types DEF Jobs, a
  <2>5. ASSUME Listing(s)'
        PROVE  Progress(s)'
    <3>1. /\ Abspath(s, job[s].arg)' = Abspath(s, a)
          /\ Opened(s, job[s].arg)' = Opened(s, a)
          /\ SamePlace(s, job[s].arg)' = SamePlace(s, a)
      BY <2>2, <2>4 DEF Abspath, Opened, SamePlace
    <3>2. SamePlace(s, a) /\ Progress(s)
      BY <2>2, <2>4, <2>5, <3>1 DEF Listing, ListInv
    <3> DEFINE kids == Children(tree, d)
    <3>3. /\ IsDir(tree, Walk(tree, Opened(s, a)))
          /\ job[s].todo \subseteq {Last(m) : m \in kids}
          /\ job[s].listing =
                {<<Last(m), tree[m]>> : m \in {k \in kids : Last(k) \notin job[s].todo}}
      BY <3>2 DEF Progress
    <3>4. Walk(tree, Opened(s, a)) = d /\ n = Append(d, name)
      <4>1. a \in Arguments \cup {NoArg}
        BY <2>3
      <4> QED BY <2>3, <3>2, <3>3, <4>1, Place
    <3>5. d \in Nodal
      BY <1>types, <3>3, <3>4, NodalFacts DEF IsDir, IsFiles
    <3> HIDE DEF d, n, kids
    <3>6. PICK m \in kids : Last(m) = name
      BY <2>1, <3>3
    <3>7. /\ \A k \in kids : k = Append(d, Last(k))
          /\ m = n /\ n \in DOMAIN tree
      <4>1. \A k \in kids : k = Append(d, Last(k))
        BY <1>types, <3>5, ChildrenAre DEF kids
      <4>2. m \in DOMAIN tree
        BY DEF kids, Children
      <4> QED BY <3>4, <3>6, <4>1, <4>2
    <3>8. {k \in kids : Last(k) \notin job'[s].todo}
            = {k \in kids : Last(k) \notin job[s].todo} \cup {m}
      BY <2>4, <3>4, <3>6, <3>7
    <3>9. more = job[s].listing \cup {<<Last(m), tree[m]>>}
      BY <3>6, <3>7
    <3>10. job'[s].listing =
             {<<Last(k), tree[k]>> : k \in {j \in kids : Last(j) \notin job'[s].todo}}
      BY <2>4, <3>3, <3>8, <3>9
    <3>11. job'[s].todo \subseteq {Last(k) : k \in kids}
      BY <2>4, <3>3
    <3> QED BY <2>2, <3>1, <3>3, <3>10, <3>11 DEF Progress, d, kids
  <2> QED BY <1>frame, <2>2, <2>4, <2>5 DEF ListInv
<1>7. CASE UNCHANGED vars
  BY <1>7, <1>frame DEF ListInv, vars
<1> QED BY <1>1, <1>2, <1>3, <1>4, <1>5, <1>6, <1>7 DEF Next

\* THEOREM ListingIsExact: whatever other clients do in between, a listing
\* nobody has disturbed is that of the directory the client means, although
\* ftp_cmd_LIST opens one text and stats with another (ListExact of the run
\* ftp_paths).
THEOREM ListingIsExact == Spec => []ListExact
<1>1. ListInv => ListExact
  <2> SUFFICES ASSUME ListInv, NEW s \in Sessions, Listing(s), job[s].todo = {}
               PROVE  job[s].listing =
                        {<<Last(m), tree[m]>> : m \in Children(tree, Normal(Abspath(s, job[s].arg)))}
    BY DEF ListExact, Listing, SamePlace
  <2> DEFINE kids == Children(tree, Normal(Abspath(s, job[s].arg)))
  <2>1. Progress(s)
    BY DEF ListInv
  <2>2. {k \in kids : Last(k) \notin job[s].todo} = kids
    OBVIOUS
  <2> QED BY <2>1, <2>2 DEF Progress
<1>2. Spec => []ListInv
  BY TypeCorrect, ListStart, ListStep, PTL DEF Spec
<1> QED BY <1>1, <1>2, PTL

-----------------------------------------------------------------------------
(* The directory commands.                                                 *)

\* FtpDirectory's own copies of FileTree's operators.
LEMMA SameOperators ==
    /\ Directory!Root = Root
    /\ Directory!Kinds = Kinds
    /\ \A n : Directory!Parent(n) = Parent(n)
    /\ \A t, n : Directory!IsDir(t, n) = IsDir(t, n)
    /\ \A t, n : Directory!Children(t, n) = Children(t, n)
    /\ \A t, n : Directory!CanMake(t, n) = CanMake(t, n)
    /\ \A t, n, k : Directory!Made(t, n, k) = Made(t, n, k)
    /\ \A t, n : Directory!CanRemove(t, n) = CanRemove(t, n)
    /\ \A t, n : Directory!Removed(t, n) = Removed(t, n)
    /\ \A t, m, n : Directory!CanRename(t, m, n) = CanRename(t, m, n)
    /\ \A t, m, n : Directory!Renamed(t, m, n) = Renamed(t, m, n)
    /\ \A text : Directory!Normal(text) = Normal(text)
    /\ \A text : Directory!Plain(text) = Plain(text)
<1>1. Directory!Root = Root /\ Directory!Kinds = Kinds
  BY DEF Directory!Root, Root, Directory!Kinds, Kinds
<1>2. \A n : Directory!Parent(n) = Parent(n)
  BY DEF Directory!Parent, Parent, Directory!Root, Root, Directory!Front, Front
<1>3. \A t, n : Directory!IsDir(t, n) = IsDir(t, n)
  BY DEF Directory!IsDir, IsDir
<1>4. \A t, n : Directory!Children(t, n) = Children(t, n)
  BY DEF Directory!Children, Children, Directory!Root, Root, Directory!Front, Front
<1>5. \A t, n : Directory!CanMake(t, n) = CanMake(t, n)
  BY <1>1, <1>2, <1>3 DEF Directory!CanMake, CanMake
<1>6. \A t, n, k : Directory!Made(t, n, k) = Made(t, n, k)
  BY DEF Directory!Made, Made
<1>7. \A t, n : Directory!CanRemove(t, n) = CanRemove(t, n)
  BY <1>1, <1>4 DEF Directory!CanRemove, CanRemove
<1>8. \A t, n : Directory!Removed(t, n) = Removed(t, n)
  BY DEF Directory!Removed, Removed, Directory!Restrict, Restrict
<1>9. \A t, m, n : Directory!CanRename(t, m, n) = CanRename(t, m, n)
  BY <1>1, <1>2, <1>3, <1>4 DEF Directory!CanRename, CanRename, Directory!IsPrefix, IsPrefix
<1>10. \A t, m, n : Directory!Renamed(t, m, n) = Renamed(t, m, n)
  BY DEF Directory!Renamed, Renamed, Directory!IsPrefix, IsPrefix, Directory!Beneath, Beneath,
         Directory!Source, Source
<1>11. \A text : Directory!Normal(text) = Normal(text)
  BY DEF Directory!Normal, Normal, Directory!Resolve, Resolve, Directory!Lookup, Lookup,
         Directory!Follow, Follow, Directory!Parent, Parent, Directory!Root, Root,
         Directory!Front, Front, Directory!Nowhere, Nowhere
<1>12. \A text : Directory!Plain(text) = Plain(text)
  BY DEF Directory!Plain, Plain
<1> QED BY <1>1, <1>2, <1>3, <1>4, <1>5, <1>6, <1>7, <1>8, <1>9, <1>10, <1>11, <1>12

\* The components that are no names.
Blank == ""
Dots  == {".", ".."}

LEMMA Components ==
    /\ Parts = Names \cup {Blank} \cup Dots /\ Blank \notin Dots
    /\ Slash = <<Blank>> /\ \A n : Follow(n, Blank) = n
<1>1. Parts = Names \cup {Blank} \cup Dots
  BY Zenon DEF Parts, Blank, Dots
<1>2. Slash = <<Blank>>
  BY DEF Slash, Blank
<1>3. Blank \in {"", "."} /\ Blank \notin Dots
  BY Zenon DEF Blank, Dots
<1>4. \A n : Follow(n, Blank) = n
  BY <1>3, Zenon DEF Follow
<1> QED BY <1>1, <1>2, <1>3, <1>4

LEMMA PlainIs ==
    ASSUME NEW text
    PROVE  Plain(text) <=>
              \A i \in DOMAIN text :
                 /\ text[i] \notin Dots
                 /\ text[i] = Blank => \A j \in 1 .. i : text[j] = Blank
BY Zenon DEF Plain, Blank, Dots

\* Put together, texts without "." and the like are such a text.
LEMMA PlainConcat ==
    ASSUME NEW p \in Texts, p # <<>>, NEW q \in Texts, q # <<>>, q[1] # Blank
    PROVE  Plain(p \o q) <=> Plain(p) /\ Plain(q)
<1> DEFINE m == Len(p)
           k == Len(q)
           t == p \o q
<1>1. /\ m \in Nat /\ k \in Nat /\ 1 <= m /\ 1 <= k
      /\ \A i \in 1 .. m : t[i] = p[i]
      /\ \A i \in 1 .. k : t[m + i] = q[i]
      /\ DOMAIN p = 1 .. m /\ DOMAIN q = 1 .. k /\ DOMAIN t = 1 .. m + k
  <2>1. p \in Seq(Parts) /\ q \in Seq(Parts)
    BY DEF Texts, Parts
  <2> QED BY <2>1
<1> HIDE DEF m, k, t
<1>2. ASSUME Plain(t)
      PROVE  Plain(p) /\ Plain(q)
  <2>1. Plain(p)
    BY <1>1, <1>2, PlainIs
  <2>2. ASSUME NEW i \in 1 .. k
        PROVE  q[i] \notin Dots /\ q[i] # Blank
    <3>0. i \in Nat /\ 1 <= i /\ i <= k
      BY <1>1
    <3>1. m + i \in 1 .. m + k /\ m + 1 \in 1 .. m + i /\ t[m + i] = q[i] /\ t[m + 1] = q[1]
      BY <1>1, <3>0
    <3> QED BY <1>1, <1>2, <3>1, PlainIs
  <2> QED BY <1>1, <2>1, <2>2, PlainIs
<1>3. ASSUME Plain(p), Plain(q)
      PROVE  Plain(t)
  <2>1. ASSUME NEW i \in 1 .. k
        PROVE  q[i] \notin Dots /\ q[i] # Blank
    <3>1. 1 \in 1 .. i
      BY <1>1
    <3>2. Plain(q)
      BY <1>3
    <3> QED BY <1>1, <3>1, <3>2, PlainIs
  <2>2. ASSUME NEW i \in 1 .. m + k
        PROVE  /\ t[i] \notin Dots
               /\ t[i] = Blank => \A j \in 1 .. i : t[j] = Blank
    <3>1. CASE i \in 1 .. m
      <4>1. \A j \in 1 .. i : j \in 1 .. m
        BY <1>1, <3>1
      <4> QED BY <1>1, <1>3, <3>1, <4>1, PlainIs
    <3>2. CASE i \notin 1 .. m
      <4>1. i - m \in 1 .. k /\ m + (i - m) = i
        BY <1>1, <3>2
      <4> QED BY <1>1, <2>1, <4>1
    <3> QED BY <3>1, <3>2
  <2> QED BY <1>1, <2>2, PlainIs
<1> QED BY <1>2, <1>3 DEF t

\* Nothing but slashes is the root.
LEMMA SlashesAreRoot ==
    ASSUME NEW text \in Texts, \A i \in 1 .. Len(text) : text[i] = Blank
    PROVE  Normal(text) = Root
<1> DEFINE Blanks == {Blank}
           P == {u \in Seq(Blanks) : Normal(u) = Root}
<1>0. Blanks \subseteq Parts /\ Seq(Blanks) \subseteq Texts /\ Texts = Seq(Parts)
  <2>1. Blanks \subseteq Parts
    BY Components
  <2> QED BY <2>1, SeqOfMore, TextsJoin
<1>1. <<>> \in P
  BY ResolveNone DEF Normal
<1>2. ASSUME NEW u \in Seq(Blanks), u \in P, NEW x \in Blanks
      PROVE  Append(u, x) \in P
  <2>1. x \in Parts /\ u \in Texts
    BY <1>0
  <2>2. Normal(Append(u, x)) = Follow(Root, x)
    BY <1>2, <2>1, NormalNode
  <2>3. Follow(Root, x) = Root
    BY Components
  <2> QED BY <1>2, <2>2, <2>3
<1> HIDE DEF P
<1>3. text \in Seq(Blanks)
  <2>1. SubSeq(text, 1, Len(text)) \in Seq(Blanks)
    BY <1>0, SubSeqProperties, LenProperties
  <2> QED BY <1>0, <2>1, SubSeqFull
<1> HIDE DEF Blanks
<1>4. text \in P
  BY <1>1, <1>2, <1>3, ByLength
<1> QED BY <1>4 DEF P

\* Cutting such a text at its last slash goes to the parent.
LEMMA PlainFront ==
    ASSUME NEW text \in Texts, text # <<>>, Plain(text)
    PROVE  Normal(Front(text)) = Parent(Normal(text)) /\ Plain(Front(text))
<1>1. PICK x \in Parts : text = Append(Front(text), x) /\ Front(text) \in Texts
  BY FrontText
<1> DEFINE u == Front(text)
           n == Normal(u)
<1>2. /\ Len(u) \in Nat /\ Len(text) = Len(u) + 1 /\ text[Len(u) + 1] = x
      /\ \A i \in 1 .. Len(u) : text[i] = u[i]
      /\ DOMAIN u = 1 .. Len(u) /\ DOMAIN text = 1 .. Len(u) + 1
  <2> HIDE DEF u
  <2>1. u \in Seq(Parts) /\ text = Append(u, x)
    BY <1>1 DEF u, Texts, Parts
  <2> QED BY <2>1
<1>3. u \in Texts /\ Normal(text) = Follow(n, x) /\ n \in Nodal
  <2>1. u \in Texts /\ text = Append(u, x)
    BY <1>1
  <2> HIDE DEF u
  <2> QED BY <2>1, NormalNode
<1> HIDE DEF u, n
<1>4. Plain(u)
  BY <1>2, PlainIs
<1>5. CASE x = Blank
  <2>1. \A i \in 1 .. Len(u) + 1 : text[i] = Blank
    BY <1>2, <1>5, PlainIs
  <2>2. Normal(text) = Root
    BY <1>2, <2>1, SlashesAreRoot
  <2>3. \A i \in 1 .. Len(u) : u[i] = Blank
    BY <1>2, <2>1
  <2>4. Normal(u) = Root
    BY <1>3, <2>3, SlashesAreRoot
  <2> QED BY <1>4, <2>2, <2>4 DEF u, Parent
<1>6. CASE x # Blank
  <2>1. x \in Names
    BY <1>2, <1>6, PlainIs, Components
  <2>2. Normal(text) = Append(n, x)
    BY <1>3, <2>1, NodalFacts
  <2>3. Parent(Append(n, x)) = n
    BY <1>3, <2>1 DEF Nodal, Parent, Root, Front
  <2> QED BY <1>4, <2>2, <2>3 DEF n, u
<1> QED BY <1>5, <1>6

-----------------------------------------------------------------------------
(* The nodes on the way to a working directory.                            *)

\* Every way along a text leads to nodes.
OnNodes(text) == \A p, q \in Texts : text = p \o q => Normal(p) \in Nodes

CwdNodes == \A s \in Sessions : OnNodes(cwd[s])

LEMMA WalkedOnNodes ==
    ASSUME NEW t, IsFiles(t), NEW text \in Texts, IsDir(t, Walk(t, text))
    PROVE  OnNodes(text) /\ Walk(t, text) = Normal(text)
<1>1. ASSUME NEW p \in Texts, IsDir(t, Walk(t, p))
      PROVE  Walk(t, p) = Normal(p) /\ Normal(p) \in Nodes
  BY <1>1, DirsAre, WalkIsNormal DEF IsDir, IsFiles
<1>2. ASSUME NEW p \in Texts, NEW q \in Texts, text = p \o q
      PROVE  Normal(p) \in Nodes
  <2>1. CASE q = <<>>
    BY <1>1, <1>2, <2>1, TextsJoin
  <2>2. CASE q # <<>>
    <3>1. Walk(t, p \o q) # Nowhere
      BY <1>2, DirsAre DEF IsDir
    <3> QED BY <1>1, <2>2, <3>1, WalkFront
  <2> QED BY <2>1, <2>2
<1> QED BY <1>1, <1>2 DEF OnNodes

LEMMA SlashIsRoot ==
    ASSUME NEW t, IsFiles(t)
    PROVE  Normal(Slash) = Root /\ OnNodes(Slash) /\ Plain(Slash) /\ Root \in Nodes
<1>1. Slash \in Texts
  BY TextsJoin
<1>2. Normal(Slash) = Root /\ OnNodes(Slash)
  BY <1>1, WalkSlash, WalkedOnNodes
<1>3. Plain(Slash)
  BY Components, PlainIs
<1>4. Root \in Nodes
  BY DEF IsFiles, IsTree, IsDir
<1> QED BY <1>2, <1>3, <1>4

LEMMA FrontOnNodes ==
    ASSUME NEW text \in Texts, text # <<>>, OnNodes(text)
    PROVE  OnNodes(Front(text)) /\ Normal(Front(text)) \in Nodes
<1>1. PICK x \in Parts : text = Front(text) \o <<x>> /\ <<x>> \in Texts /\ Front(text) \in Texts
  BY FrontText
<1> DEFINE u == Front(text)
<1> HIDE DEF u
<1>2. ASSUME NEW p \in Texts, NEW q \in Texts, u = p \o q
      PROVE  Normal(p) \in Nodes
  <2>1. (p \o q) \o <<x>> = p \o (q \o <<x>>)
    <3>1. p \in Seq(Parts) /\ q \in Seq(Parts) /\ <<x>> \in Seq(Parts)
      BY <1>1, TextsJoin
    <3> QED BY <3>1, ConcatAssociative
  <2>2. q \o <<x>> \in Texts
    BY <1>1, TextsJoin
  <2> QED BY <1>1, <1>2, <2>1, <2>2 DEF OnNodes, u
<1>3. Normal(u) \in Nodes
  <2>1. u \in Texts /\ <<>> \in Texts /\ u = u \o <<>>
    BY <1>1, TextsJoin DEF u
  <2> QED BY <1>2, <2>1
<1> QED BY <1>2, <1>3 DEF OnNodes, u

LEMMA CwdNodesStart == Init => CwdNodes
<1> SUFFICES ASSUME Init PROVE CwdNodes
  OBVIOUS
<1>1. IsFiles(tree) /\ \A s \in Sessions : cwd[s] = Slash
  BY TypeStart, Typed DEF Init
<1> QED BY <1>1, SlashIsRoot DEF CwdNodes

LEMMA CwdNodesStep == TypeOK /\ CwdNodes /\ [Next]_vars => CwdNodes'
<1> SUFFICES ASSUME TypeOK, CwdNodes, [Next]_vars, NEW s \in Sessions
             PROVE  OnNodes(cwd'[s])
  BY DEF CwdNodes, OnNodes
<1>1. IsFiles(tree) /\ cwd[s] \in Texts /\ cwd[s] # <<>> /\ OnNodes(cwd[s])
  BY Typed DEF CwdNodes
<1>2. CASE cwd'[s] = cwd[s]
  BY <1>1, <1>2
<1>3. CASE cwd'[s] = Slash
  BY <1>1, <1>3, SlashIsRoot
<1>4. CASE cwd'[s] = Front(cwd[s])
  BY <1>1, <1>4, FrontOnNodes
<1>5. ASSUME NEW a \in Arguments, IsDir(tree, Target(s, a)), cwd'[s] = Abspath(s, a)
      PROVE  OnNodes(cwd'[s])
  BY <1>1, <1>5, AbspathText, WalkedOnNodes DEF Target
<1> QED BY <1>2, <1>3, <1>4, <1>5, CwdMoves

-----------------------------------------------------------------------------
\* What a session's texts mean, and what FtpDirectory sees.
wds  == [s \in Sessions |-> Normal(cwd[s])]
odds == [s \in Sessions |-> ~Plain(cwd[s])]
froms == [s \in Sessions |-> Normal(rename_path[s])]

view == <<tree, wds, odds, froms, asked>>

\* A rename has a new name.
RenameArgs == \A s \in Sessions : job[s].pc = "rename" => job[s].arg \in Arguments

LEMMA RenameArgsStart == Init => RenameArgs
BY DEF Init, Idle, RenameArgs

LEMMA RenameArgsStep == TypeOK /\ RenameArgs /\ [Next]_vars => RenameArgs'
<1> SUFFICES ASSUME TypeOK, RenameArgs, [Next]_vars, NEW r \in Sessions,
                    job'[r].pc = "rename"
             PROVE  job'[r].arg \in Arguments
  BY DEF RenameArgs
<1>types. DOMAIN job = Sessions /\ \A s \in Sessions : DOMAIN job[s] = {"pc", "arg", "todo", "listing"}
  BY DEF TypeOK
<1>0. CASE job'[r] = job[r]
  BY <1>0 DEF RenameArgs
<1>1. ASSUME NEW s \in Sessions, RntoStat(s)
      PROVE  job'[r].arg \in Arguments
  <2>1. PICK a \in FileArguments :
           job' = [job EXCEPT ![s] = [Idle EXCEPT !.pc = "rename", !.arg = a]]
    BY <1>1 DEF RntoStat
  <2> DEFINE j == [Idle EXCEPT !.pc = "rename", !.arg = a]
  <2>2. j.arg \in Arguments
    BY DEF Idle, FileArguments
  <2>3. job' = [job EXCEPT ![s] = j]
    BY <2>1
  <2> HIDE DEF j
  <2> QED BY <1>types, <1>0, <2>2, <2>3
<1>2. ASSUME NEW s \in Sessions, Rename(s) \/ RenameFail(s) \/ ListEnd(s)
      PROVE  job'[r].arg \in Arguments
  <2>1. job' = [job EXCEPT ![s] = Idle] /\ Idle.pc # "rename"
    BY <1>2 DEF Rename, RenameFail, ListEnd, Idle
  <2> QED BY <1>types, <1>0, <2>1
<1>3. ASSUME NEW s \in Sessions, ListOpen(s)
      PROVE  job'[r].arg \in Arguments
  <2>1. PICK a \in Arguments \cup {NoArg} :
           job' = [job EXCEPT ![s] =
                     [pc |-> "list", arg |-> a, listing |-> {},
                      todo |-> {Last(m) : m \in Children(tree, Walk(tree, Opened(s, a)))}]]
    BY <1>3 DEF ListOpen
  <2> QED BY <1>types, <1>0, <2>1
<1>4. ASSUME NEW s \in Sessions, ListLine(s)
      PROVE  job'[r].arg \in Arguments
  <2>1. PICK name \in job[s].todo :
          LET n == Walk(tree, Listed(s, job[s].arg, name))
          IN  job' = [job EXCEPT
                 ![s].todo = @ \ {name},
                 ![s].listing = IF n \in DOMAIN tree THEN @ \cup {<<name, tree[n]>>} ELSE @]
    BY <1>4 DEF ListLine
  <2>2. job'[r].pc = job[r].pc /\ job'[r].arg = job[r].arg
    BY <1>types, <2>1
  <2> QED BY <2>2 DEF RenameArgs
<1>5. CASE job' = job
  BY <1>0, <1>5
<1>6. ASSUME NEW s \in Sessions, \/ Cwd(s) \/ Cdup(s) \/ Mkd(s) \/ Store(s) \/ Dele(s)
                                 \/ Rmd(s) \/ Rnfr(s) \/ Reconnect(s)
      PROVE  job'[r].arg \in Arguments
  BY <1>5, <1>6 DEF Cwd, Cdup, Mkd, Store, Dele, Rmd, Rnfr, Reconnect
<1> QED BY <1>1, <1>2, <1>3, <1>4, <1>5, <1>6 DEF Next, vars

\* The node an argument means is that of the text it makes.
LEMMA MeantIs ==
    ASSUME TypeOK, NEW s \in Sessions, NEW a \in Arguments
    PROVE  /\ Directory!Meant(s, a) = Normal(Abspath(s, a))
           /\ Plain(Abspath(s, a)) <=> Plain(a.parts) /\ (a.rooted \/ Plain(cwd[s]))
<1>1. cwd[s] \in Texts /\ cwd[s] # <<>> /\ a.parts \in Texts /\ a.parts # <<>>
  BY Typed
<1>2. Directory!Meant(s, a) = Normal((IF a.rooted THEN <<>> ELSE Normal(cwd[s])) \o a.parts)
  BY SameOperators DEF Directory!Meant
<1>3. CASE a.rooted
  <2>1. <<>> \o a.parts = a.parts
    BY <1>1, TextsJoin
  <2> QED BY <1>2, <1>3, <2>1 DEF Abspath
<1>4. CASE ~a.rooted
  <2>1. Normal(cwd[s] \o a.parts) = Normal(Normal(cwd[s]) \o a.parts)
    BY <1>1, NormalConcat
  <2>2. a.parts[1] # Blank
    BY <1>4, ArgumentsAssumption, Zenon DEF Blank
  <2>3. Plain(cwd[s] \o a.parts) <=> Plain(cwd[s]) /\ Plain(a.parts)
    BY <1>1, <2>2, PlainConcat
  <2> QED BY <1>2, <1>4, <2>1, <2>3 DEF Abspath
<1> QED BY <1>3, <1>4

\* What is found is where it is meant to be.
LEMMA TargetIs ==
    ASSUME TypeOK, NEW s \in Sessions, NEW a \in Arguments, Target(s, a) \in Nodes
    PROVE  Target(s, a) = Directory!Meant(s, a)
<1>1. IsFiles(tree) /\ Abspath(s, a) \in Texts
  BY Typed
<1> QED BY <1>1, DirsAre, WalkIsNormal, MeantIs DEF Target

LEMMA SameStart == Init => Directory!Init
<1> SUFFICES ASSUME Init PROVE Directory!Init
  OBVIOUS
<1>1. tree \in Trees /\ asked = Nothing
  BY DEF Init
<1>2. IsFiles(tree)
  BY TypeStart, Typed
<1>3. /\ \A s \in Sessions : cwd[s] = Slash /\ rename_path[s] = <<>>
  BY DEF Init, NoText
<1>4. Normal(Slash) = Root /\ Plain(Slash) /\ Normal(<<>>) = Root
  BY <1>2, SlashIsRoot, ResolveNone DEF Normal
<1>5. asked = Directory!Nothing
  BY <1>1 DEF Nothing, NoArg, Directory!Nothing
<1>6. /\ wds = [s \in Sessions |-> Root]
      /\ odds = [s \in Sessions |-> FALSE]
      /\ froms = [s \in Sessions |-> Root]
  BY <1>3, <1>4 DEF wds, odds, froms
<1> QED BY <1>1, <1>5, <1>6, SameOperators DEF Directory!Init, wds, odds, froms

LEMMA SameStep == TypeOK /\ CwdNodes /\ RenameArgs /\ [Next]_vars => [Directory!Next]_view
<1> SUFFICES ASSUME TypeOK, CwdNodes, RenameArgs, [Next]_vars PROVE [Directory!Next]_view
  OBVIOUS
<1>types. /\ IsFiles(tree) /\ DOMAIN tree \subseteq Nodes
          /\ cwd \in [Sessions -> Texts \ {<<>>}]
          /\ rename_path \in [Sessions -> Texts]
          /\ \A r \in Sessions : job[r].arg \in Arguments \cup {NoArg}
  BY Typed DEF TypeOK
<1>files. FileArguments \subseteq Arguments
  BY DEF FileArguments
<1>same. ASSUME UNCHANGED <<cwd, rename_path>>
         PROVE  wds' = wds /\ odds' = odds /\ froms' = froms
  BY <1>same DEF wds, odds, froms
<1>create. ASSUME NEW s \in Sessions, NEW a \in Arguments, NEW kind \in Kinds, Uses(s, a),
                  Target(s, a) \in Nodes, CanMake(tree, Target(s, a)),
                  Change(Made(tree, Target(s, a), kind)), UNCHANGED <<cwd, rename_path>>
           PROVE  Directory!Next
  <2>1. Target(s, a) = Directory!Meant(s, a)
    BY <1>create, TargetIs
  <2>2. Directory!Create(s, a)
    BY <1>create, <1>same, <2>1, SameOperators
       DEF Directory!Create, Directory!Uses, Uses, Change, wds, odds, froms
  <2> QED BY <2>2 DEF Directory!Next
<1>1. ASSUME NEW s \in Sessions, Cwd(s)
      PROVE  Directory!Next
  <2>1. PICK a \in Arguments :
           IsDir(tree, Target(s, a)) /\ Uses(s, a) /\ cwd' = [cwd EXCEPT ![s] = Abspath(s, a)]
    BY <1>1 DEF Cwd
  <2>2. Target(s, a) = Directory!Meant(s, a) /\ Target(s, a) = Normal(Abspath(s, a))
    BY <1>types, <2>1, TargetIs, MeantIs DEF IsDir
  <2>3. wds' = [wds EXCEPT ![s] = Directory!Meant(s, a)]
    BY <1>types, <2>1, <2>2 DEF wds
  <2>4. odds' = [odds EXCEPT ![s] = ~Plain(a.parts) \/ (~a.rooted /\ @)]
    <3>1. ~Plain(Abspath(s, a)) <=> ~Plain(a.parts) \/ (~a.rooted /\ ~Plain(cwd[s]))
      BY MeantIs
    <3> DEFINE n == ~Plain(a.parts) \/ (~a.rooted /\ ~Plain(cwd[s]))
               o == ~Plain(Abspath(s, a))
    <3>2. o = n
      BY <3>1
    <3> HIDE DEF n, o
    <3>3. odds' = [odds EXCEPT ![s] = o]
      BY <1>types, <2>1 DEF odds, o
    <3> QED BY <3>2, <3>3 DEF n, odds
  <2>5. UNCHANGED <<tree, rename_path>> /\ froms' = froms
    BY <1>1 DEF Cwd, froms
  <2>6. Directory!Change(s, a)
    BY <2>1, <2>2, <2>3, <2>4, <2>5, SameOperators
       DEF Directory!Change, Directory!Uses, Uses, wds, odds, froms
  <2> QED BY <2>6 DEF Directory!Next
<1>2. ASSUME NEW s \in Sessions, Cdup(s)
      PROVE  Directory!Next
  <2> DEFINE up == IF Len(cwd[s]) = 1 THEN Slash ELSE Front(cwd[s])
  <2>1. cwd' = [cwd EXCEPT ![s] = up] /\ UNCHANGED <<tree, rename_path, asked>> /\ froms' = froms
    BY <1>2 DEF Cdup, froms
  <2>2. cwd[s] \in Texts /\ cwd[s] # <<>> /\ OnNodes(cwd[s])
    BY <1>types DEF CwdNodes
  <2>3. Normal(up) \in Nodes
    BY <1>types, <2>2, SlashIsRoot, FrontOnNodes
  <2>4. ASSUME Plain(cwd[s])
        PROVE  Normal(up) = Parent(Normal(cwd[s])) /\ Plain(up)
    <3>1. Normal(Front(cwd[s])) = Parent(Normal(cwd[s])) /\ Plain(Front(cwd[s]))
      BY <2>2, <2>4, PlainFront
    <3>2. CASE Len(cwd[s]) = 1
      <4>1. Front(cwd[s]) = <<>>
        <5>1. cwd[s] \in Seq(Parts)
          BY <2>2, TextsJoin
        <5> QED BY <3>2, <5>1 DEF Front
      <4>2. Normal(<<>>) = Root
        BY ResolveNone DEF Normal
      <4> QED BY <1>types, <3>1, <3>2, <4>1, <4>2, SlashIsRoot
    <3> QED BY <3>1, <3>2
  <2> HIDE DEF up
  <2>5. wds' = [wds EXCEPT ![s] = Normal(up)] /\ odds' = [odds EXCEPT ![s] = ~Plain(up)]
    BY <1>types, <2>1 DEF wds, odds
  <2>6. CASE Plain(cwd[s])
    <3>1. wds' = [wds EXCEPT ![s] = Parent(@)] /\ odds' = odds /\ ~odds[s]
      BY <2>4, <2>5, <2>6 DEF wds, odds
    <3> QED BY <2>1, <3>1, SameOperators DEF Directory!Up, Directory!Next, wds, odds, froms
  <2>7. CASE ~Plain(cwd[s])
    <3>1. odds[s] /\ (~Plain(up)) \in BOOLEAN
      BY <2>7 DEF odds
    <3>2. \E n \in Nodes, o \in BOOLEAN :
             wds' = [wds EXCEPT ![s] = n] /\ odds' = [odds EXCEPT ![s] = o]
      BY <2>3, <2>5, <3>1
    <3> QED BY <2>1, <3>1, <3>2, SameOperators DEF Directory!Up, Directory!Next, wds, odds, froms
  <2> QED BY <2>6, <2>7
<1>3. ASSUME NEW s \in Sessions, Mkd(s)
      PROVE  Directory!Next
  <2>1. PICK a \in FileArguments :
           /\ Uses(s, a) /\ Target(s, a) \in Nodes /\ CanMake(tree, Target(s, a))
           /\ Change(Made(tree, Target(s, a), "dir"))
    BY <1>3 DEF Mkd
  <2> QED BY <1>3, <1>files, <1>create, <2>1 DEF Mkd, Kinds
<1>4. ASSUME NEW s \in Sessions, Store(s)
      PROVE  Directory!Next
  <2>1. PICK a \in FileArguments :
           /\ Uses(s, a) /\ Target(s, a) \in Nodes /\ CanMake(tree, Target(s, a))
           /\ Change(Made(tree, Target(s, a), "file"))
    BY <1>4 DEF Store
  <2> QED BY <1>4, <1>files, <1>create, <2>1 DEF Store, Kinds
<1>5. ASSUME NEW s \in Sessions, Dele(s) \/ Rmd(s)
      PROVE  Directory!Next
  <2>1. PICK a \in FileArguments :
           /\ Uses(s, a) /\ CanRemove(tree, Target(s, a))
           /\ Change(Removed(tree, Target(s, a)))
    BY <1>5 DEF Dele, Rmd
  <2>2. UNCHANGED <<cwd, rename_path>>
    BY <1>5 DEF Dele, Rmd
  <2>3. a \in Arguments /\ Target(s, a) = Directory!Meant(s, a)
    BY <1>types, <1>files, <2>1, TargetIs DEF CanRemove
  <2>4. Directory!Delete(s, a)
    BY <1>same, <2>1, <2>2, <2>3, SameOperators
       DEF Directory!Delete, Directory!Uses, Uses, Change, wds, odds, froms
  <2> QED BY <2>3, <2>4 DEF Directory!Next
<1>6. ASSUME NEW s \in Sessions, Rnfr(s)
      PROVE  Directory!Next
  <2>1. PICK a \in FileArguments :
           Uses(s, a) /\ rename_path' = [rename_path EXCEPT ![s] = Abspath(s, a)]
    BY <1>6 DEF Rnfr
  <2>2. UNCHANGED <<tree, cwd>> /\ wds' = wds /\ odds' = odds
    BY <1>6 DEF Rnfr, wds, odds
  <2>3. a \in Arguments /\ Directory!Meant(s, a) = Normal(Abspath(s, a))
    BY <1>files, MeantIs
  <2>4. froms' = [froms EXCEPT ![s] = Directory!Meant(s, a)]
    BY <1>types, <2>1, <2>3 DEF froms
  <2>5. Directory!Pick(s, a)
    BY <2>1, <2>2, <2>4 DEF Directory!Pick, Directory!Uses, Uses, wds, odds, froms
  <2> QED BY <2>3, <2>5 DEF Directory!Next
<1>7. ASSUME NEW s \in Sessions, Rename(s)
      PROVE  Directory!Next
  <2> DEFINE a    == job[s].arg
             from == Walk(tree, rename_path[s])
             to   == Target(s, a)
  <2>1. /\ Uses(s, a) /\ CanRename(tree, from, to) /\ to \in Nodes
        /\ Change(Renamed(tree, from, to)) /\ UNCHANGED <<cwd, rename_path>>
    BY <1>7 DEF Rename
  <2>2. a \in Arguments
    BY <1>7 DEF Rename, RenameArgs
  <2>3. to = Directory!Meant(s, a)
    BY <2>1, <2>2, TargetIs
  <2>4. from = froms[s]
    BY <1>types, <2>1, DirsAre, WalkIsNormal DEF CanRename, froms
  <2>5. Directory!Move(s, a)
    BY <1>same, <2>1, <2>3, <2>4, SameOperators
       DEF Directory!Move, Directory!Uses, Uses, Change, wds, odds, froms
  <2> QED BY <2>2, <2>5 DEF Directory!Next
<1>8. ASSUME NEW s \in Sessions, Reconnect(s)
      PROVE  Directory!Next
  <2>1. /\ cwd' = [cwd EXCEPT ![s] = Slash] /\ rename_path' = [rename_path EXCEPT ![s] = <<>>]
        /\ UNCHANGED <<tree, asked>>
    BY <1>8 DEF Reconnect, NoText
  <2>2. Normal(Slash) = Root /\ Plain(Slash) /\ Normal(<<>>) = Root
    BY <1>types, SlashIsRoot, ResolveNone DEF Normal
  <2>3. /\ wds' = [wds EXCEPT ![s] = Root] /\ odds' = [odds EXCEPT ![s] = FALSE]
        /\ froms' = [froms EXCEPT ![s] = Root]
    BY <1>types, <2>1, <2>2 DEF wds, odds, froms
  <2>4. Directory!Connect(s)
    BY <2>1, <2>3, SameOperators DEF Directory!Connect, wds, odds, froms
  <2> QED BY <2>4 DEF Directory!Next
<1>9. CASE UNCHANGED <<tree, cwd, rename_path, asked>>
  BY <1>9, <1>same DEF view
<1>10. ASSUME NEW s \in Sessions, \/ RntoStat(s) \/ RenameFail(s) \/ ListOpen(s)
                                  \/ ListLine(s) \/ ListEnd(s)
       PROVE  [Directory!Next]_view
  BY <1>9, <1>10 DEF RntoStat, RenameFail, ListOpen, ListLine, ListEnd
<1>11. CASE UNCHANGED vars
  BY <1>9, <1>11 DEF vars
<1> QED BY <1>1, <1>2, <1>3, <1>4, <1>5, <1>6, <1>7, <1>8, <1>10, <1>11 DEF Next

\* THEOREM TextsStandForNodes: the handlers, which join and cut texts that are
\* never resolved, do to the file system what FtpDirectory promises of nodes
\* (ActsWhereMeant of the run ftp_paths).
THEOREM TextsStandForNodes == Spec => ActsWhereMeant
<1>1. Spec => []CwdNodes /\ []RenameArgs
  BY TypeCorrect, CwdNodesStart, CwdNodesStep, RenameArgsStart, RenameArgsStep, PTL DEF Spec
<1>2. Spec => Directory!Init /\ [][Directory!Next]_view
  BY <1>1, TypeCorrect, SameStart, SameStep, PTL DEF Spec
<1> QED BY <1>2, PTL DEF ActsWhereMeant, Directory!Spec, view, wds, odds, froms
=============================================================================
