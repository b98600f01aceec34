------------------------ MODULE PluginConfigProofs -------------------------
(***************************************************************************)
(* plugins.ini keeps the promise of PluginSettings, for any plugins and    *)
(* any files of the owner's: what a press or a toggle without an entry     *)
(* makes of the structure is what PluginSettings says, the file that is    *)
(* written says the same, a file cut off at any byte a part of it, and     *)
(* every step of PluginConfig is one of PluginSettings or none.            *)
(***************************************************************************)
EXTENDS PluginConfig, IniTextProofs

-----------------------------------------------------------------------------
(* What Lookups makes of ini_set.                                          *)

\* Setting a value, the entry created if need be, puts it into the store and
\* leaves the rest of the store as it is.
LEMMA SetPuts ==
    ASSUME NEW T, HasEmpty(T), NEW ini \in Structures(T),
           NEW n \in T, NEW k \in T, NEW v \in T
    PROVE  LET old == IF Has(ini, n, k) THEN Entry(ini, n, k) ELSE NewKey(k)
               was == Lookups(ini)
               is  == Lookups(Set(ini, n, k, v))
           IN  /\ is = [q \in DOMAIN was \cup {<<n, k>>} |-> is[q]]
               /\ is[<<n, k>>] = [old EXCEPT !.value = v]
               /\ \A q \in DOMAIN was : q # <<n, k>> => is[q] = was[q]
<1> DEFINE new == Set(ini, n, k, v)
           old == IF Has(ini, n, k) THEN Entry(ini, n, k) ELSE NewKey(k)
           D   == Readable(ini) \cup {<<n, k>>}
<1>1. /\ new \in Structures(T)
      /\ Has(new, n, k) /\ Entry(new, n, k) = [old EXCEPT !.value = v]
      /\ \A m, l : ~(m = n /\ l = k) =>
            /\ Has(new, m, l) <=> Has(ini, m, l)
            /\ Has(ini, m, l) => Entry(new, m, l) = Entry(ini, m, l)
  BY GetAfterSet
<1> HIDE DEF new, old
<1>2. /\ \A m, l : <<m, l>> \in Readable(ini) <=> Has(ini, m, l)
      /\ \A q \in Readable(ini) : q = <<q[1], q[2]>>
      /\ \A m, l : <<m, l>> \in Readable(new) <=> Has(new, m, l)
      /\ \A q \in Readable(new) : q = <<q[1], q[2]>>
  <2>1. /\ \A m, l : <<m, l>> \in Readable(ini) <=> Has(ini, m, l)
        /\ \A q \in Readable(ini) : q = <<q[1], q[2]>>
    BY ReadableIs
  <2>2. /\ \A m, l : <<m, l>> \in Readable(new) <=> Has(new, m, l)
        /\ \A q \in Readable(new) : q = <<q[1], q[2]>>
    BY <1>1, ReadableIs
  <2> QED BY <2>1, <2>2
<1>3. Readable(new) = D
  <2>1. \A q \in Readable(new) : q \in D
    BY <1>1, <1>2
  <2>2. \A q \in D : q \in Readable(new)
    BY <1>1, <1>2
  <2> QED BY <2>1, <2>2
<1>4. ASSUME NEW q \in D
      PROVE  Entry(new, q[1], q[2]) = IF q = <<n, k>> THEN [old EXCEPT !.value = v]
                                                     ELSE Lookups(ini)[q]
  <2>1. CASE q = <<n, k>>
    BY <1>1, <2>1
  <2>2. CASE q # <<n, k>>
    <3>1. q \in Readable(ini) /\ q = <<q[1], q[2]>> /\ Has(ini, q[1], q[2])
      BY <1>2, <1>4, <2>2
    <3>2. ~(q[1] = n /\ q[2] = k)
      BY <2>2, <3>1
    <3> QED BY <1>1, <2>2, <3>1, <3>2 DEF Lookups
  <2> QED BY <2>1, <2>2
<1>5. Lookups(new) = [q \in D |-> Entry(new, q[1], q[2])]
  BY <1>3 DEF Lookups
<1>6. DOMAIN Lookups(ini) = Readable(ini)
  BY DEF Lookups
<1> QED BY <1>4, <1>5, <1>6 DEF new, old

-----------------------------------------------------------------------------
(* The steps of PluginSettings.                                            *)

\* A new key's value is replaced.
LEMMA NewEntry ==
    ASSUME NEW p
    PROVE  /\ [NewKey(p) EXCEPT !.value = "0"] = StoreOfEntries!Off(p)
           /\ \A v : [NewKey(p) EXCEPT !.value = v] = [StoreOfEntries!Off(p) EXCEPT !.value = v]
<1>1. \A new, off, e :
         /\ new = [key |-> p, value |-> e, comment |-> e, comments_before |-> <<>>]
         /\ off = [key |-> p, value |-> "0", comment |-> e, comments_before |-> <<>>]
         => /\ [new EXCEPT !.value = "0"] = off
            /\ \A v : [new EXCEPT !.value = v] = [off EXCEPT !.value = v]
  OBVIOUS
<1>2. \E e : /\ NewKey(p) = [key |-> p, value |-> e, comment |-> e, comments_before |-> <<>>]
             /\ StoreOfEntries!Off(p)
                  = [key |-> p, value |-> "0", comment |-> e, comments_before |-> <<>>]
  BY Zenon DEF NewKey, StoreOfEntries!Off
<1> QED BY <1>1, <1>2

\* The entry of a plugin under "all", in the structure and in the store.
LEMMA EntryOf ==
    ASSUME NEW T, NEW ini \in Structures(T), NEW p
    PROVE  /\ Has(ini, All, p) <=> StoreOfEntries!Key(p) \in DOMAIN Lookups(ini)
           /\ Has(ini, All, p) => Lookups(ini)[StoreOfEntries!Key(p)] = Entry(ini, All, p)
<1>1. Has(ini, All, p) <=> <<All, p>> \in Readable(ini)
  BY ReadableIs
<1> QED BY <1>1 DEF Lookups, StoreOfEntries!Key, All

\* A toggle without an entry stores the default of its plugin ...
LEMMA AbsentIsDefault ==
    ASSUME NEW T, HasEmpty(T), NEW ini \in Structures(T), All \in T, NEW p \in T, "0" \in T,
           ~Has(ini, All, p)
    PROVE  Lookups(Set(ini, All, p, "0")) = StoreOfEntries!WithDefault(Lookups(ini), p)
<1> DEFINE K == StoreOfEntries!Key(p)
           new == Lookups(Set(ini, All, p, "0"))
<1>1. /\ new = [q \in DOMAIN Lookups(ini) \cup {<<All, p>>} |-> new[q]]
      /\ new[<<All, p>>] = [NewKey(p) EXCEPT !.value = "0"]
      /\ \A q \in DOMAIN Lookups(ini) : q # <<All, p>> => new[q] = Lookups(ini)[q]
  <2> DEFINE old == IF Has(ini, All, p) THEN Entry(ini, All, p) ELSE NewKey(p)
  <2>1. /\ new = [q \in DOMAIN Lookups(ini) \cup {<<All, p>>} |-> new[q]]
        /\ new[<<All, p>>] = [old EXCEPT !.value = "0"]
        /\ \A q \in DOMAIN Lookups(ini) : q # <<All, p>> => new[q] = Lookups(ini)[q]
    BY SetPuts, SMTT(30)
  <2>2. old = NewKey(p)
    OBVIOUS
  <2> HIDE DEF old, new
  <2> QED BY <2>1, <2>2
<1>2. K \notin DOMAIN Lookups(ini) /\ K = <<All, p>>
  BY EntryOf DEF StoreOfEntries!Key, All
<1> HIDE DEF new, K
<1>3. new = StoreOfEntries!Put(Lookups(ini), K, StoreOfEntries!Off(p))
  BY <1>1, <1>2, NewEntry DEF StoreOfEntries!Put
<1> QED BY <1>2, <1>3 DEF StoreOfEntries!WithDefault, new, K

\* ... and a press switches its plugin.
LEMMA PressIsSwitch ==
    ASSUME NEW T, HasEmpty(T), NEW ini \in Structures(T), All \in T, NEW p \in T, NEW v \in T
    PROVE  Lookups(Set(ini, All, p, v)) = StoreOfEntries!Switched(Lookups(ini), p, v)
<1> DEFINE L == Lookups(ini)
           K == StoreOfEntries!Key(p)
           old == IF Has(ini, All, p) THEN Entry(ini, All, p) ELSE NewKey(p)
           all == StoreOfEntries!WithDefault(L, p)
           new == Lookups(Set(ini, All, p, v))
<1>1. /\ new = [q \in DOMAIN L \cup {K} |-> new[q]]
      /\ new[K] = [old EXCEPT !.value = v]
      /\ \A q \in DOMAIN L : q # K => new[q] = L[q]
  <2>1. K = <<All, p>>
    BY DEF StoreOfEntries!Key, All
  <2> HIDE DEF K
  <2>2. /\ new = [q \in DOMAIN L \cup {<<All, p>>} |-> new[q]]
        /\ new[<<All, p>>] = [old EXCEPT !.value = v]
        /\ \A q \in DOMAIN L : q # <<All, p>> => new[q] = L[q]
    BY SetPuts
  <2> QED BY <2>1, <2>2
<1>2. L = [q \in DOMAIN L |-> L[q]]
  BY DEF Lookups
<1>3. DOMAIN all = DOMAIN L \cup {K}
  BY <1>2 DEF StoreOfEntries!WithDefault, StoreOfEntries!Put
<1>4. [all[K] EXCEPT !.value = v] = [old EXCEPT !.value = v]
  <2>1. CASE Has(ini, All, p)
    BY <2>1, EntryOf DEF StoreOfEntries!WithDefault
  <2>2. CASE ~Has(ini, All, p)
    <3>1. all[K] = StoreOfEntries!Off(p)
      BY <2>2, EntryOf DEF StoreOfEntries!WithDefault, StoreOfEntries!Put
    <3> QED BY <2>2, <3>1, NewEntry
  <2> QED BY <2>1, <2>2
<1>5. \A q \in DOMAIN L : q # K => all[q] = L[q]
  BY DEF StoreOfEntries!WithDefault, StoreOfEntries!Put
<1> HIDE DEF L, K, old, new
<1>6. StoreOfEntries!Switched(L, p, v) = [all EXCEPT ![K] = [all[K] EXCEPT !.value = v]]
  BY DEF StoreOfEntries!Switched, K
<1>7. all = [q \in DOMAIN L \cup {K} |-> all[q]]
  BY <1>2, <1>3 DEF StoreOfEntries!WithDefault, StoreOfEntries!Put, K
<1> HIDE DEF all
<1>8. new = [q \in DOMAIN L \cup {K} |-> IF q = K THEN [old EXCEPT !.value = v] ELSE L[q]]
  BY <1>1
<1>9. [all EXCEPT ![K] = [old EXCEPT !.value = v]]
         = [q \in DOMAIN L \cup {K} |-> IF q = K THEN [old EXCEPT !.value = v] ELSE L[q]]
  BY <1>5, <1>7
<1> QED BY <1>4, <1>6, <1>8, <1>9 DEF L, new

-----------------------------------------------------------------------------
(* The text.                                                               *)

\* What the page writes are texts.
LEMMA TextsHave ==
    /\ HasEmpty(Texts) /\ CutsOf(Texts) /\ "0" \in Texts /\ "1" \in Texts /\ All \in Texts
    /\ Plugins \subseteq Texts
<1>1. {"", "0", "1", "all"} \subseteq Texts
  BY TextsAssumption, Zenon
<1>2. HasEmpty(Texts)
  BY <1>1, Zenon DEF HasEmpty
<1>3. "0" \in Texts /\ "1" \in Texts /\ All \in Texts
  BY <1>1, Zenon DEF All
<1>4. Plugins \subseteq Texts
  BY TextsAssumption, Zenon
<1>5. CutsOf(Texts)
  BY BeginsAssumption, Zenon DEF CutsOf
<1> QED BY <1>2, <1>3, <1>4, <1>5

\* A structure that names nothing twice, and one that a handler has.
Structure(ini) == ini \in Structures(Texts) /\ NoDuplicates(ini)

\* What the owner puts there is read as one.
LEMMA HandWrittenRead ==
    ASSUME NEW f \in HandWritten
    PROVE  Structure(Load(f))
<1>1. f \in Seq(LinesOver(Texts)) /\ NoDuplicates(Load(f))
  BY HandWrittenAssumption
<1>2. Empty \in Structures(Texts)
  <2>1. <<>> \in Seq(Texts) /\ <<>> \in Seq(SectionsOver(Texts))
    OBVIOUS
  <2> QED BY <2>1 DEF Empty, Structures
<1>3. ReadLines(Empty, f) \in Structures(Texts)
  BY <1>1, <1>2, LinesRead
<1> QED BY <1>1, <1>3 DEF Structure, Load

LEMMA EmptyIsOne == Structure(Empty)
<1>1. <<>> \in Seq(Texts) /\ <<>> \in Seq(SectionsOver(Texts))
  OBVIOUS
<1> QED BY <1>1 DEF Structure, Empty, Structures, NoDuplicates

\* ini_set makes one of one.
LEMMA SetIsOne ==
    ASSUME NEW ini, Structure(ini), NEW p \in Plugins, NEW v \in {"0", "1"}
    PROVE  Structure(Set(ini, All, p, v))
<1>1. HasEmpty(Texts) /\ All \in Texts /\ p \in Texts /\ v \in Texts
  BY TextsHave
<1>2. ini \in Structures(Texts) /\ NoDuplicates(ini)
  BY DEF Structure
<1> DEFINE new == Set(ini, All, p, v)
           old == IF Has(ini, All, p) THEN Entry(ini, All, p) ELSE NewKey(p)
<1>3. /\ new \in Structures(Texts)
      /\ Has(new, All, p) /\ Entry(new, All, p) = [old EXCEPT !.value = v]
      /\ \A m, l : ~(m = All /\ l = p) =>
            /\ Has(new, m, l) <=> Has(ini, m, l)
            /\ Has(ini, m, l) => Entry(new, m, l) = Entry(ini, m, l)
  BY <1>1, <1>2, GetAfterSet
<1>4. NoDuplicates(new)
  BY <1>1, <1>2, SetOnce
<1> QED BY <1>3, <1>4 DEF Structure

\* What can be read of a file is what is stored, or a part of it.
Says(f, s) == Structure(Load(f)) /\ Lookups(Load(f)) = s

Part(f, s) == Structure(Load(f)) /\ Remains(Lookups(Load(f)), s)

LEMMA SaysIsPart == \A f, s : Says(f, s) => Part(f, s)
BY DEF Says, Part, Remains

\* What may be on the disk of a text while it is written.
Written(f, text) ==
    \E n \in 0 .. Len(text) : \E tail \in Tails(text, n) : f = SubSeq(text, 1, n) \o tail

LEMMA WrittenIsPart ==
    ASSUME NEW ini, Structure(ini), NEW f, Written(f, Text(ini))
    PROVE  Part(f, Lookups(ini)) /\ Len(f) \in 0 .. Len(Text(ini))
<1>1. HasEmpty(Texts) /\ CutsOf(Texts) /\ ini \in Structures(Texts) /\ NoDuplicates(ini)
  BY TextsHave DEF Structure
<1>2. \E n \in 0 .. Len(Text(ini)) : \E tail \in Tails(Text(ini), n) :
          f = SubSeq(Text(ini), 1, n) \o tail
  BY DEF Written
<1>3. /\ f \in Seq(LinesOver(Texts)) /\ Len(f) <= Len(Text(ini))
      /\ Load(f) \in Structures(Texts) /\ NoDuplicates(Load(f))
      /\ Remains(Lookups(Load(f)), Lookups(ini))
  BY <1>1, <1>2, SavedIsRead
<1>4. Len(f) \in Nat /\ Len(Text(ini)) \in Nat
  <2>1. Text(ini) \in Seq(LinesOver(Texts))
    BY <1>1, SavedIsRead
  <2> QED BY <1>3, <2>1
<1> QED BY <1>3, <1>4 DEF Part, Structure

\* All of it and none of it may be.
LEMMA WrittenWhole ==
    ASSUME NEW ini, Structure(ini)
    PROVE  /\ Len(Text(ini)) \in Nat
           /\ Written(<<>>, Text(ini)) /\ Says(Text(ini), Lookups(ini))
           /\ \A tail \in Tails(Text(ini), Len(Text(ini))) :
                 SubSeq(Text(ini), 1, Len(Text(ini))) \o tail = Text(ini)
<1> DEFINE text == Text(ini)
           L    == LinesOver(Texts)
<1>1. HasEmpty(Texts) /\ CutsOf(Texts) /\ ini \in Structures(Texts) /\ NoDuplicates(ini)
  BY TextsHave DEF Structure
<1>2. text \in Seq(L) /\ Lookups(Load(text)) = Lookups(ini)
  BY <1>1, SavedIsRead
<1> HIDE DEF text, L
<1>3. /\ Len(text) \in Nat
      /\ SubSeq(text, 1, Len(text)) \o <<>> = text /\ SubSeq(text, 1, 0) \o <<>> = <<>>
  BY <1>2
<1>4. \A n : <<>> \in Tails(text, n)
  BY DEF Tails
<1>5. Written(<<>>, text) /\ Written(text, text)
  <2>1. 0 \in 0 .. Len(text) /\ Len(text) \in 0 .. Len(text)
    BY <1>3
  <2> QED BY <1>3, <1>4, <2>1 DEF Written
<1>6. Part(text, Lookups(ini))
  BY <1>5, WrittenIsPart DEF text
<1>7. Tails(text, Len(text)) = {<<>>}
  BY DEF Tails
<1> QED BY <1>2, <1>3, <1>5, <1>6, <1>7 DEF Part, Says, text

-----------------------------------------------------------------------------
(* The invariant of the file: outside a save it says what is stored; in    *)
(* one it is the first part of the text of what is stored, cut anywhere.   *)

IsUi ==
    /\ DOMAIN ui = {"at", "ini", "unread"} /\ ui.at \in {"idle", "open", "write"}
    /\ Structure(ui.ini)
    /\ ui.unread \in BOOLEAN /\ (ui.unread => ui.at = "open")

FileInv ==
    /\ IsUi
    /\ ui.at # "write" => Says(file, store)
    /\ ui.at = "write" =>
          /\ store = Lookups(ui.ini)
          /\ Written(file, Text(ui.ini))

LEMMA FileInvSays ==
    ASSUME FileInv
    PROVE  Part(file, store) /\ (ui.at # "write" => Says(file, store))
<1>1. CASE ui.at # "write"
  BY <1>1, SaysIsPart DEF FileInv
<1>2. CASE ui.at = "write"
  BY <1>2, WrittenIsPart DEF FileInv, IsUi
<1> QED BY <1>1, <1>2

LEMMA IdleUi ==
    /\ DOMAIN NoHandler = {"at", "ini", "unread"} /\ NoHandler.at = "idle"
    /\ Structure(NoHandler.ini) /\ NoHandler.unread = FALSE
BY EmptyIsOne DEF NoHandler

\* What a handler has read, and what it makes of it.
LEMMA HandlerIs ==
    ASSUME NEW p \in Plugins, PreCreateAbsent(p) \/ Press(p)
    PROVE  \E unread \in BOOLEAN : \E v \in {"0", "1"} :
              /\ Opens(unread)
              /\ value' = [value EXCEPT ![p] = v]
              /\ ui' = [at |-> "open", ini |-> Set(Loaded(unread), All, p, v), unread |-> unread]
              /\ (~Has(Loaded(unread), All, p) /\ v = "0") \/ p \notin Builtin
<1>1. CASE PreCreateAbsent(p)
  BY <1>1, Zenon DEF PreCreateAbsent
<1>2. CASE Press(p)
  BY <1>2, Zenon DEF Press
<1> QED BY <1>1, <1>2

LEMMA FileNext ==
    ASSUME FileInv, [Next]_vars
    PROVE  FileInv'
<1>1. ASSUME UNCHANGED <<file, store, ui>>
      PROVE  FileInv'
  BY <1>1 DEF FileInv, IsUi
<1>2. ASSUME NEW p \in Plugins, PreCreateAbsent(p) \/ Press(p)
      PROVE  FileInv'
  <2>1. ui.at = "idle" /\ UNCHANGED <<file, store>>
    BY <1>2 DEF PreCreateAbsent, Press
  <2>2. Says(file, store)
    BY <2>1 DEF FileInv
  <2>3. PICK unread \in BOOLEAN, v \in {"0", "1"} :
            ui' = [at |-> "open", ini |-> Set(Loaded(unread), All, p, v), unread |-> unread]
    BY <1>2, HandlerIs
  <2>4. Structure(Loaded(unread))
    BY <2>2, EmptyIsOne DEF Says, Loaded
  <2>5. Structure(Set(Loaded(unread), All, p, v))
    BY <2>4, SetIsOne
  <2>6. /\ ui'.at = "open" /\ DOMAIN ui' = {"at", "ini", "unread"} /\ Structure(ui'.ini)
        /\ ui'.unread \in BOOLEAN
    BY <2>3, <2>5
  <2> QED BY <2>1, <2>2, <2>6 DEF FileInv, IsUi
<1>3. CASE OpenToSave
  <2>1. /\ ui.at = "open" /\ file' = <<>> /\ store' = Lookups(ui.ini)
        /\ ui' = [ui EXCEPT !.at = "write", !.unread = FALSE]
    BY <1>3 DEF OpenToSave
  <2>2. /\ ui'.at = "write" /\ ui'.ini = ui.ini /\ DOMAIN ui' = {"at", "ini", "unread"}
        /\ ui'.unread = FALSE
    BY <2>1 DEF FileInv, IsUi
  <2>3. Structure(ui.ini)
    BY DEF FileInv, IsUi
  <2>4. Written(<<>>, Text(ui.ini))
    BY <2>3, WrittenWhole
  <2> QED BY <2>1, <2>2, <2>3, <2>4 DEF FileInv, IsUi
<1>4. CASE SaveFails
  <2>1. ui.at = "open" /\ ui' = NoHandler /\ UNCHANGED <<file, store>>
    BY <1>4 DEF SaveFails
  <2> QED BY <2>1, IdleUi DEF FileInv, IsUi
<1>5. CASE Write
  <2> DEFINE text == Text(ui.ini)
  <2>1. ui.at = "write" /\ UNCHANGED store
    BY <1>5 DEF Write
  <2>2. PICK n \in Len(file) .. Len(text) : \E tail \in Tails(text, n) :
            /\ file' = SubSeq(text, 1, n) \o tail
            /\ ui' = IF n = Len(text) THEN NoHandler ELSE ui
    BY <1>5 DEF Write
  <2>3. PICK tail \in Tails(text, n) :
            /\ file' = SubSeq(text, 1, n) \o tail
            /\ ui' = IF n = Len(text) THEN NoHandler ELSE ui
    BY <2>2
  <2>4. store = Lookups(ui.ini) /\ Structure(ui.ini) /\ Written(file, text)
    BY <2>1 DEF FileInv, IsUi
  <2>5. Len(file) \in 0 .. Len(text)
    BY <2>4, WrittenIsPart
  <2>6. CASE n # Len(text)
    <3>1. n \in 0 .. Len(text)
      BY <2>5
    <3>2. Written(file', text) /\ ui' = ui
      BY <2>3, <2>6, <3>1 DEF Written
    <3> QED BY <2>1, <2>4, <3>2 DEF FileInv, IsUi
  <2>7. CASE n = Len(text)
    <3>1. file' = text /\ Says(text, store) /\ ui' = NoHandler
      BY <2>3, <2>4, <2>7, WrittenWhole
    <3> QED BY <2>1, <3>1, IdleUi DEF FileInv, IsUi
  <2> QED BY <2>6, <2>7
<1>6. CASE Edit
  <2>1. PICK f \in HandWritten : file' = f /\ store' = Lookups(Load(f))
    BY <1>6 DEF Edit
  <2>2. Says(file', store')
    BY <2>1, HandWrittenRead DEF Says
  <2>3. ui.at = "idle" /\ ui' = ui
    BY <1>6 DEF Edit, uiVars
  <2> QED BY <2>2, <2>3 DEF FileInv, IsUi
<1>7. CASE PowerLoss \/ WriteFails
  <2>1. ui' = NoHandler /\ file' = file /\ store' = Lookups(Load(file))
    BY <1>7 DEF PowerLoss, WriteFails
  <2>2. Says(file, Lookups(Load(file)))
    BY FileInvSays DEF Part, Says
  <2> QED BY <2>1, <2>2, IdleUi DEF FileInv, IsUi
<1>8. CASE PageActivating \/ PageDeactivating \/ \E p \in Plugins : PreCreate(p)
  BY <1>1, <1>8 DEF PageActivating, PageDeactivating, PreCreate, disk
<1>9. CASE \/ \E t \in Titles : Launch(t)
           \/ ReadConfig \/ ConfigUnreadable \/ Spin \/ RunSection \/ StayInPlugin
           \/ LoaderReturn \/ Quit \/ UNCHANGED vars
  BY <1>1, <1>9 DEF Launch, ReadConfig, ConfigUnreadable, Spin, RunSection, StayInPlugin,
                    LoaderReturn, Quit, vars, disk, uiVars
<1> QED BY <1>2, <1>3, <1>4, <1>5, <1>6, <1>7, <1>8, <1>9 DEF Next

LEMMA FileInit ==
    ASSUME Init
    PROVE  FileInv
<1>1. file \in HandWritten /\ store = Lookups(Load(file)) /\ ui = NoHandler
  BY DEF Init
<1>2. Says(file, store)
  BY <1>1, HandWrittenRead DEF Says
<1> QED BY <1>1, <1>2, IdleUi DEF FileInv, IsUi

\* Outside a save plugins.ini says what is stored, with every entry's value and
\* comments, after any number of loads and saves of ReadWriteLocalSettings; in
\* the middle of one, at whatever byte the power or the disk's room ends, it
\* holds a part of it, with one entry at most cut short: for any plugins and any
\* files of the owner's without duplicates.
THEOREM TextKept == Spec => [](FileSaysStore /\ FileHoldsPart)
<1>1. Init => FileInv
  BY FileInit
<1>2. FileInv /\ [Next]_vars => FileInv'
  BY FileNext
<1>3. FileInv => FileSaysStore /\ FileHoldsPart
  BY FileInvSays DEF FileSaysStore, FileHoldsPart, Says, Part
<1> QED BY <1>1, <1>2, <1>3, PTL DEF Spec

-----------------------------------------------------------------------------
(* The refinement.                                                         *)

\* What a handler is about to save: what it has read - the file, or nothing -
\* with one entry added or switched.
HasRead == IF ui.unread THEN Empty ELSE Load(file)

Saving ==
    ui.at = "open" =>
        \E p \in Plugins : \E v \in {"0", "1"} :
            /\ ui.ini = Set(HasRead, All, p, v)
            /\ (~Has(HasRead, All, p) /\ v = "0") \/ p \notin Builtin

LEMMA SavingNext ==
    ASSUME Saving, [Next]_vars
    PROVE  Saving'
<1> USE DEF Saving, HasRead
<1>1. ASSUME NEW p \in Plugins, PreCreateAbsent(p) \/ Press(p)
      PROVE  Saving'
  <2>1. PICK unread \in BOOLEAN, v \in {"0", "1"} :
            /\ ui' = [at |-> "open", ini |-> Set(Loaded(unread), All, p, v), unread |-> unread]
            /\ (~Has(Loaded(unread), All, p) /\ v = "0") \/ p \notin Builtin
    BY <1>1, HandlerIs
  <2>2. file' = file
    BY <1>1 DEF PreCreateAbsent, Press
  <2>3. ui'.unread = unread /\ ui'.ini = Set(Loaded(unread), All, p, v)
    BY <2>1
  <2>4. HasRead' = Loaded(unread)
    BY <2>2, <2>3 DEF Loaded
  <2> QED BY <2>1, <2>3, <2>4
<1>2. CASE OpenToSave \/ SaveFails \/ Write \/ WriteFails \/ PowerLoss \/ Edit
  <2>1. ui'.at # "open"
    <3>1. CASE OpenToSave
      BY <3>1 DEF OpenToSave
    <3>2. CASE Write
      BY <3>2 DEF Write, NoHandler
    <3>3. CASE SaveFails \/ WriteFails \/ PowerLoss \/ Edit
      BY <3>3 DEF SaveFails, WriteFails, PowerLoss, Edit, NoHandler, uiVars
    <3> QED BY <1>2, <3>1, <3>2, <3>3
  <2> QED BY <2>1
<1>3. ASSUME UNCHANGED <<file, ui>>
      PROVE  Saving'
  BY <1>3
<1>4. CASE PageActivating \/ PageDeactivating \/ \E p \in Plugins : PreCreate(p)
  BY <1>3, <1>4 DEF PageActivating, PageDeactivating, PreCreate, disk
<1>5. CASE \/ \E t \in Titles : Launch(t)
           \/ ReadConfig \/ ConfigUnreadable \/ Spin \/ RunSection \/ StayInPlugin
           \/ LoaderReturn \/ Quit \/ UNCHANGED vars
  BY <1>3, <1>5 DEF Launch, ReadConfig, ConfigUnreadable, Spin, RunSection, StayInPlugin,
                    LoaderReturn, Quit, vars, disk, uiVars
<1> QED BY <1>1, <1>2, <1>4, <1>5 DEF Next

\* The store's variables.
storeVars == <<store, ui.unread, faults>>

\* The save of a handler stores or forgets.
LEMMA SaveKeeps ==
    ASSUME Saving, FileInv, OpenToSave
    PROVE  StoreOfEntries!Next
<1>1. /\ ui.at = "open" /\ store' = Lookups(ui.ini) /\ faults' = faults
      /\ ui' = [ui EXCEPT !.at = "write", !.unread = FALSE]
  BY DEF OpenToSave
<1>2. ui'.unread = FALSE
  BY <1>1 DEF FileInv, IsUi
<1>3. PICK p \in Plugins, v \in {"0", "1"} :
          /\ ui.ini = Set(HasRead, All, p, v)
          /\ (~Has(HasRead, All, p) /\ v = "0") \/ p \notin Builtin
  BY <1>1 DEF Saving
<1> DEFINE old == IF ui.unread THEN StoreOfEntries!Nothing ELSE store
<1>4. HasRead \in Structures(Texts) /\ Lookups(HasRead) = old
  <2>1. CASE ui.unread
    <3>1. Empty \in Structures(Texts)
      BY EmptyIsOne DEF Structure
    <3>2. Lookups(Empty) = StoreOfEntries!Nothing
      <4>1. Readable(Empty) = {}
        BY DEF Readable, Names, Empty
      <4> QED BY <4>1 DEF Lookups, StoreOfEntries!Nothing
    <3> QED BY <2>1, <3>1, <3>2 DEF HasRead
  <2>2. CASE ~ui.unread
    BY <1>1, <2>2 DEF HasRead, FileInv, Says, Structure
  <2> QED BY <2>1, <2>2
<1>5. HasEmpty(Texts) /\ All \in Texts /\ p \in Texts /\ v \in Texts /\ "0" \in Texts
  BY TextsHave
<1>6. \/ store' = StoreOfEntries!WithDefault(old, p)
      \/ p \notin Builtin /\ store' = StoreOfEntries!Switched(old, p, v)
  <2>1. CASE ~Has(HasRead, All, p) /\ v = "0"
    <3>1. Lookups(Set(HasRead, All, p, "0"))
             = StoreOfEntries!WithDefault(Lookups(HasRead), p)
      BY <1>4, <1>5, <2>1, AbsentIsDefault
    <3> QED BY <1>1, <1>3, <1>4, <2>1, <3>1
  <2>2. CASE p \notin Builtin
    <3>1. Lookups(Set(HasRead, All, p, v))
             = StoreOfEntries!Switched(Lookups(HasRead), p, v)
      BY <1>4, <1>5, PressIsSwitch
    <3> QED BY <1>1, <1>3, <1>4, <2>2, <3>1
  <2> QED BY <1>3, <2>1, <2>2
<1>7. StoreOfEntries!Default(old, p) \/ StoreOfEntries!Switch(old, p)
  BY <1>6 DEF StoreOfEntries!Default, StoreOfEntries!Switch
<1>8. CASE ui.unread
  BY <1>1, <1>2, <1>7, <1>8 DEF StoreOfEntries!Next, StoreOfEntries!Forget
<1>9. CASE ~ui.unread
  <2>1. ui.unread = FALSE /\ old = store
    BY <1>9 DEF FileInv, IsUi
  <2> QED BY <1>1, <1>2, <1>7, <2>1 DEF StoreOfEntries!Next, StoreOfEntries!Save
<1> QED BY <1>8, <1>9

LEMMA StepKeeps ==
    ASSUME Saving, FileInv, [Next]_vars
    PROVE  [StoreOfEntries!Next]_storeVars
<1> USE DEF storeVars
<1>1. ASSUME UNCHANGED storeVars
      PROVE  [StoreOfEntries!Next]_storeVars
  BY <1>1
<1>2. CASE OpenToSave
  BY <1>2, SaveKeeps
<1>3. CASE PowerLoss \/ WriteFails
  <2>1. store' = Lookups(Load(file)) /\ faults' = faults + 1 /\ ui'.unread = FALSE
    BY <1>3, IdleUi DEF PowerLoss, WriteFails, Fault
  <2>2. StoreOfEntries!Remains(Lookups(Load(file)), store)
    BY FileInvSays DEF Part, Remains, CutShort, StoreOfEntries!Remains, StoreOfEntries!CutShort
  <2> QED BY <2>1, <2>2 DEF StoreOfEntries!Next, StoreOfEntries!Lose, StoreOfEntries!Failure
<1>4. CASE Edit
  <2>1. faults' = faults + 1 /\ store' \in Edits /\ ui'.unread = ui.unread
    BY <1>4 DEF Edit, Edits, Fault, uiVars
  <2> QED BY <2>1 DEF StoreOfEntries!Next, StoreOfEntries!Edit, StoreOfEntries!Failure
<1>5. ASSUME faults' = faults + 1, ui'.unread \in BOOLEAN, store' = store
      PROVE  StoreOfEntries!Next
  BY <1>5 DEF StoreOfEntries!Next, StoreOfEntries!Fail, StoreOfEntries!Failure
<1>6. CASE SaveFails \/ ConfigUnreadable
  <2>1. ui'.unread \in BOOLEAN
    BY <1>6, IdleUi DEF SaveFails, ConfigUnreadable, uiVars, FileInv, IsUi
  <2> QED BY <1>5, <1>6, <2>1 DEF SaveFails, ConfigUnreadable, Fault
<1>7. ASSUME NEW p \in Plugins, PreCreateAbsent(p) \/ Press(p)
      PROVE  [StoreOfEntries!Next]_storeVars
  <2>1. PICK unread \in BOOLEAN : \E v \in {"0", "1"} :
            /\ Opens(unread)
            /\ ui' = [at |-> "open", ini |-> Set(Loaded(unread), All, p, v), unread |-> unread]
    BY <1>7, HandlerIs
  <2>2. store' = store /\ ui.unread = FALSE
    BY <1>7 DEF PreCreateAbsent, Press, FileInv, IsUi
  <2>3. ui'.unread = unread
    BY <2>1
  <2>4. CASE unread
    BY <1>5, <2>1, <2>2, <2>3, <2>4 DEF Opens, Fault
  <2>5. CASE ~unread
    BY <1>1, <2>1, <2>2, <2>3, <2>5 DEF Opens
  <2> QED BY <2>4, <2>5
<1>8. CASE Write
  <2>1. ui.at = "write" /\ UNCHANGED <<store, faults>> /\ (ui' = ui \/ ui' = NoHandler)
    BY <1>8 DEF Write
  <2>2. ui.unread = FALSE
    BY <2>1 DEF FileInv, IsUi
  <2> QED BY <1>1, <2>1, <2>2, IdleUi
<1>9. CASE PageActivating \/ PageDeactivating \/ \E p \in Plugins : PreCreate(p)
  BY <1>1, <1>9 DEF PageActivating, PageDeactivating, PreCreate, disk
<1>10. CASE \/ \E t \in Titles : Launch(t)
            \/ ReadConfig \/ Spin \/ RunSection \/ StayInPlugin
            \/ LoaderReturn \/ Quit \/ UNCHANGED vars
  BY <1>1, <1>10 DEF Launch, ReadConfig, Spin, RunSection, StayInPlugin,
                     LoaderReturn, Quit, vars, disk, uiVars
<1> QED BY <1>2, <1>3, <1>4, <1>6, <1>7, <1>8, <1>9, <1>10 DEF Next

\* plugins.ini, a text that is loaded, changed and written over itself by
\* ReadWriteLocalSettings, behaves as a store of entries: a press changes its own
\* plugin's entry and keeps the rest, a power loss or a full disk only loses
\* entries and cuts one at most short, and only a save whose ini_load could not
\* open the file wipes the others, for any plugins, titles and files.
THEOREM StoreKept == Spec => KeepsEntries
<1>1. Init => FileInv /\ Saving /\ StoreOfEntries!Init
  BY FileInit DEF Init, Saving, NoHandler, StoreOfEntries!Init, Edits
<1>2. FileInv /\ Saving /\ [Next]_vars => FileInv' /\ Saving'
  BY FileNext, SavingNext
<1>3. Saving /\ FileInv /\ [Next]_vars => [StoreOfEntries!Next]_storeVars
  BY StepKeeps
<1> QED BY <1>1, <1>2, <1>3, PTL DEF Spec, KeepsEntries, StoreOfEntries!Spec, storeVars

-----------------------------------------------------------------------------
(* The loader.                                                             *)

\* A section as the loader sees it.
Seen == {KeysOn(s) : s \in SectionsOver(Texts)}

LEMMA SectionsTyped ==
    ASSUME NEW ini \in Structures(Texts)
    PROVE  /\ Sections(ini) \in Seq(Seen)
           /\ DOMAIN Sections(ini) = DOMAIN ini.sections
           /\ \A i \in DOMAIN ini.sections : Sections(ini)[i] = KeysOn(ini.sections[i])
<1>1. ini.sections \in Seq(SectionsOver(Texts))
  BY DEF Structures
<1>2. \A i \in DOMAIN ini.sections : KeysOn(ini.sections[i]) \in Seen
  BY <1>1 DEF Seen
<1> QED BY <1>1, <1>2 DEF Sections

\* app is a record of these.
IsApp ==
    DOMAIN app = {"at", "title", "known", "same", "sections", "started", "seen", "whole"}

\* Nothing is started before the file is read; while the sections are walked
\* what is on in them was on in the store, unless the read was overtaken ...
Walks ==
    /\ app.at = "read" => app.started = {} /\ app.sections = <<>>
    /\ app.at \notin {"off", "read"} /\ app.whole => app.same
    /\ app.at = "walk" /\ app.same =>
          /\ app.sections \in Seq(Seen)
          /\ \A i \in DOMAIN app.sections : \A k \in ToSet(app.sections[i].on) :
                <<app.sections[i].name, k>> \in app.seen

\* ... and what was on in the store has been started or is on in those left.
Covers ==
    app.at = "walk" /\ app.whole =>
        \A r \in app.seen : Applies(r[1], app.title, app.known) =>
            \/ r[2] \in app.started
            \/ \E i \in DOMAIN app.sections :
                  app.sections[i].name = r[1] /\ r[2] \in ToSet(app.sections[i].on)

LoaderInv == IsApp /\ Walks /\ Covers /\ OnlySwitchedOn /\ StartsAllThatAreOn

\* An app that has not read the file has nothing started.
Nothing(a) ==
    /\ DOMAIN a = {"at", "title", "known", "same", "sections", "started", "seen", "whole"}
    /\ a.at \in {"off", "read"}
    /\ a.started = {} /\ a.sections = <<>>

\* An app that has just been launched.
Launched(title, known) == [NoApp EXCEPT !.at = "read", !.title = title, !.known = known]

LEMMA NothingYet ==
    ASSUME NEW title, NEW known
    PROVE  /\ Nothing(NoApp) /\ NoApp.at = "off"
           /\ Nothing(Launched(title, known)) /\ Launched(title, known).at = "read"
           /\ Launched(title, known).title = title
<1>1. ASSUME NEW e
      PROVE  LET a == [at |-> "off", title |-> e, known |-> FALSE, same |-> TRUE,
                       sections |-> <<>>, started |-> {}, seen |-> {}, whole |-> TRUE]
                 launched == [a EXCEPT !.at = "read", !.title = title, !.known = known]
             IN  /\ Nothing(a) /\ a.at = "off"
                 /\ Nothing(launched) /\ launched.at = "read" /\ launched.title = title
  <2> DEFINE a == [at |-> "off", title |-> e, known |-> FALSE, same |-> TRUE,
                   sections |-> <<>>, started |-> {}, seen |-> {}, whole |-> TRUE]
             b == [a EXCEPT !.at = "read"]
             c == [b EXCEPT !.title = title]
  <2>1. Nothing(a) /\ a.at = "off" /\ Nothing(b) /\ b.at = "read"
    BY DEF Nothing
  <2> HIDE DEF b
  <2>2. Nothing(c) /\ c.at = "read" /\ c.title = title
    BY <2>1 DEF Nothing
  <2> HIDE DEF c
  <2> DEFINE d == [c EXCEPT !.known = known]
  <2>3. Nothing(d) /\ d.at = "read" /\ d.title = title
    BY <2>2 DEF Nothing
  <2>4. [a EXCEPT !.at = "read", !.title = title, !.known = known] = d
    BY Zenon DEF b, c
  <2> QED BY <2>1, <2>3, <2>4
<1>2. \E e : NoApp = [at |-> "off", title |-> e, known |-> FALSE, same |-> TRUE,
                     sections |-> <<>>, started |-> {}, seen |-> {}, whole |-> TRUE]
  BY Zenon DEF NoApp
<1> QED BY <1>1, <1>2 DEF Launched

LEMMA NothingIs == Nothing(app) => LoaderInv
BY DEF Nothing, LoaderInv, IsApp, Walks, Covers, OnlySwitchedOn, StartsAllThatAreOn

\* A value that is on with its end cut off is on.
LEMMA OnIsNotCut ==
    ASSUME NEW v, NEW w, <<v, w>> \in Begins, On(v)
    PROVE  On(w)
<1>1. PICK word \in {"1", "enabled", "yes", "y", "on", "true"} : <<word, v>> \in Begins
  BY Zenon DEF On
<1>2. v \in Texts /\ w \in Texts /\ word \in Texts
  BY <1>1, BeginsAssumption
<1>3. <<word, w>> \in Begins
  BY <1>1, <1>2, BeginsAssumption
<1> QED BY <1>1, <1>3, Zenon DEF On

\* The sections of a file, also of one that was cut off, list what is on in the
\* store; those of a whole file all of it.
LEMMA SectionsSay ==
    ASSUME FileInv
    PROVE  LET read == Sections(Load(file))
           IN  /\ read \in Seq(Seen)
               /\ \A i \in DOMAIN read : \A k \in ToSet(read[i].on) :
                     <<read[i].name, k>> \in SwitchedOn
               /\ ui.at # "write" =>
                     \A r \in SwitchedOn : \E i \in DOMAIN read :
                         read[i].name = r[1] /\ r[2] \in ToSet(read[i].on)
<1> DEFINE ini == Load(file)
           read == Sections(ini)
<1>1. ini \in Structures(Texts) /\ NoDuplicates(ini)
  BY FileInvSays DEF Part, Structure
<1>2. /\ DOMAIN Lookups(ini) \subseteq DOMAIN store
      /\ \A q \in DOMAIN Lookups(ini) :
            Lookups(ini)[q] = store[q] \/ <<Lookups(ini)[q].value, store[q].value>> \in Begins
      /\ ui.at # "write" => Lookups(ini) = store
  BY FileInvSays DEF Part, Says, Remains, CutShort
<1> HIDE DEF ini
<1>3. /\ read \in Seq(Seen)
      /\ DOMAIN read = DOMAIN ini.sections
      /\ \A i \in DOMAIN ini.sections : read[i] = KeysOn(ini.sections[i])
  BY <1>1, SectionsTyped
<1> HIDE DEF read
<1>4. ASSUME NEW i \in DOMAIN ini.sections
      PROVE  /\ read[i].name = ini.sections[i].name
             /\ \A k : k \in ToSet(read[i].on) <=>
                   \E j \in DOMAIN ini.sections[i].keys :
                      ini.sections[i].keys[j].key = k /\ On(ini.sections[i].keys[j].value)
  <2> DEFINE keys == ini.sections[i].keys
             on   == {j \in DOMAIN keys : On(keys[j].value)}
  <2>1. read[i] = [name |-> ini.sections[i].name, on |-> [j \in on |-> keys[j].key]]
    BY <1>3 DEF KeysOn
  <2>2. read[i].on = [j \in on |-> keys[j].key]
    BY <2>1
  <2>3. ToSet(read[i].on) = {keys[j].key : j \in on}
    BY <2>2, SMTT(30) DEF ToSet
  <2>4. read[i].name = ini.sections[i].name
    BY <2>1
  <2>5. \A k : k \in ToSet(read[i].on) <=> \E j \in on : keys[j].key = k
    BY <2>3
  <2> QED BY <2>4, <2>5
<1>5. ASSUME NEW i \in DOMAIN read, NEW k \in ToSet(read[i].on)
      PROVE  <<read[i].name, k>> \in SwitchedOn
  <2>1. PICK j \in DOMAIN ini.sections[i].keys :
            ini.sections[i].keys[j].key = k /\ On(ini.sections[i].keys[j].value)
    BY <1>3, <1>4, <1>5
  <2>2. /\ <<read[i].name, k>> \in DOMAIN Lookups(ini)
        /\ Lookups(ini)[<<read[i].name, k>>] = ini.sections[i].keys[j]
    BY <1>1, <1>3, <1>4, <2>1, FoundWhereItIs
  <2> DEFINE q == <<read[i].name, k>>
  <2>3. q \in DOMAIN store /\ On(Lookups(ini)[q].value)
    BY <1>2, <2>1, <2>2
  <2> HIDE DEF q
  <2>4. On(store[q].value)
    BY <1>2, <2>2, <2>3, OnIsNotCut DEF q
  <2> QED BY <2>3, <2>4 DEF SwitchedOn, q
<1>6. ASSUME ui.at # "write", NEW r \in SwitchedOn
      PROVE  \E i \in DOMAIN read : read[i].name = r[1] /\ r[2] \in ToSet(read[i].on)
  <2>1. r \in DOMAIN Lookups(ini) /\ On(Lookups(ini)[r].value)
    BY <1>2, <1>6 DEF SwitchedOn
  <2>2. PICK i \in DOMAIN ini.sections : \E j \in DOMAIN ini.sections[i].keys :
            /\ r = <<ini.sections[i].name, ini.sections[i].keys[j].key>>
            /\ Lookups(ini)[r] = ini.sections[i].keys[j]
    BY <1>1, <2>1, EntryIsSomewhere
  <2>3. PICK j \in DOMAIN ini.sections[i].keys :
            /\ r = <<ini.sections[i].name, ini.sections[i].keys[j].key>>
            /\ Lookups(ini)[r] = ini.sections[i].keys[j]
    BY <2>2
  <2>4. ini.sections[i].keys[j].key = r[2] /\ On(ini.sections[i].keys[j].value)
    BY <2>1, <2>3
  <2>5. r[2] \in ToSet(read[i].on)
    BY <1>4, <2>4
  <2> QED BY <1>3, <1>4, <2>3, <2>5
<1> QED BY <1>3, <1>5, <1>6 DEF read, ini

\* Every step of the loader keeps its invariant.
LEMMA LoaderNext ==
    ASSUME FileInv, LoaderInv, [Next]_vars
    PROVE  LoaderInv'
<1>1. CASE UNCHANGED app
  BY <1>1 DEF LoaderInv, IsApp, Walks, Covers, OnlySwitchedOn, StartsAllThatAreOn, OnFor
<1>2. CASE Quit \/ PowerLoss \/ \E t \in Titles : Launch(t)
  <2> USE DEF LoaderInv, IsApp, Walks, Covers, OnlySwitchedOn, StartsAllThatAreOn, OnFor
  <2>1. CASE Quit \/ PowerLoss
    BY <2>1, NothingYet DEF Quit, PowerLoss, Nothing
  <2>2. ASSUME NEW t \in Titles, Launch(t)
        PROVE  Nothing(app')
    <3>1. PICK known \in BOOLEAN : app' = Launched(t, known)
      BY <2>2 DEF Launch, Launched
    <3>2. Nothing(Launched(t, known))
      BY NothingYet
    <3> QED BY <3>1, <3>2
  <2> QED BY <1>2, <2>1, <2>2 DEF Nothing
<1>3. CASE ReadConfig
  <2> USE DEF LoaderInv, IsApp, Walks, Covers, OnlySwitchedOn, StartsAllThatAreOn, OnFor
  <2>1. PICK lines \in LinesMet :
            app' = [app EXCEPT !.at = "walk", !.sections = Sections(Load(lines)),
                               !.seen = IF app.same THEN SwitchedOn ELSE {},
                               !.whole = app.same /\ ui.at # "write"]
    BY <1>3 DEF ReadConfig
  <2>2. /\ app'.at = "walk" /\ app'.sections = Sections(Load(lines)) /\ app'.started = {}
        /\ app'.same = app.same /\ app'.whole = (app.same /\ ui.at # "write") /\ IsApp'
    BY <1>3, <2>1 DEF ReadConfig
  <2>3. CASE app.same
    <3>1. lines = file /\ app'.seen = SwitchedOn
      BY <2>1, <2>3 DEF LinesMet
    <3> DEFINE read == Sections(Load(file))
    <3>2. /\ read \in Seq(Seen)
          /\ \A i \in DOMAIN read : \A k \in ToSet(read[i].on) :
                <<read[i].name, k>> \in SwitchedOn
          /\ ui.at # "write" =>
                \A r \in SwitchedOn : \E i \in DOMAIN read :
                    read[i].name = r[1] /\ r[2] \in ToSet(read[i].on)
      BY SectionsSay
    <3>3. app'.sections = read
      BY <2>2, <3>1
    <3> HIDE DEF read
    <3>4. Walks'
      BY <2>2, <2>3, <3>1, <3>2, <3>3
    <3>5. Covers'
      BY <2>2, <3>1, <3>2, <3>3
    <3> QED BY <2>2, <3>4, <3>5
  <2>4. CASE ~app.same
    BY <2>2, <2>4
  <2> QED BY <2>3, <2>4
<1>9. ASSUME app.at \notin {"off", "read"}, ~app.same, IsApp', app'.same = app.same,
             app'.whole = app.whole, app'.at \notin {"off", "read"}
      PROVE  LoaderInv'
  BY <1>9 DEF LoaderInv, IsApp, Walks, Covers, OnlySwitchedOn, StartsAllThatAreOn
<1>10. CASE ConfigUnreadable
  <2> USE DEF LoaderInv, IsApp, Walks, Covers, OnlySwitchedOn, StartsAllThatAreOn, OnFor
  <2>1. /\ app'.at = "walk" /\ app'.sections = <<>> /\ app'.started = {} /\ app'.whole = FALSE
        /\ IsApp'
    BY <1>10 DEF ConfigUnreadable
  <2> QED BY <2>1
<1>11. CASE Overtaken
  <2> USE DEF LoaderInv, IsApp, Walks, Covers, OnlySwitchedOn, StartsAllThatAreOn, OnFor
  <2>1. CASE app.at = "read" /\ app' = [app EXCEPT !.same = FALSE]
    <3>1. app'.at = "read" /\ app'.sections = <<>> /\ app'.started = {} /\ IsApp'
      BY <2>1
    <3> QED BY <3>1
  <2> QED BY <1>1, <1>11, <2>1 DEF Overtaken
<1>12. CASE (RunSection \/ StayInPlugin \/ LoaderReturn) /\ ~app.same
  <2>1. /\ app.at \notin {"off", "read"} /\ DOMAIN app' = DOMAIN app /\ app'.same = app.same
        /\ app'.whole = app.whole /\ app'.at \in {"walk", "inside", "done"}
    BY <1>12 DEF RunSection, StayInPlugin, LoaderReturn, LoaderInv, IsApp
  <2> QED BY <1>9, <1>12, <2>1 DEF LoaderInv, IsApp
<1>4. CASE RunSection /\ app.same
  <2> USE DEF LoaderInv, IsApp, Walks, Covers, OnlySwitchedOn, StartsAllThatAreOn, OnFor
  <2> DEFINE s == app.sections
             on == ToSet(Head(s).on)
  <2>1. /\ s \in Seq(Seen) /\ s # <<>> /\ app.at = "walk" /\ app.same
        /\ Applies(Head(s).name, app.title, app.known)
        /\ \A k \in on : <<Head(s).name, k>> \in app.seen
    <3>1. s \in Seq(Seen) /\ s # <<>> /\ app.at = "walk" /\ app.same
          /\ Applies(Head(s).name, app.title, app.known)
      BY <1>4 DEF RunSection, Stuck, Section
    <3>2. 1 \in DOMAIN s /\ Head(s) = s[1]
      BY <3>1
    <3> QED BY <3>1, <3>2
  <2>2. /\ app'.at = "walk" /\ app'.sections = Tail(s) /\ app'.started = app.started \cup on
        /\ app'.title = app.title /\ app'.known = app.known /\ app'.seen = app.seen
        /\ app'.whole = app.whole /\ app'.same = app.same /\ IsApp'
    BY <1>4, <2>1 DEF RunSection, Section
  <2>3. /\ Tail(s) \in Seq(Seen)
        /\ \A i \in DOMAIN Tail(s) : Tail(s)[i] = s[i + 1] /\ i + 1 \in DOMAIN s
        /\ \A i \in DOMAIN s :
              \/ i = 1 /\ s[i] = Head(s)
              \/ i - 1 \in DOMAIN Tail(s) /\ s[i] = Tail(s)[i - 1]
    BY <2>1
  <2> HIDE DEF s, on
  <2>4. Walks'
    <3>1. \A i \in DOMAIN Tail(s) : \A k \in ToSet(Tail(s)[i].on) :
              <<Tail(s)[i].name, k>> \in app.seen
      BY <2>1, <2>3 DEF s
    <3> QED BY <2>1, <2>2, <2>3, <3>1
  <2>5. Covers'
    <3> SUFFICES ASSUME app.whole, NEW r \in app.seen, Applies(r[1], app.title, app.known)
                 PROVE  \/ r[2] \in app.started \cup on
                        \/ \E i \in DOMAIN Tail(s) :
                              Tail(s)[i].name = r[1] /\ r[2] \in ToSet(Tail(s)[i].on)
      BY <2>2
    <3>1. CASE r[2] \in app.started
      BY <3>1
    <3>2. ASSUME NEW i \in DOMAIN s, s[i].name = r[1], r[2] \in ToSet(s[i].on)
          PROVE  \/ r[2] \in on
                 \/ \E j \in DOMAIN Tail(s) :
                       Tail(s)[j].name = r[1] /\ r[2] \in ToSet(Tail(s)[j].on)
      <4>1. CASE i = 1
        BY <2>3, <3>2, <4>1 DEF on
      <4>2. CASE i - 1 \in DOMAIN Tail(s) /\ s[i] = Tail(s)[i - 1]
        BY <3>2, <4>2
      <4> QED BY <2>3, <4>1, <4>2
    <3> QED BY <2>1, <3>1, <3>2 DEF s
  <2>6. OnlySwitchedOn'
    <3>1. ASSUME NEW k \in on
          PROVE  k \in OnFor(app)
      <4>1. <<Head(s).name, k>> \in app.seen
        BY <2>1
      <4> QED BY <2>1, <4>1
    <3>2. OnFor(app') = OnFor(app)
      BY <2>2
    <3> QED BY <2>2, <3>1, <3>2
  <2> QED BY <2>2, <2>4, <2>5, <2>6
<1>5. CASE StayInPlugin /\ app.same
  <2> USE DEF LoaderInv, IsApp, Walks, Covers, OnlySwitchedOn, StartsAllThatAreOn, OnFor
  <2>1. /\ app.at = "walk" /\ app.same /\ app.sections \in Seq(Seen) /\ app.sections # <<>>
        /\ Applies(Section.name, app.title, app.known)
        /\ Section = app.sections[1] /\ 1 \in DOMAIN app.sections
    BY <1>5 DEF StayInPlugin, Stuck, Section
  <2>2. PICK n \in DOMAIN Section.on :
            LET before == {i \in DOMAIN Section.on : i <= n}
            IN  app' = [app EXCEPT !.at = "inside", !.sections = <<>>,
                                   !.started = @ \cup {Section.on[i] : i \in before}]
    BY <1>5 DEF StayInPlugin
  <2> DEFINE now == {Section.on[i] : i \in {i \in DOMAIN Section.on : i <= n}}
  <2>3. now \subseteq ToSet(Section.on)
    BY DEF ToSet
  <2>4. /\ app'.at = "inside" /\ app'.started = app.started \cup now
        /\ app'.title = app.title /\ app'.known = app.known /\ app'.seen = app.seen
        /\ app'.same = app.same /\ app'.whole = app.whole /\ IsApp'
    BY <2>2
  <2>5. \A k \in ToSet(Section.on) : <<Section.name, k>> \in app.seen
    BY <2>1
  <2> HIDE DEF now
  <2>6. OnlySwitchedOn'
    <3>1. ASSUME NEW k \in now
          PROVE  k \in OnFor(app)
      <4>1. <<Section.name, k>> \in app.seen
        BY <2>3, <2>5
      <4> QED BY <2>1, <4>1
    <3>2. OnFor(app') = OnFor(app)
      BY <2>4
    <3> QED BY <2>4, <3>1, <3>2
  <2> QED BY <2>1, <2>4, <2>6
<1>6. CASE LoaderReturn /\ app.same
  <2> USE DEF LoaderInv, IsApp, Walks, Covers, OnlySwitchedOn, StartsAllThatAreOn, OnFor
  <2> QED BY <1>6 DEF LoaderReturn
<1>7. CASE \/ PageActivating \/ PageDeactivating
           \/ \E p \in Plugins : PreCreate(p) \/ PreCreateAbsent(p) \/ Press(p)
           \/ OpenToSave \/ SaveFails \/ Write \/ WriteFails \/ Spin \/ Edit
  BY <1>1, <1>7, <1>11 DEF PageActivating, PageDeactivating, PreCreate, PreCreateAbsent, Press,
                           OpenToSave, SaveFails, Write, WriteFails, Spin, Edit, vars
<1>8. CASE UNCHANGED vars
  BY <1>1, <1>8 DEF vars
<1> QED BY <1>2, <1>3, <1>4, <1>5, <1>6, <1>7, <1>8, <1>10, <1>12 DEF Next

\* A plugin that a loader starts was switched on, for all apps or for this one,
\* in what was stored when it had read the file, also when this was being
\* written or had been cut off inside a value - unless the file was emptied or
\* replaced under the read; a loader that returns has started all that were,
\* unless it read a file that was being saved or could not read one: for any
\* files, titles and plugins.
THEOREM StartsWhatIsOn == Spec => [](OnlySwitchedOn /\ StartsAllThatAreOn)
<1>1. Init => FileInv /\ LoaderInv
  BY FileInit, NothingYet, NothingIs DEF Init
<1>2. FileInv /\ LoaderInv /\ [Next]_vars => FileInv' /\ LoaderInv'
  BY FileNext, LoaderNext
<1>3. LoaderInv => OnlySwitchedOn /\ StartsAllThatAreOn
  BY DEF LoaderInv
<1> QED BY <1>1, <1>2, <1>3, PTL DEF Spec

-----------------------------------------------------------------------------
(* The types.                                                              *)

AppTyped ==
    /\ IsApp
    /\ app.at \in {"off", "read", "walk", "inside", "done"}
    /\ app.at # "off" => app.title \in Titles

LEMMA AppNext ==
    ASSUME AppTyped, [Next]_vars
    PROVE  AppTyped'
<1> USE DEF AppTyped, IsApp
<1>1. CASE UNCHANGED app
  BY <1>1
<1>2. CASE Quit \/ PowerLoss
  BY <1>2, NothingYet DEF Quit, PowerLoss, Nothing
<1>3. ASSUME NEW t \in Titles, Launch(t)
      PROVE  AppTyped'
  <2>1. PICK known \in BOOLEAN : app' = Launched(t, known)
    BY <1>3 DEF Launch, Launched
  <2>2. /\ Nothing(Launched(t, known)) /\ Launched(t, known).at = "read"
        /\ Launched(t, known).title = t
    BY NothingYet
  <2> QED BY <2>1, <2>2 DEF Nothing
<1>4. CASE ReadConfig \/ ConfigUnreadable \/ RunSection \/ LoaderReturn
  <2>1. app.at # "off" /\ app'.title = app.title
        /\ DOMAIN app' = DOMAIN app /\ app'.at \in {"walk", "done"}
    BY <1>4 DEF ReadConfig, ConfigUnreadable, RunSection, LoaderReturn
  <2> QED BY <2>1
<1>5. CASE StayInPlugin
  <2>1. app.at # "off" /\ app'.title = app.title
        /\ DOMAIN app' = DOMAIN app /\ app'.at = "inside"
    BY <1>5 DEF StayInPlugin
  <2> QED BY <2>1
<1>8. CASE Overtaken
  BY <1>1, <1>8 DEF Overtaken
<1>6. CASE \/ PageActivating \/ PageDeactivating
           \/ \E p \in Plugins : PreCreate(p) \/ PreCreateAbsent(p) \/ Press(p)
           \/ OpenToSave \/ SaveFails \/ Write \/ WriteFails \/ Spin \/ Edit
  BY <1>1, <1>6, <1>8 DEF PageActivating, PageDeactivating, PreCreate, PreCreateAbsent, Press,
                          OpenToSave, SaveFails, Write, WriteFails, Spin, Edit, vars
<1>7. CASE UNCHANGED vars
  BY <1>1, <1>7 DEF vars
<1> QED BY <1>2, <1>3, <1>4, <1>5, <1>6, <1>7 DEF Next

PageTyped == g_PageID \in {"none", Manager} /\ DOMAIN value = Plugins

LEMMA PageNext ==
    ASSUME PageTyped, [Next]_vars
    PROVE  PageTyped'
<1> USE DEF PageTyped
<1>1. CASE UNCHANGED <<g_PageID, value>>
  BY <1>1
<1>2. CASE PageActivating \/ PageDeactivating \/ PowerLoss
  BY <1>2 DEF PageActivating, PageDeactivating, PowerLoss, NoItems
<1>3. ASSUME NEW p \in Plugins, PreCreate(p) \/ PreCreateAbsent(p) \/ Press(p)
      PROVE  PageTyped'
  BY <1>3, Zenon DEF PreCreate, PreCreateAbsent, Press
<1>4. CASE OpenToSave \/ SaveFails \/ Write \/ WriteFails \/ Edit
  BY <1>1, <1>4 DEF OpenToSave, SaveFails, Write, WriteFails, Edit, uiVars
<1>5. CASE \/ \E t \in Titles : Launch(t)
           \/ ReadConfig \/ ConfigUnreadable \/ Spin \/ RunSection \/ StayInPlugin
           \/ LoaderReturn \/ Quit \/ UNCHANGED vars
  BY <1>1, <1>5 DEF Launch, ReadConfig, ConfigUnreadable, Spin, RunSection, StayInPlugin,
                    LoaderReturn, Quit, vars, disk, uiVars
<1> QED BY <1>2, <1>3, <1>4, <1>5 DEF Next

\* The types hold, and what is read or being saved never names a section or a
\* key twice, also when the file was cut off in the middle of a save.
THEOREM TypeCorrect == Spec => []TypeOK
<1>1. Init => FileInv /\ AppTyped /\ PageTyped
  BY FileInit, NothingYet DEF Init, AppTyped, IsApp, PageTyped, NoItems, Nothing
<1>2. FileInv /\ AppTyped /\ PageTyped /\ [Next]_vars => FileInv' /\ AppTyped' /\ PageTyped'
  BY FileNext, AppNext, PageNext
<1>3. FileInv /\ AppTyped /\ PageTyped => TypeOK
  BY FileInvSays DEF FileInv, IsUi, AppTyped, PageTyped, TypeOK, Part, Structure
<1> QED BY <1>1, <1>2, <1>3, PTL DEF Spec

-----------------------------------------------------------------------------
(* The page.                                                               *)

\* What a toggle shows is what the entries in s say of its plugin.
Agrees(s, p, v) == <<All, p>> \in DOMAIN s /\ v = Shown(s[<<All, p>>].value)

\* What is stored, or is about to be.
Latest == IF ui.at = "open" THEN Lookups(ui.ini) ELSE store

ShowsInv ==
    /\ faults \in Nat
    /\ faults = 0 =>
          \A p \in Plugins : value[p] \notin {"absent", "new"} => Agrees(Latest, p, value[p])

LEMMA ShownDigit == \A v \in {"0", "1"} : Shown(v) = v
<1>1. Shown("0") = "0"
  BY Zenon DEF Shown
<1>2. Shown("1") = "1"
  BY Zenon DEF Shown
<1> QED BY <1>1, <1>2, Zenon

\* Setting one plugin's entry leaves what the other toggles show.
LEMMA SetShows ==
    ASSUME NEW ini, Structure(ini), NEW p \in Plugins, NEW v \in {"0", "1"}
    PROVE  LET is == Lookups(Set(ini, All, p, v))
           IN  /\ Agrees(is, p, v)
               /\ \A q, w : q # p /\ Agrees(Lookups(ini), q, w) => Agrees(is, q, w)
<1> DEFINE was == Lookups(ini)
           is  == Lookups(Set(ini, All, p, v))
           old == IF Has(ini, All, p) THEN Entry(ini, All, p) ELSE NewKey(p)
<1>1. HasEmpty(Texts) /\ All \in Texts /\ p \in Texts /\ v \in Texts
  BY TextsHave
<1>2. /\ is = [q \in DOMAIN was \cup {<<All, p>>} |-> is[q]]
      /\ is[<<All, p>>] = [old EXCEPT !.value = v]
      /\ \A q \in DOMAIN was : q # <<All, p>> => is[q] = was[q]
  BY <1>1, SetPuts DEF Structure
<1>3. "value" \in DOMAIN old
  <2>1. CASE Has(ini, All, p)
    <3>1. ini \in Structures(Texts)
      BY DEF Structure
    <3>2. Entry(ini, All, p) \in KeysOver(Texts)
      BY <2>1, <3>1, FirstSection, FirstKey DEF Has, Entry, SectionNamed, KeyNamed
    <3>3. \A e \in KeysOver(Texts) : "value" \in DOMAIN e
      BY DEF KeysOver
    <3> QED BY <2>1, <3>2, <3>3
  <2>2. CASE ~Has(ini, All, p)
    <3>1. NewKey(p) \in KeysOver(Texts)
      BY <1>1, NewKeyTyped
    <3>2. \A e \in KeysOver(Texts) : "value" \in DOMAIN e
      BY DEF KeysOver
    <3> QED BY <2>2, <3>1, <3>2
  <2> QED BY <2>1, <2>2
<1> HIDE DEF old, was, is
<1>4. is[<<All, p>>].value = v
  BY <1>2, <1>3
<1>5. DOMAIN is = DOMAIN was \cup {<<All, p>>}
  BY <1>2
<1>6. Agrees(is, p, v)
  BY <1>4, <1>5, ShownDigit DEF Agrees
<1>7. ASSUME NEW q, NEW w, q # p, Agrees(was, q, w)
      PROVE  Agrees(is, q, w)
  <2>1. <<All, q>> # <<All, p>>
    BY <1>7
  <2> QED BY <1>2, <1>5, <1>7, <2>1 DEF Agrees
<1> QED BY <1>6, <1>7 DEF is, was

LEMMA ShowsNext ==
    ASSUME ShowsInv, FileInv, PageTyped, [Next]_vars
    PROVE  ShowsInv'
<1>1. CASE UNCHANGED <<faults, value, store, ui>>
  BY <1>1 DEF ShowsInv, Latest
<1>2. CASE PageActivating \/ PageDeactivating
  <2>1. faults' = faults /\ \A p \in Plugins : value'[p] \in {"absent", "new"}
    BY <1>2 DEF PageActivating, PageDeactivating, NoItems, disk
  <2> QED BY <2>1 DEF ShowsInv
<1>3. ASSUME NEW p \in Plugins, PreCreate(p)
      PROVE  ShowsInv'
  <2> DEFINE ini == Load(file)
             shown == Shown(Get(ini, All, p))
  <2>1. /\ ui.at = "idle" /\ Has(ini, All, p) /\ value' = [value EXCEPT ![p] = shown]
        /\ UNCHANGED <<store, faults, ui>>
    BY <1>3 DEF PreCreate, disk
  <2>2. Lookups(ini) = store /\ ini \in Structures(Texts)
    BY <2>1 DEF FileInv, Says, Structure
  <2>3. /\ <<All, p>> \in DOMAIN store
        /\ store[<<All, p>>] = Entry(ini, All, p)
    <3>1. StoreOfEntries!Key(p) = <<All, p>>
      BY DEF StoreOfEntries!Key, All
    <3> QED BY <2>1, <2>2, <3>1, EntryOf
  <2>4. Agrees(store, p, shown)
    BY <2>3 DEF Agrees, Get
  <2>5. Latest = store /\ Latest' = store
    BY <2>1 DEF Latest
  <2> HIDE DEF shown, ini
  <2> QED BY <2>1, <2>4, <2>5 DEF ShowsInv, PageTyped
<1>4. ASSUME NEW p \in Plugins, PreCreateAbsent(p) \/ Press(p)
      PROVE  ShowsInv'
  <2> DEFINE ini == Load(file)
  <2>1. ui.at = "idle" /\ UNCHANGED store
    BY <1>4 DEF PreCreateAbsent, Press
  <2>2. PICK unread \in BOOLEAN, v \in {"0", "1"} :
            /\ Opens(unread)
            /\ value' = [value EXCEPT ![p] = v]
            /\ ui' = [at |-> "open", ini |-> Set(Loaded(unread), All, p, v), unread |-> unread]
    BY <1>4, HandlerIs
  <2>3. CASE unread
    BY <2>2, <2>3 DEF Opens, Fault, ShowsInv
  <2>4. CASE ~unread
    <3>1. faults' = faults /\ Loaded(unread) = ini
      BY <2>2, <2>4 DEF Opens, Loaded
    <3>2. Lookups(ini) = store /\ Structure(ini)
      BY <2>1 DEF FileInv, Says
    <3> DEFINE is == Lookups(Set(ini, All, p, v))
    <3>3. /\ Agrees(is, p, v)
          /\ \A q, w : q # p /\ Agrees(Lookups(ini), q, w) => Agrees(is, q, w)
      BY <3>2, SetShows
    <3>4. Latest = store /\ Latest' = is
      BY <2>1, <2>2, <3>1 DEF Latest
    <3> HIDE DEF is, ini
    <3> QED BY <2>1, <2>2, <3>1, <3>2, <3>3, <3>4 DEF ShowsInv, PageTyped
  <2> QED BY <2>3, <2>4
<1>5. CASE OpenToSave \/ Write
  <2>1. UNCHANGED <<faults, value>> /\ Latest' = Latest
    <3>1. CASE OpenToSave
      <4>1. ui.at = "open" /\ store' = Lookups(ui.ini) /\ ui'.at = "write"
        BY <3>1 DEF OpenToSave, FileInv, IsUi
      <4> QED BY <3>1, <4>1 DEF Latest, OpenToSave
    <3>2. CASE Write
      <4>1. ui.at = "write" /\ store' = store /\ (ui' = ui \/ ui' = NoHandler)
        BY <3>2 DEF Write
      <4>2. ui'.at # "open"
        BY <4>1, IdleUi
      <4> QED BY <3>2, <4>1, <4>2 DEF Latest, Write
    <3> QED BY <1>5, <3>1, <3>2
  <2> QED BY <2>1 DEF ShowsInv
<1>6. CASE SaveFails \/ WriteFails \/ ConfigUnreadable \/ Edit \/ PowerLoss
  <2>1. faults' = faults + 1
    BY <1>6 DEF SaveFails, WriteFails, ConfigUnreadable, Edit, PowerLoss, Fault
  <2> QED BY <2>1 DEF ShowsInv
<1>7. CASE \/ \E t \in Titles : Launch(t)
           \/ ReadConfig \/ Spin \/ RunSection \/ StayInPlugin
           \/ LoaderReturn \/ Quit \/ UNCHANGED vars
  BY <1>1, <1>7 DEF Launch, ReadConfig, Spin, RunSection, StayInPlugin,
                    LoaderReturn, Quit, vars, disk, uiVars
<1> QED BY <1>2, <1>3, <1>4, <1>5, <1>6, <1>7 DEF Next

\* While nothing fails and nobody else edits the file, every toggle of the page
\* shows what plugins.ini says of its plugin: no press is lost and none shows
\* another's value, for any plugins, values and files.
THEOREM PageShows == Spec => []ShowsWhatIsStored
<1>1. Init => FileInv /\ PageTyped /\ ShowsInv
  BY FileInit DEF Init, PageTyped, ShowsInv, NoItems
<1>2. /\ FileInv /\ PageTyped /\ ShowsInv /\ [Next]_vars
      => FileInv' /\ PageTyped' /\ ShowsInv'
  BY FileNext, PageNext, ShowsNext
<1>3. ShowsInv => ShowsWhatIsStored
  BY DEF ShowsInv, ShowsWhatIsStored, Agrees, Latest
<1> QED BY <1>1, <1>2, <1>3, PTL DEF Spec

=============================================================================
