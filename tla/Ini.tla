-------------------------------- MODULE Ini --------------------------------
(***************************************************************************)
(* The INI file of common/ini.c: the structure in memory, the parser       *)
(* (ini_load) and the printer (ini_save).  A text file is a sequence of    *)
(* lines and a line is a record of what the parser makes of it; a line it  *)
(* skips (no "=", a header without "]") is Junk.  An inline comment is     *)
(* part of a line's note.  Texts hold neither "=" nor a comment sign.  The *)
(* API that no plugin calls (ini_delete_key, ini_delete_section,           *)
(* ini_add_comment...) is left out.                                        *)
(***************************************************************************)
EXTENDS Naturals, FiniteSets, Sequences, SequencesExt, Remnants

CommentLine(t)      == [kind |-> "comment", text |-> t]
Blank               == CommentLine("")
SectionLine(n)      == [kind |-> "section", name |-> n]
KeyLine(k, v, note) == [kind |-> "key", key |-> k, value |-> v, note |-> note]
Junk                == [kind |-> "junk"]

(***************************************************************************)
(* The structure: lists are newest first, as create_section and create_key *)
(* push at the head.  T is a set of texts.                                 *)
(***************************************************************************)
KeysOver(T) == [key : T, value : T, comment : T, comments_before : Seq(T)]
SectionsOver(T) == [name : T, comments_before : Seq(T), keys : Seq(KeysOver(T))]
Structures(T) == [header_comments : Seq(T), sections : Seq(SectionsOver(T))]

LinesOver(T) ==
    [kind : {"comment"}, text : T] \cup [kind : {"section"}, name : T]
      \cup [kind : {"key"}, key : T, value : T, note : T] \cup {Junk}

Empty == [header_comments |-> <<>>, sections |-> <<>>]

NewSection(n)    == [name |-> n, comments_before |-> <<>>, keys |-> <<>>]
NewKey(k)        == [key |-> k, value |-> "", comment |-> "", comments_before |-> <<>>]

CreateSection(ini, n) == [ini EXCEPT !.sections = <<NewSection(n)>> \o @]

\* Mutant: whatever section comes first.
FindSectionAny(ini, n) == 1

HasSection(ini, n)  == \E i \in DOMAIN ini.sections : ini.sections[i].name = n
FindSection(ini, n) == Min({i \in DOMAIN ini.sections : ini.sections[i].name = n})
HasKey(section, k)  == \E i \in DOMAIN section.keys : section.keys[i].key = k
FindKey(section, k) == Min({i \in DOMAIN section.keys : section.keys[i].key = k})

(***************************************************************************)
(* ini_load, a line at a time.  Comments wait (pending_comments) in the    *)
(* header's list, or once there is a section in that of the newest one:    *)
(* the next key takes them, and the next header drops them, as it clears   *)
(* the list it has just been given.  Key lines before the first header are *)
(* skipped.                                                                *)
(***************************************************************************)
Pending(ini) ==
    IF ini.sections = <<>> THEN ini.header_comments ELSE ini.sections[1].comments_before

WithPending(ini, texts) ==
    IF ini.sections = <<>> THEN [ini EXCEPT !.header_comments = texts]
                           ELSE [ini EXCEPT !.sections[1].comments_before = texts]

KeyOf(line, texts) ==
    [key |-> line.key, value |-> line.value, comment |-> line.note, comments_before |-> texts]

ReadLine(ini, line) ==
    CASE line.kind = "comment" -> WithPending(ini, Append(Pending(ini), line.text))
      [] line.kind = "section" -> CreateSection(WithPending(ini, <<>>), line.name)
      [] line.kind = "key" /\ ini.sections # <<>> ->
            [WithPending(ini, <<>>) EXCEPT
                !.sections[1].keys = <<KeyOf(line, Pending(ini))>> \o @]
      [] OTHER -> ini

\* The member of a set that has one.  (TLC then evaluates it once.)
TheOne(S) == CHOOSE x \in S : TRUE

ReadLines(ini, lines) ==
    LET read[i \in 0 .. Len(lines)] ==
            IF i = 0 THEN ini ELSE TheOne({ReadLine(r, lines[i]) : r \in {read[i - 1]}})
    IN  read[Len(lines)]

Load(lines) == ReadLines(Empty, lines)

(***************************************************************************)
(* ini_save: what it prints, in the order of the lists.                    *)
(***************************************************************************)
Comments(texts) == [i \in DOMAIN texts |-> CommentLine(texts[i])]

\* Mutant: the comments before a key are not saved.
KeyTextBare(e) == <<KeyLine(e.key, e.value, e.comment)>>

KeyText(e) == Append(Comments(e.comments_before), KeyLine(e.key, e.value, e.comment))

SectionText(s) ==
    Comments(s.comments_before) \o <<SectionLine(s.name)>>
      \o FlattenSeq([i \in DOMAIN s.keys |-> KeyText(s.keys[i])]) \o <<Blank>>

Text(ini) ==
    Comments(ini.header_comments)
      \o FlattenSeq([i \in DOMAIN ini.sections |-> SectionText(ini.sections[i])])

(***************************************************************************)
(* The text goes through the C library's buffer, so its writing may stop   *)
(* at any byte.  Torn(line) is how the parser may read a line of which     *)
(* only the first bytes are there: a header is none without its "]", a key *)
(* none without its "=", and Tails(text, n) what may follow n whole lines. *)
(***************************************************************************)
Cut(t) == {b[1] : b \in {c \in Begins : c[2] = t}}

Torn(line) ==
    CASE line.kind = "comment" -> {CommentLine(u) : u \in Cut(line.text)}
      [] line.kind = "section" -> {Junk, line}
      [] line.kind = "key" -> {Junk} \cup {KeyLine(line.key, v, "") : v \in Cut(line.value)}
                                     \cup {KeyLine(line.key, line.value, c) : c \in Cut(line.note)}
      [] OTHER -> {Junk}

Tails(text, n) ==
    IF n = Len(text) THEN {<<>>} ELSE {<<>>} \cup {<<t>> : t \in Torn(text[n + 1])}

(***************************************************************************)
(* ini_get and ini_set.                                                    *)
(***************************************************************************)
Has(ini, n, k) ==
    HasSection(ini, n) /\ HasKey(ini.sections[FindSection(ini, n)], k)

Entry(ini, n, k) ==
    LET s == ini.sections[FindSection(ini, n)] IN s.keys[FindKey(s, k)]

Get(ini, n, k) == Entry(ini, n, k).value

WithSection(ini, n) == IF HasSection(ini, n) THEN ini ELSE CreateSection(ini, n)

\* Mutant: a new key is made without looking for the one there is.
WithKeyNew(section, k) == [section EXCEPT !.keys = <<NewKey(k)>> \o @]

WithKey(section, k) ==
    IF HasKey(section, k) THEN section
                          ELSE [section EXCEPT !.keys = <<NewKey(k)>> \o @]

Set(ini, n, k, v) ==
    LET found == WithSection(ini, n)
        i     == FindSection(found, n)
        s     == WithKey(found.sections[i], k)
    IN  [found EXCEPT !.sections[i] = [s EXCEPT !.keys[FindKey(s, k)].value = v]]

(***************************************************************************)
(* What a caller can learn of a structure: its entries by section and key. *)
(***************************************************************************)
Names(ini) ==
    UNION {{<<ini.sections[i].name, ini.sections[i].keys[j].key>> :
              j \in DOMAIN ini.sections[i].keys} : i \in DOMAIN ini.sections}

Readable(ini) == {p \in Names(ini) : Has(ini, p[1], p[2])}

Lookups(ini) == [p \in Readable(ini) |-> Entry(ini, p[1], p[2])]

\* No section and no key of a section appears twice.
NoDuplicates(ini) ==
    /\ \A i, j \in DOMAIN ini.sections :
          ini.sections[i].name = ini.sections[j].name => i = j
    /\ \A i \in DOMAIN ini.sections :
          \A j, k \in DOMAIN ini.sections[i].keys :
             ini.sections[i].keys[j].key = ini.sections[i].keys[k].key => j = k
=============================================================================
