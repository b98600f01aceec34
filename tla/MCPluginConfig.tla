--------------------------- MODULE MCPluginConfig ---------------------------
(* Small instances of PluginConfig for TLC.                                *)
EXTENDS PluginConfig

\* A section for all and one for a title: an empty line, which is kept as a
\* comment, a note behind a value, and a plugin on by a word.
OneTitle ==
    << SectionLine("all"), Blank, KeyLine("p", "1", "note"), KeyLine("q", "0", ""),
       SectionLine("CUSA1x"), KeyLine("p", "y", "") >>

\* Another title's section, after a line that the parser skips.
OtherTitle == << Junk, SectionLine("CUSA2"), KeyLine("p", "1", "") >>

OneFile  == {OneTitle}
TwoFiles == {OneTitle, OtherTitle}

\* What is read of a file whose sections a save has swapped: "[all]" or "[al" of
\* the old text, and behind it "x]" or "SA1x]" of the new text's first header.
Mixtures ==
    { <<SectionLine("all"), Junk, KeyLine("p", "y", "")>>,
      <<SectionLine("alSA1x"), KeyLine("p", "y", "")>> }

\* What these files and the page write; a value and the note may be cut to "".
Words == {"", "0", "1", "y", "all", "CUSA1", "CUSA1x", "CUSA2", "alSA1x", "p", "q", "note"}

Starts == {<<u, t>> \in Words \X Words : Len(u) <= Len(t) /\ u = SubSeq(t, 1, Len(u))}
=============================================================================
