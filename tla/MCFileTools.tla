---------------------------- MODULE MCFileTools -----------------------------
(* TLC instance of FileTools.                                               *)
EXTENDS FileTools, TLC

Sheets == {[kind |-> "sheet", used |-> u, print |-> p, match |-> m] :
             u \in {<<1, 4>>, <<2, 3>>}, p \in {<<>>, <<2, 4>>, <<3, 3>>}, m \in {{}, {2, 3}, {2, 3, 4}}}
Para(level, chars, match) == [level |-> level, chars |-> chars, match |-> match]
Paras == {Para(0, 0, FALSE), Para(0, 2, TRUE), Para(1, 1, FALSE), Para(2, 2, TRUE)}
Documents == {[kind |-> "document", paras |-> p, tables |-> t] :
                p \in BoundedSeq(Paras, 4), t \in {<<>>, <<FALSE, TRUE>>}}
Slides == {[title |-> TRUE, text |-> TRUE, notes |-> FALSE], [title |-> FALSE, text |-> FALSE, notes |-> TRUE],
           [title |-> FALSE, text |-> FALSE, notes |-> FALSE]}
Decks == {[kind |-> "slides", slides |-> s] : s \in BoundedSeq(Slides, 4)}
PdfFiles == {[kind |-> "pdf", total |-> n] : n \in {1, 3}}
AllFiles == Sheets \cup Documents \cup Decks \cup PdfFiles

\* Two of them have the same name in different directories.
ThreePdfs == {[stem |-> "a", pages |-> 3, dir |-> 1], [stem |-> "a", pages |-> 2, dir |-> 2],
              [stem |-> "b", pages |-> 2, dir |-> 1]}
=============================================================================
