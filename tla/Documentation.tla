---------------------------- MODULE Documentation ----------------------------
(***************************************************************************)
(* The documentation page (views/DocumentationView.tsx): an index that is   *)
(* searched, a document chosen from it, and the Markdown reader, which      *)
(* takes the lines of a document block by block.                           *)
(***************************************************************************)
EXTENDS Naturals, Sequences, FiniteSets

CONSTANTS
  Index,         \* search -> the documents found, as a sequence
  MaxLines,      \* lines of a document, at most
  MaxDocCalls,   \* requests under way, at most
  NoDoc

ASSUME DocumentationAssumption ==
  /\ MaxLines \in Nat /\ MaxDocCalls \in Nat \ {0}
  /\ "" \in DOMAIN Index /\ Index[""] # <<>>

VARIABLES
  docs,      \* [q, items, doc, loading, error]
  docCalls,  \* requests: [id, kind, of, live, slug]
  reading    \* [lines, index, blocks]: the reader at its next line

docsVars == <<docs, docCalls, reading>>

\* A line by what it starts with, and whether it has a bar in it.
Line == {"blank", "fence", "heading", "bullet", "barred bullet", "number", "text", "bar", "separator"}

Barred(line) == line \in {"bar", "barred bullet", "separator"}

Bullet(line) == line \in {"bullet", "barred bullet"}

DocCall(calls, kind, of, slug) ==
  calls \cup {[kind |-> kind, of |-> of, slug |-> slug, live |-> TRUE,
               id |-> CHOOSE i \in 1 .. MaxDocCalls : \A c \in calls : c.id # i]}

\* The page opens; or it shows a document, with any lines, and is left alone:
\* a render reads the whole of it at once.
DocsInit ==
  \/ /\ docs = [q |-> "", items |-> <<>>, doc |-> NoDoc, loading |-> TRUE, error |-> FALSE]
     /\ docCalls = DocCall({}, "list", "", NoDoc)
     /\ reading = [lines |-> <<>>, index |-> 1, blocks |-> <<>>]
  \/ /\ docs = [q |-> "", items |-> Index[""], doc |-> Index[""][1], loading |-> FALSE, error |-> FALSE]
     /\ docCalls = {}
     /\ \E n \in 1 .. MaxLines : \E lines \in [1 .. n -> Line] :
          reading = [lines |-> lines, index |-> 1, blocks |-> <<>>]
-----------------------------------------------------------------------------
(* The index and the document. *)

\* The effect on the search, and the clean-up of its last run.
SearchDocs ==
  /\ Cardinality(docCalls) < MaxDocCalls
  /\ \E q \in DOMAIN Index \ {docs.q} :
       /\ docs' = [docs EXCEPT !.q = q, !.loading = TRUE, !.error = FALSE]
       /\ docCalls' = DocCall({IF c.kind = "selected" THEN c ELSE [c EXCEPT !.live = FALSE] : c \in docCalls},
                              "list", q, docs.doc)
  /\ UNCHANGED reading

\* The document shown when the search was typed stays if it is found, else the
\* first one is asked for; with none found the page is done.
IndexAnswered ==
  /\ \E c \in docCalls :
       /\ c.kind = "list"
       /\ LET items == Index[c.of]
              slug == IF \E i \in DOMAIN items : items[i] = c.slug THEN c.slug ELSE items[1]
          IN IF ~c.live THEN docCalls' = docCalls \ {c} /\ UNCHANGED docs
             ELSE IF items = <<>>
             THEN /\ docCalls' = docCalls \ {c}
                  /\ docs' = [docs EXCEPT !.items = items, !.doc = NoDoc, !.loading = FALSE]
             ELSE /\ docCalls' = DocCall(docCalls \ {c}, "first", c.of, slug)
                  /\ docs' = [docs EXCEPT !.items = items]
  /\ UNCHANGED reading

\* selectDoc: nothing tells an older answer from a newer one.
SelectDoc ==
  /\ Cardinality(docCalls) < MaxDocCalls
  /\ \E i \in DOMAIN docs.items : docCalls' = DocCall(docCalls, "selected", docs.q, docs.items[i])
  /\ docs' = [docs EXCEPT !.error = FALSE]
  /\ UNCHANGED reading

\* A document is shown, whose lines are any.
DocAnswered ==
  /\ \E c \in docCalls :
       /\ c.kind # "list"
       /\ docCalls' = docCalls \ {c}
       /\ docs' = IF ~c.live THEN docs
                  ELSE [docs EXCEPT !.doc = c.slug, !.loading = @ /\ c.kind # "first"]
  /\ UNCHANGED reading

DocFails ==
  /\ \E c \in docCalls :
       /\ docCalls' = docCalls \ {c}
       /\ docs' = IF ~c.live THEN docs
                  ELSE [docs EXCEPT !.error = TRUE, !.loading = @ /\ c.kind = "selected"]
  /\ UNCHANGED reading
-----------------------------------------------------------------------------
(* The reader. *)

LineAt(i) == reading.lines[i]

\* The first line from i on that is not of a kind, or the end.
Beyond(i, kinds) ==
  CHOOSE j \in i .. Len(reading.lines) + 1 :
    /\ \A k \in i .. j - 1 : LineAt(k) \in kinds
    /\ j = Len(reading.lines) + 1 \/ LineAt(j) \notin kinds

\* A block of some lines, with which the reader goes on at a line.
Block(kind, of, next) ==
  reading' = [reading EXCEPT !.blocks = Append(@, [kind |-> kind, of |-> of]), !.index = next]

ReadCode ==
  LET from == reading.index + 1
      close == Beyond(from, Line \ {"fence"})
  IN LineAt(reading.index) = "fence" /\ Block("code", from .. close - 1, close + 1)

IsTable ==
  /\ Barred(LineAt(reading.index))
  /\ reading.index < Len(reading.lines)
  /\ LineAt(reading.index + 1) = "separator"

\* As a bug would have it: after a table the reader steps on by one more line.
ReadTableTooFar ==
  LET end == Beyond(reading.index + 2, {l \in Line : Barred(l)})
  IN IsTable /\ Block("table", {reading.index} \cup (reading.index + 2 .. end - 1), end + 1)

\* The header, then the rows below the separator.
ReadTable ==
  LET end == Beyond(reading.index + 2, {l \in Line : Barred(l)})
  IN IsTable /\ Block("table", {reading.index} \cup (reading.index + 2 .. end - 1), end)

ReadList ==
  /\ ~IsTable
  /\ \E kinds \in {{l \in Line : Bullet(l)}, {"number"}} :
       /\ LineAt(reading.index) \in kinds
       /\ LET end == Beyond(reading.index, kinds) IN Block("list", reading.index .. end - 1, end)

ReadLine ==
  /\ ~IsTable
  /\ LineAt(reading.index) \in {"heading", "text", "bar", "separator"}
  /\ Block(IF LineAt(reading.index) = "heading" THEN "heading" ELSE "paragraph",
           {reading.index}, reading.index + 1)

SkipBlank == LineAt(reading.index) = "blank" /\ reading' = [reading EXCEPT !.index = @ + 1]

\* One turn of the loop of Markdown.
ReadBlock ==
  /\ reading.index <= Len(reading.lines)
  /\ ReadCode \/ ReadTable \/ ReadList \/ ReadLine \/ SkipBlank
  /\ UNCHANGED <<docs, docCalls>>

DocsNext ==
  \/ ReadBlock
  \/ reading.lines = <<>> /\ (SearchDocs \/ IndexAnswered \/ SelectDoc \/ DocAnswered \/ DocFails)
-----------------------------------------------------------------------------
DocsTypeOK ==
  /\ docs.q \in DOMAIN Index
  /\ Cardinality(docCalls) <= MaxDocCalls
  /\ Len(reading.lines) <= MaxLines

\* Whatever blocks follow each other, closed or not, each line that has been
\* read is in one block, except blank lines, fences and separators, which are
\* in at most one; and no line is in two.
NoLineIsLost ==
  \A i \in 1 .. Len(reading.lines) :
    LET in == {b \in DOMAIN reading.blocks : i \in reading.blocks[b].of}
    IN /\ Cardinality(in) <= 1
       /\ i < reading.index /\ LineAt(i) \notin {"blank", "fence", "separator"} => in # {}
=============================================================================
