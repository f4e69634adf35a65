-------------------------------- MODULE PatchText --------------------------------
(***************************************************************************)
(* Patches as text: a model writes the edits of one or two files, line by  *)
(* line, as an apply_patch blob or as a unified diff, and the parsers of   *)
(* the proxy read the lines.  A line of a file is plain, or it begins with *)
(* the two characters "--" or "++" of a comment or an operator, so that    *)
(* with its mark it looks like a header of a unified diff.                 *)
(***************************************************************************)
EXTENDS Naturals, Sequences, FiniteSets, Functions, Filters

CONSTANTS
  Files,     \* files
  Texts,     \* lines of files
  Alike,     \* those of the lines that begin like a header after their mark
  MaxLines   \* bound: lines in all

VARIABLES
  format,    \* "dsl" or "diff"
  written,   \* what the model wrote: file, verb, lines removed and added
  parser,    \* files done, the current one, and whether there is one
  also,      \* other formats that the same text matches
  edits,     \* edits taken from the text: by which parser, of which file
  done       \* the text is complete

vars == <<format, written, parser, also, edits, done>>

NoFile == [path |-> "", verb |-> "none", old |-> <<>>, new |-> <<>>]

Init == /\ format \in {"dsl", "diff"}
        /\ also \in SUBSET {"aider", "fence"}
        /\ written = <<>> /\ edits = <<>> /\ done = FALSE
        /\ parser = [files |-> <<>>, cur |-> NoFile]

Size(fs) == FoldFunction(LAMBDA f, n : n + Len(f.old) + Len(f.new), 0, fs)

\* a line with its mark; " " stands for context
Marked(f, mark, text) ==
  [f EXCEPT !.old = IF mark # "+" THEN Append(@, text) ELSE @,
            !.new = IF mark # "-" THEN Append(@, text) ELSE @]

\* _flush of the unified diff: a file without lines is dropped
FlushDiff(p) == [files |-> IF p.cur.old # <<>> \/ p.cur.new # <<>>
                           THEN Append(p.files, p.cur) ELSE p.files,
                 cur |-> NoFile]

\* _flush of the DSL: every file counts, also one that is only deleted
FlushDsl(p) == [files |-> IF p.cur # NoFile THEN Append(p.files, p.cur) ELSE p.files,
                cur |-> NoFile]

Flush(p) == IF format = "dsl" THEN FlushDsl(p) ELSE FlushDiff(p)

\* the headers of a file: "*** Update File:" and the like, or "---" and "+++"
Header(p, path, verb) == [Flush(p) EXCEPT !.cur = [NoFile EXCEPT !.path = path, !.verb = verb]]

\* the body of a file in the DSL
DslLine(p, mark, text) == [p EXCEPT !.cur = Marked(@, mark, text)]

\* the body of a file in a unified diff: a removed line that begins with "-- " is read as
\* the header of the next file, an added one that begins with "++ " renames the file
DiffLine(p, mark, text) ==
  IF text \in Alike /\ mark = "-" THEN Header(p, text, "update")
  ELSE IF text \in Alike /\ mark = "+" THEN [p EXCEPT !.cur.path = text]
  ELSE [p EXCEPT !.cur = Marked(@, mark, text)]

BodyLine(p, mark, text) == IF format = "dsl" THEN DslLine(p, mark, text)
                           ELSE DiffLine(p, mark, text)

\* the model starts the next file
WriteHeader(path, verb) ==
  /\ ~done /\ Len(written) < Cardinality(Files)
  /\ \A i \in DOMAIN written : written[i].path # path
  /\ format = "diff" => verb = "update"
  /\ written' = Append(written, [NoFile EXCEPT !.path = path, !.verb = verb])
  /\ parser' = Header(parser, path, verb)
  /\ UNCHANGED <<format, also, edits, done>>

\* the model writes a line of the file
WriteLine(mark, text) ==
  /\ ~done /\ written # <<>> /\ Size(written) < MaxLines
  /\ written[Len(written)].verb # "delete"
  /\ written' = [written EXCEPT ![Len(written)] = Marked(@, mark, text)]
  /\ parser' = BodyLine(parser, mark, text)
  /\ UNCHANGED <<format, also, edits, done>>

By(name, files) == [i \in DOMAIN files |-> [by |-> name, file |-> files[i]]]

\* _parse_text_content_to_edits: a format is tried when those before it found nothing
TextEdits(files) ==
  CASE format = "dsl" /\ files # <<>> -> By("dsl", files)
    [] (format = "diff" \/ files = <<>>) /\ "aider" \in also ->
         <<[by |-> "aider", file |-> NoFile]>>
    [] format = "diff" /\ files # <<>> /\ "aider" \notin also -> By("diff", files)
    [] files = <<>> /\ also = {"fence"} -> <<[by |-> "fence", file |-> NoFile]>>
    [] files = <<>> /\ also = {} -> <<>>

\* the text is complete
Finish == /\ ~done /\ done' = TRUE
          /\ parser' = Flush(parser)
          /\ edits' = TextEdits(parser'.files)
          /\ UNCHANGED <<format, written, also>>

Next == \/ \E path \in Files, verb \in {"add", "update", "delete"} : WriteHeader(path, verb)
        \/ \E mark \in {"+", "-", " "}, text \in Texts : WriteLine(mark, text)
        \/ Finish

Spec == Init /\ [][Next]_vars

-------------------------------------------------------------------------------
\* A unified diff with a line which looks like a header.
Misread == format = "diff" /\ \E i \in DOMAIN written :
             \E t \in Alike : t \in Range(written[i].old) \cup Range(written[i].new)

\* a diff knows no file without lines
Expected == IF format = "dsl" THEN written
            ELSE Kept(written, {f \in Range(written) : f.old # <<>> \/ f.new # <<>>})

\* Type invariant.
TypeOK == /\ \A i \in DOMAIN written : written[i].path \in Files
          /\ Size(parser.files) <= MaxLines + MaxLines
          /\ Len(edits) <= Cardinality(Files) + MaxLines

\* Every file of a patch is read back with the lines the model wrote, and its edits are
\* taken by one parser only, whatever else the text looks like; a unified diff with
\* lines that look like headers is read otherwise.
RoundTrip ==
  /\ \A i, j \in DOMAIN edits : edits[i].by = edits[j].by
  /\ done /\ ~Misread /\ Expected # <<>> /\ (format = "diff" => "aider" \notin also) =>
       [i \in DOMAIN edits |-> edits[i].file] = Expected
===============================================================================
