---------------------------- MODULE FileCapture -----------------------------
(* How the editor extension notices inserted code (capture.ts): the editor's    *)
(* change events and a watcher of the file system look at one file, and share  *)
(* a baseline of its text (_fileSnapshots).  A text is a sequence of blocks;   *)
(* a big block has minInsertionLines lines, a small one fewer.                 *)
EXTENDS Naturals, Sequences, FiniteSets, Functions

CONSTANTS
  MaxBlocks,  \* blocks that are inserted
  MaxReads    \* reads of the file that may overlap

VARIABLES
  doc,       \* the text in the editor
  dirty,     \* the editor has unsaved changes
  file,      \* the text on disk; <<>> also when the file does not exist
  exists,
  baseline,  \* the snapshot of the file: none or one text
  watching,  \* the activation scan is over and the watcher is set
  timer,     \* the 250 ms of schedule are running
  created,   \* _createdFiles has the file
  reads,     \* handlers waiting for their read: the text they will get
  scoring,   \* captures waiting for the clipboard, as sets of blocks
  captured,  \* blocks of the captures that were stored
  big,       \* the big blocks, of those inserted so far
  hidden,    \* big blocks of the disk that an editor baseline or a first look hid
  next

vars == <<doc, dirty, file, exists, baseline, watching, timer, created, reads, scoring,
          captured, big, hidden, next>>

Blocks == 1..MaxBlocks
Insert(t, at, b) == SubSeq(t, 1, at) \o <<b>> \o SubSeq(t, at + 1, Len(t))

Init == /\ exists \in BOOLEAN
        /\ doc = <<>> /\ dirty = FALSE /\ file = <<>> /\ baseline = <<>>
        /\ watching = FALSE /\ timer = FALSE /\ created = FALSE /\ reads = <<>>
        /\ scoring = {} /\ captured = {} /\ big = {} /\ hidden = {} /\ next = 1

(* insertedBlock: what is left between the common beginning and the common end *)
InsertedBlock(before, after) ==
  LET Begins == {n \in 0..Len(before) : n <= Len(after) /\ SubSeq(before, 1, n) = SubSeq(after, 1, n)}
      p == CHOOSE n \in Begins : \A m \in Begins : m <= n
      Ends == {n \in 0..(Len(before) - p) : /\ n <= Len(after) - p
                     /\ SubSeq(before, Len(before) - n + 1, Len(before)) = SubSeq(after, Len(after) - n + 1, Len(after))}
      s == CHOOSE n \in Ends : \A m \in Ends : m <= n
  IN  Range(SubSeq(after, p + 1, Len(after) - s))

(* minInsertionLines: a big block, or enough small ones *)
Enough(bs) == bs \cap big # {} \/ Cardinality(bs) >= 2

(* the activation reads the files it finds; an event may have come before *)
Scan ==
  /\ ~watching /\ watching' = TRUE
  /\ baseline' = IF baseline = <<>> /\ exists THEN <<file>> ELSE baseline
  /\ hidden' = hidden \cup (Range(file) \cap big)
  /\ UNCHANGED <<doc, dirty, file, exists, timer, created, reads, scoring, captured, big, next>>

Schedule(isNew) == /\ timer' = (timer \/ watching)
                   /\ created' = (created \/ (watching /\ isNew))

(* A change in the editor: a big one becomes a capture of its own and moves the
   baseline to the whole text of the editor, a small one is left to the watcher. *)
Type(isBig) ==
  /\ exists /\ next \in Blocks
  /\ \E at \in 0..Len(doc) : doc' = Insert(doc, at, next)
  /\ dirty' = TRUE /\ next' = next + 1
  /\ IF isBig
     THEN /\ big' = big \cup {next} /\ baseline' = <<doc'>> /\ scoring' = scoring \cup {{next}}
          /\ hidden' = hidden \cup (Range(doc) \cap big)
     ELSE UNCHANGED <<big, baseline, scoring, hidden>>
  /\ UNCHANGED <<file, exists, watching, timer, created, reads, captured>>

(* undo and redo are not looked at *)
Undo ==
  /\ doc # <<>>
  /\ \E k \in DOMAIN doc : doc' = SubSeq(doc, 1, k - 1) \o SubSeq(doc, k + 1, Len(doc))
  /\ dirty' = TRUE
  /\ UNCHANGED <<file, exists, baseline, watching, timer, created, reads, scoring, captured, big, hidden, next>>

Save ==
  /\ dirty /\ dirty' = FALSE
  /\ file' = doc /\ exists' = TRUE
  /\ Schedule(~exists)
  /\ UNCHANGED <<doc, baseline, watching, reads, scoring, captured, big, hidden, next>>

(* An agent writes the file.  An editor without changes of its own reloads it:
   the replacement of a whole document is left to the watcher. *)
Write ==
  /\ next \in Blocks
  /\ \E at \in 0..Len(file) : file' = Insert(file, at, next)
  /\ big' = big \cup {next} /\ next' = next + 1 /\ exists' = TRUE
  /\ doc' = IF dirty THEN doc ELSE file'
  /\ Schedule(~exists)
  /\ UNCHANGED <<dirty, baseline, watching, reads, scoring, captured, hidden>>

Delete ==
  /\ exists /\ exists' = FALSE /\ file' = <<>>
  /\ doc' = IF dirty THEN doc ELSE <<>>
  /\ IF watching THEN timer' = FALSE /\ created' = FALSE /\ baseline' = <<>>
                 ELSE UNCHANGED <<timer, created, baseline>>
  /\ UNCHANGED <<dirty, watching, reads, scoring, captured, big, hidden, next>>

(* the timer: the handler starts to read *)
Look ==
  /\ timer /\ timer' = FALSE /\ created' = FALSE /\ Len(reads) < MaxReads
  /\ reads' = IF exists THEN Append(reads, [text |-> file, created |-> created]) ELSE reads
  /\ UNCHANGED <<doc, dirty, file, exists, baseline, watching, scoring, captured, big, hidden, next>>

(* handleFilesystemChange after its read *)
Handled(k, seen) ==
  LET r == reads[k]
      prev == IF baseline = <<>> THEN <<>> ELSE baseline[1]
      block == InsertedBlock(prev, r.text)
      trusted == baseline # <<>> \/ r.created
  IN  /\ reads' = SubSeq(reads, 1, k - 1) \o SubSeq(reads, k + 1, Len(reads))
      /\ baseline' = <<r.text>>
      /\ scoring' = IF seen /\ trusted /\ Enough(block) THEN scoring \cup {block} ELSE scoring
      /\ hidden' = IF trusted THEN hidden ELSE hidden \cup (Range(r.text) \cap big)
      /\ UNCHANGED <<doc, dirty, file, exists, watching, timer, created, captured, big, next>>
(* a change that arrives while another one is read is taken for seen *)
CompareOnce(k) == k \in DOMAIN reads /\ Handled(k, ~timer)
Compare(k) == k \in DOMAIN reads /\ Handled(k, TRUE)

(* the clipboard was read: the capture is stored, as a paste or as an insertion *)
Store ==
  \E bs \in scoring :
    /\ scoring' = scoring \ {bs} /\ captured' = captured \cup bs
    /\ UNCHANGED <<doc, dirty, file, exists, baseline, watching, timer, created, reads, big, hidden, next>>

Next == \/ Scan \/ Type(TRUE) \/ Type(FALSE) \/ Undo \/ Save \/ Write \/ Delete \/ Look \/ Store
        \/ \E k \in 1..MaxReads : Compare(k)

Spec == Init /\ [][Next]_vars

-----------------------------------------------------------------------------
TypeOK == /\ Range(doc) \cup Range(file) \subseteq Blocks
          /\ dirty \in BOOLEAN /\ exists \in BOOLEAN /\ Len(baseline) <= 1 /\ Len(reads) <= MaxReads
          /\ (UNION scoring) \cup captured \cup big \cup hidden \subseteq Blocks

\* Once nothing is pending, every big block that is on disk was captured, unless
\* a baseline already had it when the watcher could first have seen it: in the
\* activation scan, in a file that was not known, or in the text of an editor
\* that reloaded the file before the watcher looked (capture.ts 390-401).
Complete == (watching /\ ~timer /\ reads = <<>> /\ scoring = {}) => Range(file) \cap big \subseteq captured \cup hidden
=============================================================================
