------------------------------- MODULE StreamCalls -------------------------------
(***************************************************************************)
(* Reassembly of tool calls from a streamed response by the four adapters  *)
(* of the proxy.  Events of several calls interleave; the stream may be cut *)
(* after any of them; a multi-byte character split between two chunks is   *)
(* decoded as replacement characters.  The text of an argument is the      *)
(* sequence of its parts.                                                  *)
(***************************************************************************)
EXTENDS Naturals, Sequences, Functions

CONSTANTS
  Indexes,  \* positions of calls in the response
  Tools,    \* tool of each position: "edit", "multi", "view" or "shell"
  Parts     \* fragments of the arguments of a call

VARIABLES
  adapter,   \* "anthropic", "codex", "chat" or "gemini"
  calls,     \* what the parser holds of a call
  stage,     \* what the upstream has sent of a call
  split,     \* calls of which a fragment lost a character
  ended,     \* "no", "whole" or "cut"
  captured   \* edits taken from the stream: position and new text

vars == <<adapter, calls, stage, split, ended, captured>>

Whole == [p \in 1..Parts |-> p]

\* part 0 is a part with replacement characters
Absent == [there |-> FALSE]
Fresh == [there |-> TRUE, parts |-> <<>>, final |-> <<>>]

Init == /\ adapter \in {"anthropic", "codex", "chat", "gemini"}
        /\ calls = [i \in Indexes |-> Absent]
        /\ stage = [i \in Indexes |-> 0]
        /\ split = {} /\ ended = "no" /\ captured = {}

\* a fragment as it is decoded
Decoded(p) == {p, 0}

\* mutant: the fragment goes to the call that started last
FragmentLast(i, p) ==
  LET k == CHOOSE j \in Indexes : calls[j].there /\ \A h \in Indexes : calls[h].there => h <= j
  IN calls' = [calls EXCEPT ![k].parts = Append(@, p)]

\* a fragment of arguments joins those of its index
Fragment(i, p) == calls' = [calls EXCEPT ![i].parts = Append(@, p)]

Lost(i, p) == split' = IF p = 0 THEN split \cup {i} ELSE split

\* content_block_start, output_item.added, or the first fragment of a chat call
Start(i) ==
  /\ ended = "no" /\ adapter # "gemini" /\ stage[i] = 0
  /\ \A j \in Indexes : j < i => stage[j] > 0
  /\ calls' = [calls EXCEPT ![i] = Fresh]
  /\ stage' = [stage EXCEPT ![i] = 1]
  /\ UNCHANGED <<adapter, split, ended, captured>>

\* stage n: n - 1 fragments were sent
Delta(i) ==
  /\ ended = "no" /\ stage[i] \in 1..Parts
  /\ \E p \in Decoded(stage[i]) : Fragment(i, p) /\ Lost(i, p)
  /\ stage' = [stage EXCEPT ![i] = @ + 1]
  /\ UNCHANGED <<adapter, ended, captured>>

\* content_block_stop: only now the fragments become the input
BlockStop(i) ==
  /\ ended = "no" /\ adapter = "anthropic" /\ stage[i] = Parts + 1
  /\ calls' = [calls EXCEPT ![i].final = calls[i].parts]
  /\ stage' = [stage EXCEPT ![i] = @ + 1]
  /\ UNCHANGED <<adapter, split, ended, captured>>

\* function_call_arguments.done or output_item.done repeat the arguments as a whole
ArgumentsDone(i) ==
  /\ ended = "no" /\ adapter = "codex" /\ stage[i] = Parts + 1
  /\ \E p \in Decoded(1) :
       calls' = [calls EXCEPT ![i].final = [Whole EXCEPT ![1] = p], ![i].parts = <<>>]
       /\ split' = IF p = 0 THEN split \cup {i} ELSE split \ {i}
  /\ stage' = [stage EXCEPT ![i] = @ + 1]
  /\ UNCHANGED <<adapter, ended, captured>>

\* a functionCall of Gemini arrives in one event
WholeCall(i) ==
  /\ ended = "no" /\ adapter = "gemini" /\ stage[i] = 0
  /\ \A j \in Indexes : j < i => stage[j] > 0
  /\ \E p \in Decoded(1) :
       /\ calls' = [calls EXCEPT ![i] = [Fresh EXCEPT !.final = [Whole EXCEPT ![1] = p]]]
       /\ Lost(i, p)
  /\ stage' = [stage EXCEPT ![i] = Parts + 2]
  /\ UNCHANGED <<adapter, ended, captured>>

\* the arguments at the end of the stream; Anthropic keeps {} for an unclosed block
Arguments(i) ==
  IF calls[i].final # <<>> \/ adapter \in {"anthropic", "gemini"} THEN calls[i].final
  ELSE calls[i].parts

\* text that is not complete does not parse
Parses(args) == Len(args) = Parts

\* _parse_anthropic_tool_use_to_edits: an empty input yields an edit without path and
\* text, also for "view", whose command is then missing; a cut MultiEdit has no edits
AnthropicEdits(i) ==
  LET input == IF Parses(Arguments(i)) THEN Arguments(i) ELSE <<>> IN
  CASE Tools[i] = "edit"  -> {input}
    [] Tools[i] = "multi" -> IF input = <<>> THEN {} ELSE {input}
    [] Tools[i] = "view"  -> IF input = <<>> THEN {input} ELSE {}
    [] Tools[i] = "shell" -> {}

\* apply_patch of Codex
CodexEdits(i) ==
  IF Tools[i] \in {"edit", "multi"} /\ Parses(Arguments(i)) THEN {Arguments(i)} ELSE {}

\* any chat tool whose arguments have the shape of an edit
ChatEdits(i) ==
  IF Tools[i] \in {"edit", "multi"} /\ Parses(Arguments(i)) THEN {Arguments(i)} ELSE {}

GeminiEdits(i) == IF Tools[i] \in {"edit", "multi"} THEN {Arguments(i)} ELSE {}

EditsOf(i) == CASE adapter = "anthropic" -> AnthropicEdits(i)
                [] adapter = "codex"     -> CodexEdits(i)
                [] adapter = "chat"      -> ChatEdits(i)
                [] adapter = "gemini"    -> GeminiEdits(i)

Capture == captured' = UNION {{[at |-> i, text |-> e] : e \in EditsOf(i)} :
                               i \in {j \in Indexes : calls[j].there}}

Complete(i) == stage[i] = IF adapter = "chat" THEN Parts + 1 ELSE Parts + 2

\* the upstream closes the stream
End == /\ ended = "no" /\ \A i \in Indexes : stage[i] = 0 \/ Complete(i)
       /\ ended' = "whole" /\ Capture
       /\ UNCHANGED <<adapter, calls, stage, split>>

\* the connection breaks; what was collected is parsed all the same
Cut == /\ ended = "no"
       /\ ended' = "cut" /\ Capture
       /\ UNCHANGED <<adapter, calls, stage, split>>

Next == \/ \E i \in Indexes : \/ Start(i) \/ Delta(i) \/ BlockStop(i)
                              \/ ArgumentsDone(i) \/ WholeCall(i)
        \/ End \/ Cut

Spec == Init /\ [][Next]_vars

-------------------------------------------------------------------------------
\* Type invariant.
TypeOK == /\ stage \in [Indexes -> 0..Parts + 2]
          /\ split \subseteq Indexes
          /\ \A i \in Indexes : calls[i].there =>
               calls[i].parts \in Seq(0..Parts) /\ calls[i].final \in Seq(0..Parts)
          /\ \A e \in captured : e.at \in Indexes

\* However the events interleave and wherever the stream is cut, no edit is captured
\* in part or with fragments of another call: its text is complete up to characters
\* split between chunks, or it is the empty edit of an Anthropic block that never
\* closed.  A stream that ended by itself yields every edit.
Faithful ==
  /\ \A e \in captured :
       \/ e.text = Whole
       \/ Len(e.text) = Parts /\ e.at \in split
       \/ e.text = <<>> /\ adapter = "anthropic" /\ ended = "cut" /\ ~Complete(e.at)
  /\ ended = "whole" => \A i \in Indexes : stage[i] > 0 /\ Tools[i] \in {"edit", "multi"} =>
                          \E e \in captured : e.at = i
===============================================================================
