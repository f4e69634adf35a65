--------------------------------- MODULE Gateway ---------------------------------
(***************************************************************************)
(* One client connection of the proxy and the requests on it, one after the *)
(* other: plain HTTP, a CONNECT tunnel relayed as it is, or a CONNECT      *)
(* tunnel whose TLS the proxy ends.  A request is read, its provider is    *)
(* detected, results in it are resolved, its model may be routed, it is    *)
(* forwarded, and the answer is relayed and captured.                      *)
(***************************************************************************)
EXTENDS Naturals, Sequences, FiniteSets

CONSTANTS
  Own,          \* providers with an upstream of their own
  Generic,      \* provider of the host of UPSTREAM_URL, or "unknown"
  MaxChunks,    \* bound: chunks of a streamed answer
  Collectable,  \* chunks that fit into MAX_BODY_BYTES
  MaxRequests   \* bound: requests of a connection

VARIABLES
  link,      \* "new", "plain", "relay", "mitm" or "closed"
  step,      \* where the handler is
  req,       \* the request: path, header, body and whether it streams
  got,       \* provider and routing found for it
  upstream,  \* the answer: chunks sent, status, and how it ended
  client,    \* what the client has: "nothing", "head", "whole", "error"
  taken,     \* chunks collected for the capture
  captures,  \* captures of the answer
  pipes,     \* directions of a relayed tunnel that still copy
  served     \* requests of the connection so far

vars == <<link, step, req, got, upstream, client, taken, captures, pipes, served>>

Providers == {"anthropic", "openai", "gemini"}
Paths == {"messages", "chat", "responses", "gemini", "other"}
NoRequest == [path |-> "other", header |-> "none", body |-> "none", streams |-> FALSE]
NoAnswer == [sent |-> 0, ok |-> TRUE, end |-> "none"]

Init == /\ link = "new" /\ step = "idle" /\ served = 0
        /\ req = NoRequest /\ got = [provider |-> "unknown", routed |-> FALSE, edits |-> FALSE]
        /\ upstream = NoAnswer /\ client = "nothing"
        /\ taken = 0 /\ captures = <<>> /\ pipes = {}

-------------------------------------------------------------------------------
\* detect_provider_from_inbound: headers first, then the path
FromInbound(r) ==
  CASE r.header = "anthropic-version" -> "anthropic"
    [] r.header # "anthropic-version" /\ r.path = "gemini" -> "gemini"
    [] r.header # "anthropic-version" /\ r.path \in {"chat", "responses"} -> "openai"
    [] r.header # "anthropic-version" /\ r.path = "messages" -> "anthropic"
    [] r.header = "google" /\ r.path = "other" -> "gemini"
    [] r.header = "none" /\ r.path = "other" -> "unknown"

\* _build_upstream_url_for_provider: whose host the request goes to
HostOf(provider) == IF provider \in Own THEN provider ELSE Generic

\* proxy_request: a path that says nothing is given to the provider of UPSTREAM_URL
ProviderOf(r) == IF FromInbound(r) # "unknown" THEN FromInbound(r)
                 ELSE HostOf("unknown")

\* the adapter that reads the answer; none without a JSON object in the request
Adapter(r, provider) ==
  IF r.body # "object" THEN "none"
  ELSE CASE provider = "anthropic" -> "anthropic"
         [] provider = "gemini" -> "gemini"
         [] provider = "openai" /\ r.path = "responses" -> "codex"
         [] provider = "openai" /\ r.path = "chat" -> "chat"
         [] provider = "openai" /\ r.path \notin {"responses", "chat"} -> "none"

Requests == [path : Paths, header : {"none", "google", "anthropic-version"},
             body : {"none", "text", "object"}, streams : BOOLEAN]

Hangup(reply) == /\ link' = "closed" /\ step' = "idle" /\ client' = reply

-------------------------------------------------------------------------------
\* a connection to the HTTP port
Accept == /\ link = "new" /\ link' = "plain"
          /\ UNCHANGED <<step, req, got, upstream, client, taken, captures, pipes, served>>

\* a connection to the CONNECT port: refused or unreachable, ended here when the proxy
\* has a CA, or relayed
Connect ==
  /\ link = "new"
  /\ \/ Hangup("error") /\ UNCHANGED pipes
     \/ link' = "mitm" /\ UNCHANGED <<step, client, pipes>>
     \/ /\ link' = "relay" /\ pipes' = {"up", "down"}
        /\ client' = "head" /\ step' = step
  /\ UNCHANGED <<req, got, upstream, taken, captures, served>>

\* _pipe: at the end of one direction the writer of the other side is closed, which
\* ends the other direction when it reads next; the handler waits for both
PipeEnds(d) ==
  /\ link = "relay" /\ d \in pipes
  /\ pipes' = pipes \ {d}
  /\ link' = IF pipes' = {} THEN "closed" ELSE link
  /\ UNCHANGED <<step, req, got, upstream, client, taken, captures, served>>

\* the request is complete, or refused for its size or its form; an intercepted
\* connection ends with the refusal
Read ==
  /\ link \in {"plain", "mitm"} /\ step = "idle" /\ served < MaxRequests
  /\ served' = served + 1 /\ upstream' = NoAnswer /\ taken' = 0 /\ captures' = <<>>
  /\ \/ \E r \in Requests : /\ r.streams => r.body = "object" \/ r.path = "gemini"
                            /\ req' = r /\ step' = "read" /\ client' = "nothing"
                            /\ link' = link
     \/ /\ link = "plain" /\ client' = "error" /\ UNCHANGED <<link, step, req>>
     \/ /\ link = "mitm" /\ Hangup("error") /\ req' = req
  /\ UNCHANGED <<got, pipes>>

\* provider unknown: 400, nothing is forwarded
Refuse ==
  /\ step = "read" /\ ProviderOf(req) = "unknown"
  /\ step' = "idle" /\ client' = "error"
  /\ UNCHANGED <<link, req, got, upstream, taken, captures, pipes, served>>

\* an adapter that fails is ignored, and so is routing
Prepare ==
  /\ step = "read" /\ ProviderOf(req) # "unknown"
  /\ \E routed \in {FALSE} \cup {req.body = "object"}, edits \in BOOLEAN :
       got' = [provider |-> ProviderOf(req), routed |-> routed,
               edits |-> edits /\ Adapter(req, ProviderOf(req)) # "none"]
  /\ step' = "forward"
  /\ UNCHANGED <<link, req, upstream, client, taken, captures, pipes, served>>

\* no connection to the upstream: 502
Unreachable ==
  /\ step = "forward"
  /\ step' = "idle" /\ client' = "error"
  /\ UNCHANGED <<link, req, got, upstream, taken, captures, pipes, served>>

\* the upstream begins to answer; a streamed answer has its head relayed at once
Answered ==
  /\ step = "forward"
  /\ \E ok \in BOOLEAN : upstream' = [NoAnswer EXCEPT !.ok = ok]
  /\ step' = "relay"
  /\ client' = IF req.streams THEN "head" ELSE client
  /\ UNCHANGED <<link, req, got, taken, captures, pipes, served>>

\* a chunk is collected while it fits, and passed on
Chunk ==
  /\ step = "relay" /\ upstream.end = "none" /\ upstream.sent < MaxChunks
  /\ upstream' = [upstream EXCEPT !.sent = @ + 1]
  /\ taken' = IF taken = upstream.sent /\ taken < Collectable THEN taken + 1 ELSE taken
  /\ UNCHANGED <<link, step, req, got, client, captures, pipes, served>>

UpstreamEnds ==
  /\ step = "relay" /\ upstream.end = "none"
  /\ \E how \in {"done", "broken"} : upstream' = [upstream EXCEPT !.end = how]
  /\ step' = "capture"
  /\ UNCHANGED <<link, req, got, client, taken, captures, pipes, served>>

\* the client hangs up while chunks flow: the generator is closed
ClientGone ==
  /\ step = "relay" /\ req.streams
  /\ upstream' = [upstream EXCEPT !.end = "broken"]
  /\ step' = "capture"
  /\ UNCHANGED <<link, req, got, client, taken, captures, pipes, served>>

\* edits where the adapter found some, else the text of the answer; an answer that
\* failed or overflowed is not captured, a broken one only when it was streamed
Captured == IF ~upstream.ok \/ taken < upstream.sent
               \/ (upstream.end = "broken" /\ ~req.streams) THEN <<>>
            ELSE IF got.edits THEN <<"edits">> ELSE <<"text">>

\* mutant: the answer is ended as if the upstream had finished
FinishTerminates ==
  /\ step = "capture"
  /\ captures' = captures \o Captured
  /\ step' = "idle"
  /\ client' = IF upstream.end = "done" \/ req.streams THEN "whole" ELSE "error"
  /\ link' = link
  /\ UNCHANGED <<req, got, upstream, taken, pipes, served>>

\* the capture, and with it the end of the answer: the last chunk follows only when the
\* generator ended by itself, else the connection is dropped; an answer that was to be
\* relayed whole becomes 502
Finish ==
  /\ step = "capture"
  /\ captures' = captures \o Captured
  /\ step' = "idle"
  /\ client' = IF upstream.end = "done" THEN "whole" ELSE IF req.streams THEN client ELSE "error"
  /\ link' = IF upstream.end = "broken" /\ req.streams THEN "closed" ELSE link
  /\ UNCHANGED <<req, got, upstream, taken, pipes, served>>

\* the capture raises: a streamed answer stays without its end, a whole one was not
\* sent yet and is lost with it
CaptureFails ==
  /\ step = "capture" /\ upstream.ok
  /\ step' = "idle"
  /\ client' = IF req.streams THEN client ELSE "error"
  /\ link' = IF req.streams \/ link = "mitm" THEN "closed" ELSE link
  /\ UNCHANGED <<req, got, upstream, taken, captures, pipes, served>>

Leave == /\ link \in {"plain", "mitm"} /\ step = "idle" /\ link' = "closed"
         /\ UNCHANGED <<step, req, got, upstream, client, taken, captures, pipes, served>>

Next == \/ Accept \/ Connect \/ Read \/ Refuse \/ Prepare \/ Unreachable \/ Answered
        \/ Chunk \/ UpstreamEnds \/ ClientGone \/ Finish \/ CaptureFails \/ Leave
        \/ \E d \in {"up", "down"} : PipeEnds(d)

Spec == Init /\ [][Next]_vars

-------------------------------------------------------------------------------
\* Type invariant.
TypeOK == /\ link \in {"new", "plain", "relay", "mitm", "closed"}
          /\ req \in Requests /\ got.provider \in Providers \cup {"unknown"}
          /\ taken \in 0..Collectable /\ Len(captures) <= 1
          /\ client \in {"nothing", "head", "whole", "error"}

\* The client sees an answer end only where the upstream ended it, and an answer that
\* reached its client, did not fail and fits was captured exactly once, as a whole.
HonestRelay ==
  /\ client = "whole" => upstream.end = "done"
  /\ captures # <<>> => upstream.ok /\ taken = upstream.sent
  /\ client = "whole" /\ upstream.ok /\ upstream.sent <= Collectable => Len(captures) = 1
===============================================================================
