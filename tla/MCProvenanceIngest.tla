-------------------------- MODULE MCProvenanceIngest --------------------------
(* Instances of ProvenanceIngest for TLC. *)
EXTENDS ProvenanceIngest, TLC

CONSTANTS w1, w2, acme, beta, u1, u2, u3, q1, q2

\* one workspace; u1 may be sent again, u2 and u3 are other captures
OneSpace == {[ws |-> acme, uuid |-> u1, req |-> NoReq],
             [ws |-> acme, uuid |-> u2, req |-> NoReq],
             [ws |-> acme, uuid |-> u3, req |-> NoReq]}

\* three records of one workspace, one of them captured again under another request
\* uuid; one of their uuids and request uuids in another workspace
Mixed == {[ws |-> acme, uuid |-> u1, req |-> q1],
          [ws |-> acme, uuid |-> u2, req |-> q1],
          [ws |-> acme, uuid |-> u2, req |-> NoReq],
          [ws |-> acme, uuid |-> u3, req |-> NoReq],
          [ws |-> beta, uuid |-> u3, req |-> q1]}

NoImports  == {}
SmallImport == {[ws |-> beta, docs |-> <<u2>>]}
===============================================================================
