---------------------------- MODULE MCInsertion_proofs ----------------------------
(* Proofs about the stations of an insertion, for every number of requests,     *)
(* reads, records and tokens.                                                   *)
EXTENDS MCInsertion, FiniteSetTheorems, SequenceFacts, TLAPS

-------------------------------------------------------------------------------
(* The gateway.  While a request is served nothing is captured and the client   *)
(* has no whole answer; what is taken of an answer is what fits.                *)

Answers == [sent : Nat, ok : BOOLEAN, end : {"none", "done", "broken"}]

GatewayTyped ==
  /\ gwupstream \in Answers /\ gwtaken \in Nat
  /\ gwstep \in {"idle", "read", "forward", "relay", "capture"}
  /\ gwcaptures \in {<<>>, <<"edits">>, <<"text">>}

\* as much of the answer was taken as fits
TakenFits == gwtaken <= gwupstream.sent /\ (gwtaken < gwupstream.sent => gwtaken >= Collectable)

Serving == gwstep # "idle" => gwcaptures = <<>> /\ gwclient # "whole"

\* the upstream has ended when its answer is captured, and not before
EndSeen ==
  /\ gwstep \in {"read", "forward"} => gwupstream = Gateway!NoAnswer /\ gwtaken = 0
  /\ gwstep = "capture" => gwupstream.end # "none"

GatewayInv == GatewayTyped /\ TakenFits /\ Serving /\ EndSeen /\ GatewayHonestRelay

LEMMA GatewayInit == Gateway!Init => GatewayInv
  BY CollectableAssumption
     DEF Gateway!Init, Gateway!NoAnswer, GatewayInv, GatewayTyped, Answers, TakenFits, Serving, EndSeen,
         GatewayHonestRelay, Gateway!HonestRelay

LEMMA GatewayStep == GatewayInv /\ [Gateway!Next]_gwVars => GatewayInv'
<1> SUFFICES ASSUME GatewayInv, [Gateway!Next]_gwVars PROVE GatewayInv'
  OBVIOUS
<1> USE DEF GatewayInv, GatewayTyped, Answers, TakenFits, Serving, EndSeen, GatewayHonestRelay,
            Gateway!HonestRelay
<1>1. CASE Gateway!Accept
  BY <1>1 DEF Gateway!Accept
<1>2. CASE Gateway!Connect
  BY <1>2 DEF Gateway!Connect, Gateway!Hangup
<1>3. CASE Gateway!Read
  BY <1>3 DEF Gateway!Read, Gateway!Hangup, Gateway!NoAnswer
<1>4. CASE Gateway!Refuse
  BY <1>4 DEF Gateway!Refuse
<1>5. CASE Gateway!Prepare
  BY <1>5 DEF Gateway!Prepare
<1>6. CASE Gateway!Unreachable
  BY <1>6 DEF Gateway!Unreachable
<1>7. CASE Gateway!Answered
  BY <1>7 DEF Gateway!Answered, Gateway!NoAnswer
<1>8. CASE Gateway!Chunk
  BY <1>8, CollectableAssumption DEF Gateway!Chunk
<1>9. CASE Gateway!UpstreamEnds
  BY <1>9 DEF Gateway!UpstreamEnds
<1>10. CASE Gateway!ClientGone
  BY <1>10 DEF Gateway!ClientGone
<1>11. CASE Gateway!Finish
  BY <1>11, CollectableAssumption DEF Gateway!Finish, Gateway!Captured
<1>12. CASE Gateway!CaptureFails
  BY <1>12 DEF Gateway!CaptureFails
<1>13. CASE Gateway!Leave
  BY <1>13 DEF Gateway!Leave
<1>14. ASSUME NEW d \in {"up", "down"}, Gateway!PipeEnds(d) PROVE GatewayInv'
  BY <1>14 DEF Gateway!PipeEnds
<1>15. CASE UNCHANGED gwVars
  BY <1>15 DEF gwVars
<1> QED
  BY <1>1, <1>2, <1>3, <1>4, <1>5, <1>6, <1>7, <1>8, <1>9, <1>10, <1>11, <1>12, <1>13, <1>14, <1>15
     DEF Gateway!Next

LEMMA GatewayMoves == [Next]_vars => [Gateway!Next]_gwVars
  BY DEF Next, vars, StreamKeeps, PatchKeeps, StoreKeeps, FileKeeps, MatchKeeps, LegacyKeeps, AuthKeeps,
         ChannelKeeps, SerialKeeps

\* However the upstream, the client and the capture fail, a client sees an answer end only where the
\* upstream ended it, and an answer that reached it, did not fail and fits was captured once, whole.
THEOREM RelayIsHonest == Spec => []GatewayHonestRelay
<1>1. Init => GatewayInv
  BY GatewayInit DEF Init
<1>2. GatewayInv /\ [Next]_vars => GatewayInv'
  BY GatewayStep, GatewayMoves
<1>3. GatewayInv => GatewayHonestRelay
  BY DEF GatewayInv
<1> QED
  BY <1>1, <1>2, <1>3, PTL DEF Spec

-------------------------------------------------------------------------------
(* Tokens of the full extension.  While no answer was lost, nothing happened    *)
(* elsewhere and no login raced a refresh, the newest token is on its way to    *)
(* the secrets, or there.  While refreshes did not overlap either, one refresh  *)
(* at a time holds the token the backend expects.                               *)

Stages == {"idle", "reading", "posting", "answered", "storing", "refused", "clearing", "cleared"}

CallRecords == [stage : Stages, kind : {"none", "refresh", "login"}, holds : Nat, new : Nat]

\* the tokens of a call were issued, and it knows what it is about
Sound(r) == /\ r.holds <= auissued /\ r.new <= auissued
            /\ r.stage # "idle" => r.kind \in {"refresh", "login"}

AuthTyped ==
  /\ auissued \in Nat \ {0} /\ auserver \in 0..auissued /\ aurefresh \in 0..auissued
  /\ aucall \in [Calls -> CallRecords] /\ \A c \in Calls : Sound(aucall[c])
  /\ aucauses \subseteq {"overlap", "race", "lost", "elsewhere", "pasted"}

Carries(c) == aucall[c].stage \in {"answered", "storing"}
Using(c)   == aucall[c].stage \in {"posting", "answered", "storing"}

\* a token that is on its way is the newest, and nobody has it yet
OnItsWay(c) ==
  /\ aucall[c].new = auserver /\ aurefresh # auserver
  /\ \A d \in Calls \ {c} : ~Carries(d)
  /\ \A d \in Calls : aucall[d].stage = "posting" => aucall[d].holds # auserver

Calm == aucauses \cap {"lost", "elsewhere", "race"} = {} =>
          /\ auserver = auissued
          /\ \A c \in Calls : Carries(c) => OnItsWay(c)
          /\ (\A c \in Calls : ~Carries(c)) => aurefresh \in {0, auserver}

Single == aucauses \subseteq {"pasted"} => \A c \in Calls :
            /\ aucall[c].kind = "refresh" /\ Using(c) =>
                 /\ aurefresh \in {0, aucall[c].holds}
                 /\ \A d \in Calls \ {c} : ~Using(d)
            /\ aucall[c].stage = "posting" => aucall[c].holds = auserver

\* tokens are given up for a reason, by refreshes
Reasoned == \A c \in Calls :
  /\ aucall[c].stage \in {"reading", "posting", "refused", "clearing", "cleared"} => aucall[c].kind = "refresh"
  /\ aucall[c].stage \in {"refused", "clearing", "cleared"} => ~(aucauses \subseteq {"pasted"})

AuthInv == AuthTyped /\ Calm /\ Single /\ Reasoned

LEMMA AuthInit == Auth!Init => AuthInv
  BY DEF Auth!Init, Auth!Idle, AuthInv, AuthTyped, Stages, CallRecords, Sound, Calm, Single, Reasoned, Carries, Using

\* a call goes on to r, the others stay
LEMMA CallStep ==
  ASSUME AuthInv, NEW c \in Calls, NEW r, aucall' = [aucall EXCEPT ![c] = r]
  PROVE  aucall'[c] = r /\ \A d \in Calls : d # c => aucall'[d] = aucall[d]
  BY DEF AuthInv, AuthTyped

LEMMA TypedStep ==
  ASSUME AuthInv, NEW c \in Calls, NEW r \in CallRecords, aucall' = [aucall EXCEPT ![c] = r], Sound(r)',
         auissued' \in Nat, auissued <= auissued', auserver' \in 0..auissued', aurefresh' \in 0..auissued',
         aucauses' \subseteq {"overlap", "race", "lost", "elsewhere", "pasted"}
  PROVE  AuthTyped'
<1>1. aucall' \in [Calls -> CallRecords]
  BY DEF AuthInv, AuthTyped
<1>2. ASSUME NEW d \in Calls PROVE Sound(aucall[d])'
  <2>1. CASE d = c
    BY <2>1, CallStep, Zenon
  <2>2. CASE d # c
    <3>1. aucall'[d] = aucall[d] /\ aucall[d] \in CallRecords /\ Sound(aucall[d]) /\ auissued \in Nat
      BY <2>2, CallStep DEF AuthInv, AuthTyped
    <3> QED
      BY <3>1 DEF Sound, CallRecords
  <2> QED
    BY <2>1, <2>2
<1>3. auissued' # 0
  BY DEF AuthInv, AuthTyped
<1> QED
  BY <1>1, <1>2, <1>3 DEF AuthTyped

LEMMA AuthStep == AuthInv /\ [Auth!Next]_auVars => AuthInv'
<1> SUFFICES ASSUME AuthInv, [Auth!Next]_auVars PROVE AuthInv'
  OBVIOUS
<1>1. ASSUME NEW c \in Calls, Auth!Ensure(c) PROVE AuthInv'
  <2>1. UNCHANGED <<auserver, auissued, aurefresh, aucauses>> /\ aucall[c].stage = "idle"
    BY <1>1 DEF Auth!Ensure, Auth!Active
  <2>2. CASE UNCHANGED aucall
    BY <2>1, <2>2 DEF AuthInv, AuthTyped, Sound, Calm, Single, Reasoned, Carries, Using, OnItsWay
  <2>3. CASE ~UNCHANGED aucall
    <3>1. PICK r : /\ r = [stage |-> "reading", kind |-> "refresh", holds |-> 0, new |-> 0]
                   /\ aucall' = [aucall EXCEPT ![c] = r]
      BY <1>1, <2>3, Zenon DEF Auth!Ensure, Auth!Idle
    <3>2. aucall'[c] = r /\ \A d \in Calls : d # c => aucall'[d] = aucall[d]
      BY <3>1, CallStep, Zenon
    <3>3. AuthTyped'
      BY <2>1, <3>1, <3>2 DEF AuthInv, AuthTyped, Stages, CallRecords, Sound, CallRecords, Sound
    <3>4. /\ Calm' /\ Single' /\ Reasoned'
      BY <2>1, <3>1, <3>2 DEF AuthInv, Calm, Single, Reasoned, Carries, Using, OnItsWay
    <3> QED
      BY <3>3, <3>4 DEF AuthInv
  <2> QED
    BY <2>2, <2>3
<1>2. ASSUME NEW c \in Calls, Auth!ReadRefresh(c) PROVE AuthInv'
  <2>1. UNCHANGED <<auserver, auissued, aurefresh>> /\ aucall[c].stage = "reading" /\ aucall[c].kind = "refresh"
    BY <1>2 DEF Auth!ReadRefresh, AuthInv, Reasoned
  <2>2. CASE aurefresh = 0
    <3>1. PICK r : r = Auth!Idle /\ aucall' = [aucall EXCEPT ![c] = r] /\ aucauses' = aucauses
      BY <1>2, <2>2 DEF Auth!ReadRefresh, Auth!Ends
    <3>2. aucall'[c] = r /\ \A d \in Calls : d # c => aucall'[d] = aucall[d]
      BY <3>1, CallStep, Zenon
    <3>3. AuthTyped'
      BY <2>1, <3>1, <3>2 DEF AuthInv, AuthTyped, Stages, CallRecords, Sound, Auth!Idle
    <3>4. /\ Calm' /\ Single' /\ Reasoned'
      BY <2>1, <3>1, <3>2 DEF AuthInv, Calm, Single, Reasoned, Carries, Using, OnItsWay, Auth!Idle
    <3> QED
      BY <3>3, <3>4 DEF AuthInv
  <2>3. CASE aurefresh # 0
    <3>1. PICK r : /\ r = [aucall[c] EXCEPT !.stage = "posting", !.holds = aurefresh]
                   /\ aucall' = [aucall EXCEPT ![c] = r]
      BY <1>2, <2>3, Zenon DEF Auth!ReadRefresh, AuthInv, AuthTyped
    <3>2. aucall'[c] = r /\ \A d \in Calls : d # c => aucall'[d] = aucall[d]
      BY <3>1, CallStep, Zenon
    <3>3. r.stage = "posting" /\ r.kind = "refresh" /\ r.holds = aurefresh /\ r.new = aucall[c].new
      BY <2>1, <3>1 DEF AuthInv, AuthTyped
    <3>4. aucauses \subseteq aucauses' /\ aucauses' \subseteq aucauses \cup {"overlap", "race"}
      BY <1>2, <2>3 DEF Auth!ReadRefresh, Auth!Overlaps
    <3>5. \A d \in Calls \ {c} : aucall[d].holds = aurefresh => "overlap" \in aucauses'
      BY <1>2, <2>3 DEF Auth!ReadRefresh
    <3>6. \A d \in Calls : Using(d) /\ aucall[d].kind = "login" => "race" \in aucauses'
      BY <1>2, <2>3 DEF Auth!ReadRefresh, Auth!Overlaps, Auth!Active, Using
    <3>7. AuthTyped'
      <4>1. PICK old \in CallRecords : old = aucall[c]
        BY DEF AuthInv, AuthTyped
      <4>2. aurefresh \in Nat /\ aurefresh <= auissued /\ Sound(old)
        BY <4>1 DEF AuthInv, AuthTyped
      <4>3. r = [old EXCEPT !.stage = "posting", !.holds = aurefresh]
        BY <3>1, <4>1
      <4>4. r \in CallRecords
        BY <4>2, <4>3, Zenon DEF CallRecords, Stages
      <4>5. r.holds <= auissued' /\ r.new <= auissued' /\ r.kind = "refresh"
        BY <2>1, <3>3, <4>1, <4>2 DEF Sound
      <4> QED
        BY <2>1, <3>1, <3>4, <4>4, <4>5, TypedStep DEF AuthInv, AuthTyped, Sound
    <3>8. Calm'
      BY <2>1, <3>2, <3>3, <3>4 DEF AuthInv, Calm, Carries, OnItsWay
    <3>9. Single'
      <4>1. ASSUME aucauses' \subseteq {"pasted"}, NEW d \in Calls \ {c} PROVE ~Using(d)
        <5>1. ~Using(d) \/ aucall[d].kind = "refresh"
          BY <3>6, <4>1 DEF AuthInv, AuthTyped, Sound, Using
        <5> QED
          BY <2>3, <3>4, <3>5, <4>1, <5>1 DEF AuthInv, Single
      <4>2. ASSUME aucauses' \subseteq {"pasted"} PROVE aurefresh = auserver
        <5>1. \A d \in Calls : ~Carries(d)
          BY <2>1, <4>1, <4>2 DEF Using, Carries
        <5> QED
          BY <2>3, <3>4, <4>2, <5>1 DEF AuthInv, Calm
      <4>3. ASSUME aucauses' \subseteq {"pasted"}, NEW d \in Calls, Using(d)' PROVE d = c
        BY <3>2, <4>1, <4>3 DEF Using
      <4>4. ASSUME aucauses' \subseteq {"pasted"}, NEW d \in Calls, aucall'[d].stage = "posting" PROVE d = c
        BY <4>3, <4>4 DEF Using
      <4>5. aucall'[c].holds = aurefresh' /\ aurefresh' = aurefresh /\ auserver' = auserver
        BY <2>1, <3>2, <3>3
      <4> QED
        BY <4>2, <4>3, <4>4, <4>5 DEF Single
    <3>10. Reasoned'
      BY <3>2, <3>3, <3>4 DEF AuthInv, Reasoned
    <3> QED
      BY <3>7, <3>8, <3>9, <3>10 DEF AuthInv
  <2> QED
    BY <2>2, <2>3
<1>3. ASSUME NEW c \in Calls, Auth!Rotates(c) PROVE AuthInv'
  <2>1. /\ aucall[c].stage = "posting" /\ aucall[c].holds = auserver /\ aucall[c].kind = "refresh"
        /\ auissued' = auissued + 1 /\ auserver' = auissued + 1 /\ aurefresh' = aurefresh
    BY <1>3 DEF Auth!Rotates, AuthInv, Reasoned
  <2>2. PICK r : /\ aucall' = [aucall EXCEPT ![c] = r]
                 /\ \/ r = [aucall[c] EXCEPT !.stage = "answered", !.new = auissued + 1] /\ aucauses' = aucauses
                    \/ r = Auth!Idle /\ aucauses' = aucauses \cup {"lost"}
    BY <1>3, <2>1, Zenon DEF Auth!Rotates, Auth!Ends, AuthInv, AuthTyped
  <2>3. aucall'[c] = r /\ \A d \in Calls : d # c => aucall'[d] = aucall[d]
    BY <2>2, CallStep, Zenon
  <2>4. CASE r = [aucall[c] EXCEPT !.stage = "answered", !.new = auissued + 1] /\ aucauses' = aucauses
    <3>1. r.stage = "answered" /\ r.new = auissued + 1 /\ r.kind = "refresh" /\ r.holds = auserver
      BY <2>1, <2>4 DEF AuthInv, AuthTyped
    <3>2. AuthTyped'
      <4>1. PICK old \in CallRecords, n \in Nat : old = aucall[c] /\ n = auissued + 1
        BY DEF AuthInv, AuthTyped
      <4>2. r = [old EXCEPT !.stage = "answered", !.new = n]
        BY <2>4, <4>1
      <4>3. r \in CallRecords
        BY <4>2, Zenon DEF CallRecords, Stages
      <4>4. r.holds <= auissued' /\ r.new <= auissued'
        BY <2>1, <3>1 DEF AuthInv, AuthTyped
      <4>5. Sound(r)'
        BY <3>1, <4>4 DEF Sound
      <4>6. /\ auissued' \in Nat /\ auissued <= auissued' /\ auserver' \in 0..auissued' /\ aurefresh' \in 0..auissued'
            /\ aucauses' \subseteq {"overlap", "race", "lost", "elsewhere", "pasted"}
        BY <2>1, <2>4 DEF AuthInv, AuthTyped
      <4> QED
        BY <2>2, <4>3, <4>5, <4>6, TypedStep, Zenon
    <3>3. ASSUME aucauses \cap {"lost", "elsewhere", "race"} = {}, NEW d \in Calls PROVE ~Carries(d)
      BY <2>1, <3>3 DEF AuthInv, Calm, OnItsWay
    <3>4. Calm'
      <4>1. aurefresh' # auserver' /\ \A d \in Calls : aucall[d].holds # auserver'
        <5>1. aurefresh <= auissued /\ \A d \in Calls : aucall[d] \in CallRecords /\ Sound(aucall[d])
          BY DEF AuthInv, AuthTyped
        <5> QED
          BY <2>1, <5>1 DEF AuthInv, AuthTyped, Sound, CallRecords
      <4>2. ASSUME aucauses' \cap {"lost", "elsewhere", "race"} = {} PROVE OnItsWay(c)'
        BY <2>1, <2>3, <2>4, <3>1, <3>3, <4>1, <4>2, Zenon DEF Carries, OnItsWay
      <4>3. ASSUME aucauses' \cap {"lost", "elsewhere", "race"} = {}, NEW d \in Calls, Carries(d)' PROVE d = c
        BY <2>3, <2>4, <3>3, <4>3 DEF Carries
      <4> QED
        BY <2>1, <2>3, <3>1, <4>2, <4>3 DEF Calm, Carries
    <3>5. Single'
      <4>1. ASSUME aucauses' \subseteq {"pasted"} PROVE /\ aurefresh \in {0, aucall[c].holds}
                                                     /\ \A d \in Calls \ {c} : ~Using(d)
        BY <2>1, <2>4, <4>1 DEF AuthInv, Single, Using
      <4>2. ASSUME aucauses' \subseteq {"pasted"}, NEW d \in Calls, Using(d)' PROVE d = c
        BY <2>3, <4>1, <4>2 DEF Using
      <4>3. ASSUME aucauses' \subseteq {"pasted"}, NEW d \in Calls PROVE aucall'[d].stage # "posting"
        BY <2>3, <3>1, <4>2, <4>3 DEF Using
      <4> QED
        BY <2>1, <2>3, <3>1, <4>1, <4>2, <4>3 DEF Single
    <3>6. Reasoned'
      BY <2>3, <2>4, <3>1, Zenon DEF AuthInv, Reasoned
    <3> QED
      BY <3>2, <3>4, <3>5, <3>6 DEF AuthInv
  <2>5. CASE r = Auth!Idle /\ aucauses' = aucauses \cup {"lost"}
    <3>1. r.stage = "idle" /\ r.kind = "none" /\ r.holds = 0 /\ r.new = 0
      BY <2>5 DEF Auth!Idle
    <3>2. AuthTyped'
      <4>1. r \in CallRecords
        BY <2>5 DEF CallRecords, Stages, Auth!Idle
      <4>2. r.holds <= auissued' /\ r.new <= auissued' /\ auissued \in Nat
        BY <2>1, <3>1 DEF AuthInv, AuthTyped
      <4>3. Sound(r)'
        BY <3>1, <4>2 DEF Sound
      <4>4. /\ auissued' \in Nat /\ auissued <= auissued' /\ auserver' \in 0..auissued' /\ aurefresh' \in 0..auissued'
            /\ aucauses' \subseteq {"overlap", "race", "lost", "elsewhere", "pasted"}
        BY <2>1, <2>5 DEF AuthInv, AuthTyped
      <4> QED
        BY <2>2, <4>1, <4>3, <4>4, TypedStep, Zenon
    <3>3. Calm' /\ Single'
      BY <2>5 DEF Calm, Single
    <3>4. Reasoned'
      BY <2>3, <2>5, <3>1 DEF AuthInv, Reasoned
    <3> QED
      BY <3>2, <3>3, <3>4 DEF AuthInv
  <2> QED
    BY <2>2, <2>4, <2>5
<1>4. ASSUME NEW c \in Calls, Auth!Refuses(c) PROVE AuthInv'
  BY <1>4 DEF Auth!Refuses, Auth!To, AuthInv, AuthTyped, Stages, CallRecords, Sound, Calm, Single, Reasoned,
     Carries, Using, OnItsWay
<1>5. ASSUME NEW c \in Calls, Auth!Unreachable(c) PROVE AuthInv'
  BY <1>5 DEF Auth!Unreachable, Auth!Ends, Auth!Idle, AuthInv, AuthTyped, Stages, CallRecords, Sound, Calm, Single,
     Reasoned, Carries,
              Using, OnItsWay
<1>6. ASSUME NEW c \in Calls, Auth!Login(c) PROVE AuthInv'
  BY <1>6 DEF Auth!Login, Auth!Overlaps, Auth!Active, Auth!Idle, AuthInv, AuthTyped, Stages, CallRecords, Sound,
     Calm, Single, Reasoned,
              Carries, Using, OnItsWay
<1>7. ASSUME NEW c \in Calls, Auth!StoreAccess(c) PROVE AuthInv'
  BY <1>7 DEF Auth!StoreAccess, Auth!To, AuthInv, AuthTyped, Stages, CallRecords, Sound, Calm, Single, Reasoned,
     Carries, Using, OnItsWay
<1>8. ASSUME NEW c \in Calls, Auth!StoreRefresh(c) PROVE AuthInv'
  BY <1>8 DEF Auth!StoreRefresh, Auth!Stored, Auth!Ends, Auth!Idle, AuthInv, AuthTyped, Stages, CallRecords, Sound,
     Calm, Single,
              Reasoned, Carries, Using, OnItsWay
<1>9. ASSUME NEW c \in Calls, Auth!ClearAccess(c) PROVE AuthInv'
  BY <1>9 DEF Auth!ClearAccess, Auth!To, AuthInv, AuthTyped, Stages, CallRecords, Sound, Calm, Single, Reasoned,
     Carries, Using, OnItsWay
<1>10. ASSUME NEW c \in Calls, Auth!ClearRefresh(c) PROVE AuthInv'
  BY <1>10 DEF Auth!ClearRefresh, Auth!To, AuthInv, AuthTyped, Stages, CallRecords, Sound, Calm, Single, Reasoned,
     Carries, Using,
               OnItsWay
<1>11. ASSUME NEW c \in Calls, Auth!ClearKey(c) PROVE AuthInv'
  BY <1>11 DEF Auth!ClearKey, Auth!Ends, Auth!Idle, AuthInv, AuthTyped, Stages, CallRecords, Sound, Calm, Single,
     Reasoned, Carries,
               Using, OnItsWay
<1>12. CASE Auth!Paste
  BY <1>12 DEF Auth!Paste, Auth!Active, AuthInv, AuthTyped, Stages, CallRecords, Sound, Calm, Single, Reasoned,
     Carries, Using, OnItsWay
<1>13. CASE Auth!SetApiKey \/ Auth!Ages \/ UNCHANGED auVars
  BY <1>13, Zenon DEF Auth!SetApiKey, Auth!Ages, auVars, AuthInv, AuthTyped, Sound, Calm, Single, Reasoned, Carries,
     Using, OnItsWay
<1>14. CASE Auth!Elsewhere
  <2>1. /\ UNCHANGED <<aurefresh, aucall>> /\ aucauses' = aucauses \cup {"elsewhere"}
        /\ auissued' \in {auissued, auissued + 1} /\ auserver' \in {0, auissued'}
    BY <1>14 DEF Auth!Elsewhere
  <2>2. AuthTyped'
    BY <2>1 DEF AuthInv, AuthTyped, Sound, CallRecords
  <2> QED
    BY <2>1, <2>2 DEF AuthInv, Calm, Single, Reasoned
<1> QED
  BY <1>1, <1>2, <1>3, <1>4, <1>5, <1>6, <1>7, <1>8, <1>9, <1>10, <1>11, <1>12, <1>13, <1>14 DEF Auth!Next

LEMMA AuthMoves == [Next]_vars => [Auth!Next]_auVars
  BY DEF Next, vars, StreamKeeps, PatchKeeps, GatewayKeeps, StoreKeeps, FileKeeps, MatchKeeps, LegacyKeeps,
         ChannelKeeps, SerialKeeps

\* However many calls obtain a token at a time, the client loses its session only to a cause outside
\* a single refresh.
THEOREM SessionsSurvive == Spec => []AuthSessionSurvives
<1>1. Init => AuthInv
  BY AuthInit DEF Init
<1>2. AuthInv /\ [Next]_vars => AuthInv'
  BY AuthStep, AuthMoves
<1>3. AuthInv => AuthSessionSurvives
  BY DEF AuthInv, Calm, Reasoned, Carries, AuthSessionSurvives, Auth!SessionSurvives, Auth!Active
<1> QED
  BY <1>1, <1>2, <1>3, PTL DEF Spec

-------------------------------------------------------------------------------
(* The backend with one request at a time: what ProvenanceIngest_proofs proves  *)
(* of one worker.                                                              *)

OneServer == INSTANCE ProvenanceIngest_proofs WITH
  Workers <- {Alone}, Imports <- {}, NoReq <- none, NoPayload <- none, rows <- serows, nextId <- senextId,
  workspaces <- seworkspaces, known <- seknown, graph <- segraph, tx <- setx,
  answered <- seanswered, disturbed <- sedisturbed

\* what it assumes of its constants holds here
LEMMA ServerAssumptions ==
  /\ Neo4jEnabled \in BOOLEAN /\ StrictLineage \in BOOLEAN /\ MaxId \in Nat
  /\ Payloads \subseteq [ws : OneServer!Spaces, uuid : OneServer!Uuids, req : OneServer!Reqs]
  BY ServerAssumption, Zenon DEF Serial!Payload, Serial!Spaces, Serial!Uuids, Serial!Reqs,
     OneServer!Spaces, OneServer!Uuids, OneServer!Reqs

SerialInv == OneServer!Typed /\ OneServer!Serial

LEMMA SameServer == Serial!Next <=> OneServer!Next
  BY DEF Serial!Next, OneServer!Next, Serial!Serve, OneServer!Serve, Serial!Receive, OneServer!Receive,
         Serial!ReceiveRetry, OneServer!ReceiveRetry, Serial!FindWorkspace, OneServer!FindWorkspace,
         Serial!FlushWorkspace, OneServer!FlushWorkspace, Serial!LookupNone, OneServer!LookupNone,
         Serial!LookupDuplicate, OneServer!LookupDuplicate, Serial!LookupFails, OneServer!LookupFails,
         Serial!InsertRow, OneServer!InsertRow, Serial!InsertConflict, OneServer!InsertConflict,
         Serial!SelectTail, OneServer!SelectTail, Serial!LockTail, OneServer!LockTail,
         Serial!WriteLineage, OneServer!WriteLineage, Serial!SkipLineage, OneServer!SkipLineage,
         Serial!LineageFails, OneServer!LineageFails, Serial!Commit, OneServer!Commit,
         Serial!CommitFails, OneServer!CommitFails, Serial!CleanupLineage, OneServer!CleanupLineage,
         Serial!ImportLoad, OneServer!ImportLoad, Serial!ImportCommit, OneServer!ImportCommit,
         Serial!Restart, OneServer!Restart,
         \* what they are built from
         Serial!Fresh, OneServer!Fresh, Serial!Idle, OneServer!Idle, Serial!End, OneServer!End,
         Serial!Goto, OneServer!Goto, Serial!InSpace, OneServer!InSpace, Serial!Answer, OneServer!Answer,
         Serial!SpaceOf, OneServer!SpaceOf, Serial!Existing, OneServer!Existing,
         Serial!Inserted, OneServer!Inserted, Serial!Holds, OneServer!Holds, Serial!KeyFree, OneServer!KeyFree,
         Serial!KeyTaken, OneServer!KeyTaken, Serial!Cardinality, OneServer!Cardinality,
         Serial!NoPredecessor, OneServer!NoPredecessor, Serial!IsPredecessor, OneServer!IsPredecessor,
         Serial!NewRow, OneServer!NewRow, Serial!RecordHash, OneServer!RecordHash,
         Serial!FreshDocs, OneServer!FreshDocs, Serial!ImportHash, OneServer!ImportHash,
         Serial!ImportRow, OneServer!ImportRow, Serial!Uuids, OneServer!Uuids

LEMMA ServerInit == Serial!Init => SerialInv
<1>1. OneServer!Init => SerialInv
  BY OneServer!TypeInit, OneServer!SerialInit, ServerAssumptions DEF SerialInv
<1>2. Serial!Init => OneServer!Init
  BY DEF Serial!Init, OneServer!Init, Serial!Idle, OneServer!Idle, Serial!Fresh, OneServer!Fresh
<1> QED
  BY <1>1, <1>2

LEMMA ServerStep == SerialInv /\ [Serial!Next]_seVars => SerialInv'
<1>1. OneServer!Typed /\ [OneServer!Next]_OneServer!vars => OneServer!Typed'
  BY OneServer!TypeStep, ServerAssumptions
<1>2. OneServer!Typed /\ OneServer!Serial /\ [OneServer!Next]_OneServer!vars => OneServer!Serial'
  BY OneServer!SerialStep, ServerAssumptions
<1>3. [Serial!Next]_seVars => [OneServer!Next]_OneServer!vars
  BY SameServer DEF seVars, OneServer!vars
<1> QED
  BY <1>1, <1>2, <1>3 DEF SerialInv

LEMMA ServerMoves == [Next]_vars => [Serial!Next]_seVars
  BY DEF Next, vars, StreamKeeps, PatchKeeps, GatewayKeeps, StoreKeeps, FileKeeps, MatchKeeps, LegacyKeeps,
         AuthKeeps, ChannelKeeps

\* Whatever fails and is sent again, a stored lineage node id names a node of the graph and a request
\* uuid is stored once in a workspace, when the backend serves one request at a time.
THEOREM OneAtATimeIsExact == Spec => []SerialIngest
<1>1. Init => SerialInv
  BY ServerInit DEF Init
<1>2. SerialInv /\ [Next]_vars => SerialInv'
  BY ServerStep, ServerMoves
<1>3. SerialInv => SerialIngest
  BY DEF SerialInv, OneServer!Serial, OneServer!NodesExist, OneServer!OneRecordPerRequest,
         SerialIngest, Serial!NodesExist, Serial!OneRecordPerRequest
<1> QED
  BY <1>1, <1>2, <1>3, PTL DEF Spec

-------------------------------------------------------------------------------
(* Capture of a file by the base extension.  What a baseline has, was captured  *)
(* or hidden; what the file has besides, will still be looked at.              *)

Seen == ficaptured \cup fihidden \cup UNION fiscoring

FileTyped ==
  /\ fidoc \in Seq(Nat) /\ fifile \in Seq(Nat) /\ fibaseline \in Seq(Seq(Nat))
  /\ fireads \in Seq([text : Seq(Nat), created : BOOLEAN])
  /\ finext \in Nat /\ fibig \subseteq Nat
  /\ ficreated \in BOOLEAN /\ (~fiexists => fifile = <<>>)

\* blocks are numbered as they are inserted
Numbers == {n \in Nat : n < finext}
Inserted(t) == Items(t) \subseteq Numbers

BlocksNumbered ==
  /\ Inserted(fidoc) /\ Inserted(fifile) /\ fibig \subseteq Numbers
  /\ \A t \in Items(fibaseline) : Inserted(t)
  /\ \A r \in Items(fireads) : Inserted(r.text)

BaselineSeen == \A t \in Items(fibaseline) : Items(t) \cap fibig \subseteq Seen

FileExpected == fiwatching /\ ~fitimer =>
  \A b \in Items(fifile) \cap fibig : b \in Seen \/ \E r \in Items(fireads) : b \in Items(r.text)

FileInv == FileTyped /\ BlocksNumbered /\ BaselineSeen /\ FileExpected

\* what is neither in the common beginning nor in the common end is in the block
LEMMA BlockMissesNothing ==
  ASSUME NEW S, NEW before \in Seq(S), NEW after \in Seq(S)
  PROVE  Items(after) \subseteq Items(before) \cup File!InsertedBlock(before, after)
<1> DEFINE Begins == {n \in 0..Len(before) : n <= Len(after) /\ SubSeq(before, 1, n) = SubSeq(after, 1, n)}
<1> DEFINE p == CHOOSE n \in Begins : \A m \in Begins : m <= n
<1> DEFINE Ends == {n \in 0..(Len(before) - p) : /\ n <= Len(after) - p
                     /\ SubSeq(before, Len(before) - n + 1, Len(before)) = SubSeq(after, Len(after) - n + 1, Len(after))}
<1> DEFINE q == CHOOSE n \in Ends : \A m \in Ends : m <= n
<1>1. File!InsertedBlock(before, after) = Items(SubSeq(after, p + 1, Len(after) - q))
  BY DEF File!InsertedBlock, File!Range, Items
<1>2. Len(before) \in Nat /\ Len(after) \in Nat
  OBVIOUS
<1>3. p \in Begins
  <2>1. SubSeq(before, 1, 0) = <<>> /\ SubSeq(after, 1, 0) = <<>>
    BY SubSeqEmpty
  <2>2. 0 \in Begins /\ Begins \in SUBSET (0..Len(before))
    BY <1>2, <2>1
  <2>3. \E n \in Begins : \A m \in Begins : m <= n
    <3> HIDE DEF Begins
    <3> QED
      BY <1>2, <2>2, Greatest, Zenon
  <2> QED
    BY <2>3, Zenon
<1>4. p \in 0..Len(before) /\ p <= Len(after) /\ SubSeq(before, 1, p) = SubSeq(after, 1, p)
  BY <1>3, Zenon
<1> HIDE DEF p
<1>5. q \in Ends
  <2>1. SubSeq(before, Len(before) - 0 + 1, Len(before)) = <<>> /\ SubSeq(after, Len(after) - 0 + 1, Len(after)) = <<>>
    BY <1>2, SubSeqEmpty
  <2>2. 0 \in Ends /\ Ends \in SUBSET (0..(Len(before) - p)) /\ Len(before) - p \in Nat
    BY <1>2, <1>4, <2>1
  <2>3. \E n \in Ends : \A m \in Ends : m <= n
    <3> HIDE DEF Ends
    <3> QED
      BY <2>2, Greatest, Zenon
  <2> QED
    BY <2>3, Zenon
<1>6. /\ q \in 0..(Len(before) - p) /\ q <= Len(after) - p
      /\ SubSeq(before, Len(before) - q + 1, Len(before)) = SubSeq(after, Len(after) - q + 1, Len(after))
  BY <1>5, Zenon
<1> HIDE DEF q
<1>7. ASSUME NEW i \in 1..Len(after) PROVE after[i] \in Items(before) \cup Items(SubSeq(after, p + 1, Len(after) - q))
  <2>1. CASE i <= p
    <3>1. i \in 1..p /\ i \in 1..Len(before) /\ 1 \in Int /\ p \in Int
      BY <1>2, <1>4, <2>1
    <3>2. SubSeq(before, 1, p)[i] = before[i] /\ SubSeq(after, 1, p)[i] = after[i]
      BY <1>2, <1>4, <3>1
    <3> QED
      BY <1>4, <3>1, <3>2, ItemIn
  <2>2. CASE i > Len(after) - q
    <3>1. PICK j : j = i - (Len(after) - q)
      OBVIOUS
    <3>2. PICK u, v : u = Len(before) - q + 1 /\ v = Len(after) - q + 1
      OBVIOUS
    <3>3. /\ j \in 1..q /\ u \in 1..(Len(before) + 1) /\ v \in 1..(Len(after) + 1) /\ v + j - 1 = i
          /\ j \in 1..(Len(before) - u + 1) /\ j \in 1..(Len(after) - v + 1) /\ u + j - 1 \in 1..Len(before)
      BY <1>2, <1>4, <1>6, <2>2, <3>1, <3>2
    <3>4. SubSeq(before, u, Len(before))[j] = before[u + j - 1]
      BY <1>2, <3>3
    <3>5. SubSeq(after, v, Len(after))[j] = after[i]
      BY <1>2, <3>3
    <3> QED
      BY <1>6, <3>2, <3>3, <3>4, <3>5, ItemIn, Zenon
  <2>3. CASE p < i /\ i <= Len(after) - q
    <3>1. p + 1 \in 1..(Len(after) + 1) /\ Len(after) - q \in 0..Len(after) /\ i \in (p + 1)..(Len(after) - q)
      BY <1>2, <1>4, <1>6, <2>3
    <3>2. Items(SubSeq(after, p + 1, Len(after) - q)) = {after[k] : k \in (p + 1)..(Len(after) - q)}
      BY <3>1, ItemsSubSeq
    <3> QED
      BY <3>1, <3>2
  <2> QED
    BY <1>2, <1>4, <1>6, <2>1, <2>2, <2>3
<1> QED
  BY <1>1, <1>7, ItemsAre

LEMMA InsertItems ==
  ASSUME NEW t \in Seq(Nat), NEW at \in 0..Len(t), NEW b \in Nat
  PROVE  File!Insert(t, at, b) \in Seq(Nat) /\ Items(File!Insert(t, at, b)) \subseteq Items(t) \cup {b}
<1>1. 1 \in 1..(Len(t) + 1) /\ at \in 0..Len(t) /\ at + 1 \in 1..(Len(t) + 1) /\ Len(t) \in 0..Len(t)
  BY LenProperties
<1>2. PICK u \in Seq(Nat) : u = SubSeq(t, 1, at) /\ Items(u) = {t[i] : i \in 1..at}
  BY <1>1, ItemsSubSeq, Zenon
<1>3. PICK v \in Seq(Nat) : v = SubSeq(t, at + 1, Len(t)) /\ Items(v) = {t[i] : i \in (at + 1)..Len(t)}
  BY <1>1, ItemsSubSeq, Zenon
<1>4. PICK e : e = <<b>>
  BY Zenon
<1>e. e \in Seq(Nat) /\ Items(e) = {b}
  BY <1>4, ItemsSingle, Zenon
<1>5. PICK w : w = u \o e
  BY Zenon
<1>w. w \in Seq(Nat) /\ Items(w) = Items(u) \cup {b}
  BY <1>5, <1>e, ItemsConcat
<1>6. PICK x : x = w \o v
  BY Zenon
<1>x. x \in Seq(Nat) /\ Items(x) = Items(u) \cup {b} \cup Items(v)
  BY <1>6, <1>w, ItemsConcat
<1>7. Items(u) \subseteq Items(t) /\ Items(v) \subseteq Items(t)
  <2>1. \A i \in 1..at : i \in 1..Len(t)
    BY LenProperties
  <2>2. \A i \in (at + 1)..Len(t) : i \in 1..Len(t)
    BY LenProperties
  <2> QED
    BY <1>2, <1>3, <2>1, <2>2, ItemIn
<1>8. File!Insert(t, at, b) = x
  BY <1>2, <1>3, <1>4, <1>5, <1>6 DEF File!Insert
<1> QED
  BY <1>x, <1>7, <1>8

LEMMA FileInit == File!Init => FileInv
<1> SUFFICES ASSUME File!Init PROVE FileInv
  OBVIOUS
<1>1. /\ fidoc = <<>> /\ fifile = <<>> /\ fibaseline = <<>> /\ fireads = <<>>
      /\ fiwatching = FALSE /\ ficreated = FALSE /\ fibig = {} /\ finext = 1
  BY DEF File!Init
<1>2. <<>> \in Seq(Nat) /\ <<>> \in Seq(Seq(Nat)) /\ <<>> \in Seq([text : Seq(Nat), created : BOOLEAN])
  OBVIOUS
<1>3. FileTyped
  BY <1>1, <1>2, Zenon DEF FileTyped
<1>4. BlocksNumbered /\ BaselineSeen
  BY <1>1, ItemsEmpty DEF BlocksNumbered, Inserted, BaselineSeen
<1>5. FileExpected
  BY <1>1 DEF FileExpected
<1> QED
  BY <1>3, <1>4, <1>5 DEF FileInv

LEMMA FileStep == FileInv /\ [File!Next]_fiVars => FileInv'
<1> SUFFICES ASSUME FileInv, [File!Next]_fiVars PROVE FileInv'
  OBVIOUS
<1>0. FileTyped /\ BlocksNumbered /\ BaselineSeen /\ FileExpected
  BY DEF FileInv
<1>n. finext' \in {finext, finext + 1} => Numbers \subseteq Numbers'
  BY <1>0 DEF FileTyped, Numbers
<1>m. finext' = finext + 1 => finext \in Numbers'
  BY <1>0 DEF FileTyped, Numbers
<1>o. finext \notin Numbers
  BY <1>0 DEF FileTyped, Numbers
<1>p. finext' = finext => Numbers' = Numbers
  BY DEF Numbers
<1>1. CASE File!Scan
  <2>1. /\ UNCHANGED <<fidoc, fifile, fiexists, ficreated, fitimer, fireads, fiscoring, ficaptured, fibig, finext>>
        /\ fihidden' = fihidden \cup (Items(fifile) \cap fibig)
        /\ fibaseline' = fibaseline \/ fibaseline' = <<fifile>>
    BY <1>1 DEF File!Scan, File!Range, Items
  <2>2. fibaseline' \in Seq(Seq(Nat)) /\ Items(fibaseline') \subseteq Items(fibaseline) \cup {fifile}
    <3>1. CASE fibaseline' = fibaseline
      BY <1>0, <3>1 DEF FileTyped
    <3>2. CASE fibaseline' = <<fifile>>
      BY <1>0, <3>2, ItemsSingle DEF FileTyped
    <3> QED
      BY <2>1, <3>1, <3>2
  <2>3. FileTyped'
    BY <1>0, <2>1, <2>2 DEF FileTyped
  <2>4. BlocksNumbered'
    BY <1>0, <1>p, <2>1, <2>2 DEF BlocksNumbered, Inserted
  <2>5. BaselineSeen' /\ FileExpected'
    BY <1>0, <2>1, <2>2 DEF BaselineSeen, FileExpected, Seen
  <2> QED
    BY <2>3, <2>4, <2>5 DEF FileInv
<1>2. ASSUME NEW isBig \in BOOLEAN, File!Type(isBig) PROVE FileInv'
  <2>1. PICK at \in 0..Len(fidoc) : fidoc' = File!Insert(fidoc, at, finext)
    BY <1>2 DEF File!Type
  <2>2. /\ fidoc' \in Seq(Nat) /\ Items(fidoc') \subseteq Items(fidoc) \cup {finext}
    BY <1>0, <2>1, InsertItems DEF FileTyped
  <2>3. finext' = finext + 1 /\ UNCHANGED <<fifile, fiexists, fiwatching, fitimer, ficreated, fireads, ficaptured>>
    BY <1>2 DEF File!Type
  <2>4. CASE isBig
    <3>1. /\ fibig' = fibig \cup {finext} /\ fibaseline' = <<fidoc'>> /\ fiscoring' = fiscoring \cup {{finext}}
          /\ fihidden' = fihidden \cup (Items(fidoc) \cap fibig)
      BY <1>2, <2>4 DEF File!Type, File!Range, Items
    <3>2. fibaseline' \in Seq(Seq(Nat)) /\ Items(fibaseline') = {fidoc'}
      BY <2>2, <3>1, ItemsSingle
    <3>3. Seen \cup {finext} \cup (Items(fidoc) \cap fibig) \subseteq Seen'
      BY <2>3, <3>1, Zenon DEF Seen
    <3>4. FileTyped'
      BY <1>0, <2>2, <2>3, <3>1, <3>2 DEF FileTyped
    <3>5. BlocksNumbered'
      BY <1>0, <1>n, <1>m, <2>2, <2>3, <3>1, <3>2 DEF BlocksNumbered, Inserted
    <3>6. BaselineSeen'
      BY <1>0, <2>2, <2>3, <3>1, <3>2, <3>3 DEF BaselineSeen
    <3>7. FileExpected'
      BY <1>0, <2>2, <2>3, <3>1, <3>3 DEF FileExpected
    <3> QED
      BY <3>4, <3>5, <3>6, <3>7 DEF FileInv
  <2>5. CASE ~isBig
    <3>1. UNCHANGED <<fibig, fibaseline, fiscoring, fihidden>>
      BY <1>2, <2>5 DEF File!Type
    <3>2. FileTyped'
      BY <1>0, <2>2, <2>3, <3>1 DEF FileTyped
    <3>3. BlocksNumbered'
      BY <1>0, <1>n, <1>m, <2>2, <2>3, <3>1 DEF BlocksNumbered, Inserted
    <3>4. BaselineSeen' /\ FileExpected'
      BY <1>0, <2>3, <3>1 DEF BaselineSeen, FileExpected, Seen
    <3> QED
      BY <3>2, <3>3, <3>4 DEF FileInv
  <2> QED
    BY <2>4, <2>5
<1>3. CASE File!Undo
  <2>1. PICK k \in DOMAIN fidoc : fidoc' = SubSeq(fidoc, 1, k - 1) \o SubSeq(fidoc, k + 1, Len(fidoc))
    BY <1>3, Zenon DEF File!Undo
  <2>2. fidoc' \in Seq(Nat) /\ Items(fidoc') = {fidoc[i] : i \in (DOMAIN fidoc) \ {k}}
    BY <1>0, <2>1, ItemsRemoved, Zenon DEF FileTyped
  <2>3. Items(fidoc') \subseteq Items(fidoc)
    BY <2>2, Zenon DEF Items
  <2>4. UNCHANGED <<fifile, fiexists, fibaseline, fiwatching, fitimer, ficreated, fireads, fiscoring, ficaptured, fibig, fihidden, finext>>
    BY <1>3 DEF File!Undo
  <2>5. FileTyped'
    BY <1>0, <2>2, <2>4 DEF FileTyped
  <2>6. BlocksNumbered'
    BY <1>0, <1>p, <2>3, <2>4 DEF BlocksNumbered, Inserted
  <2>7. BaselineSeen' /\ FileExpected'
    BY <1>0, <2>4 DEF BaselineSeen, FileExpected, Seen
  <2> QED
    BY <2>5, <2>6, <2>7 DEF FileInv
<1>4. CASE File!Save
  <2>1. /\ fifile' = fidoc /\ fiexists' = TRUE /\ fitimer' = (fitimer \/ fiwatching)
        /\ ficreated' \in BOOLEAN
        /\ UNCHANGED <<fidoc, fibaseline, fiwatching, fireads, fiscoring, ficaptured, fibig, fihidden, finext>>
    BY <1>4 DEF File!Save, File!Schedule
  <2>2. FileTyped'
    BY <1>0, <2>1 DEF FileTyped
  <2>3. BlocksNumbered'
    BY <1>0, <1>p, <2>1 DEF BlocksNumbered, Inserted
  <2>4. BaselineSeen'
    BY <1>0, <2>1 DEF BaselineSeen, Seen
  <2>5. FileExpected'
    BY <2>1, Zenon DEF FileExpected
  <2> QED
    BY <2>2, <2>3, <2>4, <2>5 DEF FileInv
<1>5. CASE File!Write
  <2>1. PICK at \in 0..Len(fifile) : fifile' = File!Insert(fifile, at, finext)
    BY <1>5 DEF File!Write
  <2>2. /\ fifile' \in Seq(Nat) /\ Items(fifile') \subseteq Items(fifile) \cup {finext}
    BY <1>0, <2>1, InsertItems DEF FileTyped
  <2>3. /\ fibig' = fibig \cup {finext} /\ finext' = finext + 1 /\ fiexists' = TRUE
        /\ fidoc' = fidoc \/ fidoc' = fifile'
        /\ fitimer' = (fitimer \/ fiwatching) /\ ficreated' \in BOOLEAN
        /\ UNCHANGED <<fibaseline, fiwatching, fireads, fiscoring, ficaptured, fihidden>>
    BY <1>5 DEF File!Write, File!Schedule
  <2>4. FileTyped'
    BY <1>0, <2>2, <2>3 DEF FileTyped
  <2>5. BlocksNumbered'
    BY <1>0, <1>n, <1>m, <2>2, <2>3 DEF BlocksNumbered, Inserted
  <2>6. BaselineSeen'
    <3>1. \A t \in Items(fibaseline) : finext \notin Items(t)
      BY <1>0, <1>o DEF BlocksNumbered, Inserted
    <3> QED
      BY <1>0, <2>3, <3>1 DEF BaselineSeen, Seen
  <2>7. FileExpected'
    BY <1>0, <2>3, Zenon DEF FileExpected
  <2> QED
    BY <2>4, <2>5, <2>6, <2>7 DEF FileInv
<1>6. CASE File!Delete
  <2>1. /\ fiexists' = FALSE /\ fifile' = <<>> /\ (fidoc' = fidoc \/ fidoc' = <<>>)
        /\ (fibaseline' = fibaseline \/ fibaseline' = <<>>) /\ ficreated' \in {ficreated, FALSE}
        /\ UNCHANGED <<fiwatching, fireads, fiscoring, ficaptured, fibig, fihidden, finext>>
    BY <1>6, Zenon DEF File!Delete
  <2>2. <<>> \in Seq(Nat) /\ <<>> \in Seq(Seq(Nat))
    OBVIOUS
  <2>3. /\ fidoc' \in Seq(Nat) /\ fibaseline' \in Seq(Seq(Nat)) /\ Items(fifile') = {}
        /\ Items(fidoc') \subseteq Items(fidoc) /\ Items(fibaseline') \subseteq Items(fibaseline)
    BY <1>0, <2>1, <2>2, ItemsEmpty, Zenon DEF FileTyped
  <2>4. FileTyped'
    BY <1>0, <2>1, <2>2, <2>3, Zenon DEF FileTyped
  <2>5. BlocksNumbered'
    BY <1>0, <1>p, <2>1, <2>3 DEF BlocksNumbered, Inserted
  <2>6. BaselineSeen' /\ FileExpected'
    BY <1>0, <2>1, <2>3 DEF BaselineSeen, FileExpected, Seen
  <2> QED
    BY <2>4, <2>5, <2>6 DEF FileInv
<1>7. CASE File!Look
  <2>1. /\ fitimer /\ fitimer' = FALSE /\ ficreated' = FALSE
        /\ UNCHANGED <<fidoc, fifile, fiexists, fibaseline, fiwatching, fiscoring, ficaptured, fibig, fihidden, finext>>
    BY <1>7 DEF File!Look
  <2>2. /\ fireads' \in Seq([text : Seq(Nat), created : BOOLEAN]) /\ Items(fireads) \subseteq Items(fireads')
        /\ \A r \in Items(fireads') : r \in Items(fireads) \/ r.text = fifile
        /\ fiexists => \E r \in Items(fireads') : r.text = fifile
    <3>1. CASE fiexists
      <4>1. PICK r : r = [text |-> fifile, created |-> ficreated]
        BY Zenon
      <4>2. fireads' = Append(fireads, r)
        BY <1>7, <3>1, <4>1 DEF File!Look
      <4>3. PICK Reads : Reads = [text : Seq(Nat), created : BOOLEAN]
        BY Zenon
      <4>4. r \in Reads /\ r.text = fifile /\ fireads \in Seq(Reads)
        BY <1>0, <4>1, <4>3 DEF FileTyped
      <4>5. fireads' \in Seq(Reads) /\ Items(fireads') = Items(fireads) \cup {r}
        BY <4>2, <4>4, ItemsAppend
      <4> QED
        BY <4>3, <4>4, <4>5
    <3>2. CASE ~fiexists
      BY <1>0, <1>7, <3>2 DEF File!Look, FileTyped
    <3> QED
      BY <3>1, <3>2
  <2>3. ~fiexists => Items(fifile) = {}
    BY <1>0, ItemsEmpty DEF FileTyped
  <2>4. FileTyped'
    BY <1>0, <2>1, <2>2, Zenon DEF FileTyped
  <2>5. BlocksNumbered'
    BY <1>0, <1>p, <2>1, <2>2 DEF BlocksNumbered, Inserted
  <2>6. BaselineSeen'
    BY <1>0, <2>1 DEF BaselineSeen, Seen
  <2>7. FileExpected'
    BY <2>1, <2>2, <2>3 DEF FileExpected
  <2> QED
    BY <2>4, <2>5, <2>6, <2>7 DEF FileInv
<1>8. ASSUME NEW k, File!Compare(k) PROVE FileInv'
  <2>1. PICK r, prev, block :
          /\ k \in DOMAIN fireads /\ r = fireads[k] /\ prev = (IF fibaseline = <<>> THEN <<>> ELSE fibaseline[1])
          /\ block = File!InsertedBlock(prev, r.text)
    BY <1>8 DEF File!Compare
  <2>2. /\ fireads' = SubSeq(fireads, 1, k - 1) \o SubSeq(fireads, k + 1, Len(fireads))
        /\ fibaseline' = <<r.text>>
        /\ UNCHANGED <<fidoc, fifile, fiexists, fiwatching, fitimer, ficreated, ficaptured, fibig, finext>>
        /\ LET trusted == fibaseline # <<>> \/ r.created IN
             /\ fiscoring' = IF trusted /\ File!Enough(block) THEN fiscoring \cup {block} ELSE fiscoring
             /\ fihidden' = IF trusted THEN fihidden ELSE fihidden \cup (Items(r.text) \cap fibig)
    BY <1>8, <2>1 DEF File!Compare, File!Handled, File!Range, Items
  <2>r. PICK Reads : Reads = [text : Seq(Nat), created : BOOLEAN]
    BY Zenon
  <2>s. fireads \in Seq(Reads) /\ k \in 1..Len(fireads)
    BY <1>0, <2>1, <2>r DEF FileTyped
  <2>3. r \in Items(fireads) /\ r \in Reads
    BY <2>1, <2>s, ItemIn
  <2>t. r.text \in Seq(Nat)
    BY <2>3, <2>r
  <2>4. fireads' \in Seq(Reads) /\ Items(fireads') = {fireads[i] : i \in (DOMAIN fireads) \ {k}}
    BY <2>1, <2>2, <2>s, ItemsRemoved, Zenon
  <2>5. Items(fireads') \subseteq Items(fireads) /\ Items(fireads) \subseteq Items(fireads') \cup {r}
    BY <2>1, <2>4, Zenon DEF Items
  <2>6. prev \in Seq(Nat) /\ Items(prev) \cap fibig \subseteq Seen
    <3>1. CASE fibaseline = <<>>
      BY <2>1, <3>1, ItemsEmpty
    <3>2. CASE fibaseline # <<>>
      <4>1. prev = fibaseline[1] /\ 1 \in 1..Len(fibaseline)
        BY <1>0, <2>1, <3>2 DEF FileTyped
      <4>2. prev \in Items(fibaseline) /\ prev \in Seq(Nat)
        BY <1>0, <4>1, ItemIn DEF FileTyped
      <4> QED
        BY <1>0, <4>2 DEF BaselineSeen
    <3> QED
      BY <3>1, <3>2
  <2>7. Items(r.text) \subseteq Items(prev) \cup block
    BY <2>1, <2>t, <2>6, BlockMissesNothing, Zenon
  <2>8. Seen \subseteq Seen' /\ Items(r.text) \cap fibig \subseteq Seen'
    <3>1. CASE fibaseline # <<>> \/ r.created
      <4>1. CASE File!Enough(block)
        BY <2>2, <2>6, <2>7, <3>1, <4>1, Zenon DEF Seen
      <4>2. CASE ~File!Enough(block)
        BY <2>2, <2>6, <2>7, <3>1, <4>2 DEF Seen, File!Enough
      <4> QED
        BY <4>1, <4>2
    <3>2. CASE ~(fibaseline # <<>> \/ r.created)
      BY <2>2, <3>2 DEF Seen
    <3> QED
      BY <3>1, <3>2
  <2>9. fibaseline' \in Seq(Seq(Nat)) /\ Items(fibaseline') = {r.text}
    BY <2>2, <2>t, ItemsSingle
  <2>10. FileTyped'
    BY <1>0, <2>2, <2>4, <2>r, <2>9, Zenon DEF FileTyped
  <2>11. BlocksNumbered'
    BY <1>0, <1>p, <2>2, <2>3, <2>5, <2>9, Zenon DEF BlocksNumbered, Inserted
  <2>12. BaselineSeen'
    BY <2>2, <2>8, <2>9 DEF BaselineSeen
  <2>13. FileExpected'
    BY <1>0, <2>2, <2>5, <2>8 DEF FileExpected
  <2> QED
    BY <2>10, <2>11, <2>12, <2>13 DEF FileInv
<1>9. CASE File!Store
  <2>1. PICK bs \in fiscoring : fiscoring' = fiscoring \ {bs} /\ ficaptured' = ficaptured \cup bs
    BY <1>9 DEF File!Store
  <2>2. UNCHANGED <<fidoc, fifile, fiexists, fibaseline, fiwatching, fitimer, ficreated, fireads, fibig, fihidden, finext>>
    BY <1>9 DEF File!Store
  <2>3. Seen \subseteq Seen'
    BY <2>1, <2>2 DEF Seen
  <2>4. FileTyped'
    BY <1>0, <2>2 DEF FileTyped
  <2>5. BlocksNumbered'
    BY <1>0, <1>p, <2>2 DEF BlocksNumbered, Inserted
  <2>6. BaselineSeen' /\ FileExpected'
    BY <1>0, <2>2, <2>3 DEF BaselineSeen, FileExpected
  <2> QED
    BY <2>4, <2>5, <2>6 DEF FileInv
<1>10. CASE UNCHANGED fiVars
  <2>1. UNCHANGED <<fidoc, fifile, fiexists, fibaseline, fiwatching, fitimer, ficreated, fireads, fiscoring, ficaptured, fibig, fihidden, finext>>
    BY <1>10 DEF fiVars
  <2> QED
    BY <1>0, <1>p, <2>1, Zenon DEF FileInv, FileTyped, BlocksNumbered, Inserted, BaselineSeen, FileExpected, Seen
<1> QED
  BY <1>1, <1>2, <1>3, <1>4, <1>5, <1>6, <1>7, <1>8, <1>9, <1>10, Zenon DEF File!Next

LEMMA FileMoves == [Next]_vars => [File!Next]_fiVars
  BY DEF Next, vars, StreamKeeps, PatchKeeps, GatewayKeeps, StoreKeeps, MatchKeeps, LegacyKeeps, AuthKeeps,
         ChannelKeeps, SerialKeeps

\* However edits, writes of agents, reads and captures overlap, a big block on disk was captured once
\* nothing is pending, unless a baseline had it before the watcher could look.
THEOREM FileIsComplete == Spec => []FileComplete
<1>1. Init => FileInv
  BY FileInit DEF Init
<1>2. FileInv /\ [Next]_vars => FileInv'
  BY FileStep, FileMoves
<1>3. FileInv => FileComplete
  BY ItemsEmpty DEF FileInv, FileExpected, Seen, FileComplete, File!Complete, File!Range, Items
<1> QED
  BY <1>1, <1>2, <1>3, PTL DEF Spec

-------------------------------------------------------------------------------
(* Correlation.  As long as a pair that was matched can be a candidate, the claim *)
(* on it is not forgotten.                                                      *)

PairRecord == [stage : {"none", "reading", "open", "done"}, status : Match!Statuses, stored : BOOLEAN,
               asked : Nat, answer : Nat, updated : Nat]
InsertionState == [stage : {"none", "queued", "waiting", "done"}, at : Nat, match : SUBSET Pairs]
Claims == [pair : Pairs, at : Nat]

MatchTyped == /\ conow \in Nat \ {0} /\ copair \in [Pairs -> PairRecord]
              /\ coinsertion \in [Insertions -> InsertionState] /\ coclaims \in Seq(Claims)

\* a pair is stored once its request was seen, and answered when it is done
Timed(r) == /\ r.updated <= conow
            /\ r.stage # "done" => r.answer = 0
            /\ r.stored => r.stage \in {"open", "done"}

PairsTimed == \A p \in Pairs : Timed(copair[p])

\* the pair is no candidate, or claimed when or after it was last updated
Guarded(p) == \/ ~copair[p].stored
              \/ copair[p].updated + Retention < conow
              \/ \E c \in Items(coclaims) : c.pair = p /\ copair[p].updated <= c.at

MatchesGuarded == \A i \in Insertions : \A p \in coinsertion[i].match \ (colate \cup coevicted) :
                    copair[p].stage \in {"open", "done"} /\ Guarded(p)

MatchInv == MatchTyped /\ PairsTimed /\ MatchesGuarded /\ Match!ClaimedOnce

LEMMA MatchInit == Match!Init => MatchInv
<1> SUFFICES ASSUME Match!Init PROVE MatchInv
  OBVIOUS
<1>1. PICK r : r = [stage |-> "none", status |-> "unavailable", stored |-> FALSE, asked |-> 0, answer |-> 0, updated |-> 0]
  BY Zenon
<1>2. r \in PairRecord /\ r.updated = 0 /\ r.answer = 0 /\ ~r.stored
  BY <1>1 DEF PairRecord, Match!Statuses
<1>3. PICK m : m = [stage |-> "none", at |-> 0, match |-> {}]
  BY Zenon
<1>4. m \in InsertionState /\ m.match = {}
  BY <1>3 DEF InsertionState
<1>5. /\ conow = 1 /\ copair = [p \in Pairs |-> r] /\ coinsertion = [i \in Insertions |-> m] /\ coclaims = <<>>
  BY <1>1, <1>3 DEF Match!Init, Match!SidecarInit, Match!NoPair, Match!NoInsertion
<1>6. coclaims \in Seq(Claims)
  BY <1>5
<1> QED
  BY <1>2, <1>4, <1>5, <1>6 DEF MatchInv, MatchTyped, PairsTimed, Timed, MatchesGuarded, Match!ClaimedOnce

\* a pair whose request was seen is answered, or does not become a candidate again
Follows(o, r) == o.stage \in {"open", "done"} =>
                   /\ r.stage \in {"open", "done"}
                   /\ \/ r.answer # o.answer
                      \/ r.updated = o.updated /\ (r.stored => o.stored)

PairsFollow == /\ copair' \in [Pairs -> PairRecord]
               /\ \A p \in Pairs : Timed(copair'[p]) /\ Follows(copair[p], copair'[p])

LEMMA PrunedPairs ==
  ASSUME NEW f \in [Pairs -> PairRecord]
  PROVE  /\ Match!Pruned(f) \in [Pairs -> PairRecord]
         /\ \A p \in Pairs : LET n == Match!Pruned(f)[p]
                             IN  /\ n.stage = f[p].stage /\ n.answer = f[p].answer /\ n.updated = f[p].updated
                                 /\ n.asked = f[p].asked /\ n.status = f[p].status
                                 /\ n.stored => f[p].stored /\ f[p].updated + Retention >= conow
<1>1. PICK g : g = Match!Pruned(f)
  OBVIOUS
<1>2. g = [p \in Pairs |-> [f[p] EXCEPT !.stored = f[p].stored /\ f[p].updated + Retention >= conow]]
  BY <1>1 DEF Match!Pruned
<1>3. ASSUME NEW p \in Pairs
      PROVE  /\ g[p] \in PairRecord /\ g[p].stage = f[p].stage /\ g[p].answer = f[p].answer
             /\ g[p].updated = f[p].updated /\ g[p].asked = f[p].asked /\ g[p].status = f[p].status
             /\ g[p].stored => f[p].stored /\ f[p].updated + Retention >= conow
  <2>1. f[p] \in PairRecord
    OBVIOUS
  <2>2. PICK b \in BOOLEAN : b <=> f[p].stored /\ f[p].updated + Retention >= conow
    BY <2>1, Zenon DEF PairRecord
  <2>3. b = (f[p].stored /\ f[p].updated + Retention >= conow)
    BY <2>1, <2>2 DEF PairRecord
  <2>4. PICK u : u = [f[p] EXCEPT !.stored = b]
    BY Zenon
  <2>5. g[p] = u
    BY <1>2, <2>3, <2>4
  <2>6. /\ u \in PairRecord /\ u.stage = f[p].stage /\ u.answer = f[p].answer
        /\ u.updated = f[p].updated /\ u.asked = f[p].asked /\ u.status = f[p].status /\ (u.stored = b)
    BY <2>1, <2>4 DEF PairRecord
  <2> QED
    BY <2>2, <2>5, <2>6
<1>4. g \in [Pairs -> PairRecord]
  BY <1>2, <1>3, Zenon
<1> QED
  BY <1>1, <1>3, <1>4

\* one pair changes, and the others may be pruned
LEMMA PairSet ==
  ASSUME MatchTyped, PairsTimed, NEW q \in Pairs, NEW r \in PairRecord, Timed(r), Follows(copair[q], r),
         \/ copair' = [copair EXCEPT ![q] = r]
         \/ copair' = Match!Pruned([copair EXCEPT ![q] = r])
  PROVE  PairsFollow
<1>1. PICK f : f = [copair EXCEPT ![q] = r]
  OBVIOUS
<1>2. f \in [Pairs -> PairRecord] /\ \A p \in Pairs : f[p] = IF p = q THEN r ELSE copair[p]
  BY <1>1 DEF MatchTyped
<1>3. \A p \in Pairs : Timed(f[p]) /\ Follows(copair[p], f[p])
  BY <1>2 DEF PairsTimed, Follows
<1>4. CASE copair' = f
  BY <1>2, <1>3, <1>4 DEF PairsFollow
<1>5. CASE copair' = Match!Pruned(f)
  BY <1>2, <1>3, <1>5, PrunedPairs DEF PairsFollow, Timed, Follows
<1> QED
  BY <1>1, <1>4, <1>5

LEMMA SidecarStep ==
  ASSUME MatchTyped, PairsTimed, Match!SidecarNext
  PROVE  PairsFollow /\ conow' \in Nat \ {0} /\ conow <= conow'
<1>1. \A p \in Pairs : copair[p] \in PairRecord /\ Timed(copair[p])
  BY DEF MatchTyped, PairsTimed
<1>2. conow \in Nat \ {0}
  BY DEF MatchTyped
<1>3. ASSUME NEW q \in Pairs, NEW s, s \in {"reading", "done"},
             copair' = [copair EXCEPT ![q].stage = s] \/ copair' = Match!Pruned([copair EXCEPT ![q].stage = s]),
             s = "reading" => copair[q].stage = "none"
      PROVE  PairsFollow
  <2>1. PICK r : r = [copair[q] EXCEPT !.stage = s]
    BY Zenon
  <2>2. /\ r \in PairRecord /\ r.stage = s /\ r.updated = copair[q].updated /\ r.answer = copair[q].answer
        /\ r.stored = copair[q].stored
    BY <1>1, <1>3, <2>1 DEF PairRecord
  <2>3. Timed(r) /\ Follows(copair[q], r)
    BY <1>1, <1>3, <2>2 DEF Timed, Follows
  <2> QED
    BY <1>3, <2>1, <2>2, <2>3, PairSet
<1>4. ASSUME NEW q \in Pairs, copair[q].stage \in {"none", "reading"}, NEW s \in Match!Statuses,
             copair' = Match!Record(q, s) \/ copair' = Match!Pruned(Match!Record(q, s))
      PROVE  PairsFollow
  <2>1. PICK r : r = [stage |-> "open", status |-> s, stored |-> TRUE, asked |-> conow, answer |-> 0, updated |-> conow]
    BY Zenon
  <2>2. r \in PairRecord /\ r.stage = "open" /\ r.updated = conow /\ r.answer = 0
    BY <1>2, <2>1 DEF PairRecord
  <2>3. Timed(r) /\ Follows(copair[q], r)
    BY <1>2, <1>4, <2>2 DEF Timed, Follows
  <2>4. Match!Record(q, s) = [copair EXCEPT ![q] = r]
    BY <2>1 DEF Match!Record
  <2> QED
    BY <1>4, <2>2, <2>3, <2>4, PairSet, Zenon
<1>5. ASSUME NEW q \in Pairs, copair[q].stage = "open", NEW f,
             f = [copair EXCEPT ![q].stage = "done", ![q].answer = conow, ![q].updated = conow],
             copair' = f \/ copair' = Match!Pruned(f)
      PROVE  PairsFollow
  <2>1. PICK r : r = [copair[q] EXCEPT !.stage = "done", !.answer = conow, !.updated = conow]
    OBVIOUS
  <2>2. r \in PairRecord /\ r.stage = "done" /\ r.updated = conow /\ r.answer = conow
    BY <1>1, <1>2, <2>1, Zenon DEF PairRecord
  <2>3. Timed(r) /\ Follows(copair[q], r)
    BY <1>1, <1>2, <1>5, <2>2 DEF Timed, Follows
  <2>4. f = [copair EXCEPT ![q] = r]
    BY <1>5, <2>1, Zenon DEF MatchTyped
  <2> QED
    BY <1>5, <2>2, <2>3, <2>4, PairSet, Zenon
<1>6. ASSUME copair' = copair \/ copair' = Match!Pruned(copair) PROVE PairsFollow
  <2>1. CASE copair' = copair
    BY <1>1, <2>1 DEF PairsFollow, Follows, MatchTyped
  <2>2. CASE copair' = Match!Pruned(copair)
    BY <1>1, <2>2, PrunedPairs DEF PairsFollow, Follows, MatchTyped, Timed
  <2> QED
    BY <1>6, <2>1, <2>2
<1>7. ASSUME NEW p \in Pairs,
             \/ Match!RequestOther(p) \/ Match!RequestMetadata(p) \/ Match!PostArrives(p) \/ Match!PostRead(p)
             \/ Match!PostFails(p) \/ Match!Answer(p) \/ Match!UpstreamError(p) \/ Match!TunnelOpens(p)
             \/ Match!TunnelCloses(p)
      PROVE  PairsFollow /\ conow' = conow
  <2>1. conow' = conow
    BY <1>7 DEF Match!RequestOther, Match!RequestMetadata, Match!PostArrives, Match!PostRead, Match!PostFails,
       Match!Answer, Match!UpstreamError, Match!TunnelOpens, Match!TunnelCloses
  <2>2. CASE Match!RequestOther(p) \/ Match!PostFails(p) \/ Match!UpstreamError(p)
    BY <1>3, <2>2 DEF Match!RequestOther, Match!PostFails, Match!UpstreamError
  <2>3. CASE Match!PostArrives(p)
    BY <1>3, <2>3, Zenon DEF Match!PostArrives
  <2>4. CASE Match!RequestMetadata(p) \/ Match!PostRead(p) \/ Match!TunnelOpens(p)
    BY <1>4, <2>4 DEF Match!RequestMetadata, Match!PostRead, Match!TunnelOpens, Match!Statuses
  <2>5. CASE Match!Answer(p)
    <3>1. CASE copair[p].stored
      BY <1>5, <2>5, <3>1, Zenon DEF Match!Answer
    <3>2. CASE ~copair[p].stored
      BY <1>3, <2>5, <3>2 DEF Match!Answer
    <3> QED
      BY <3>1, <3>2
  <2>6. CASE Match!TunnelCloses(p)
    <3>1. CASE copair[p].stored
      BY <1>5, <2>6, <3>1, Zenon DEF Match!TunnelCloses
    <3>2. CASE ~copair[p].stored
      BY <1>3, <2>6, <3>2, Zenon DEF Match!TunnelCloses
    <3> QED
      BY <3>1, <3>2
  <2> QED
    BY <1>7, <2>1, <2>2, <2>3, <2>4, <2>5, <2>6
<1>8. CASE Match!CleanupTimer \/ Match!Tick
  BY <1>2, <1>6, <1>8 DEF Match!CleanupTimer, Match!Tick
<1> QED
  BY <1>2, <1>7, <1>8 DEF Match!SidecarNext

LEMMA CaptureMatchStep ==
  ASSUME MatchInv, Match!Capture
  PROVE  MatchInv'
<1>1. /\ PairsFollow /\ conow' \in Nat \ {0} /\ conow <= conow'
      /\ UNCHANGED <<coinsertion, coqueue, coclaims, coevicted>>
      /\ colate' = colate \cup {p \in Pairs : Match!Matched(p) /\ copair'[p].answer # copair[p].answer}
  BY SidecarStep DEF MatchInv, Match!Capture, Match!corrVars
<1>2. conow \in Nat /\ \A p \in Pairs : copair[p].updated \in Nat /\ copair'[p].updated \in Nat
  BY <1>1 DEF MatchInv, MatchTyped, PairsFollow, PairRecord
<1>3. MatchTyped' /\ PairsTimed'
  BY <1>1, <1>2 DEF MatchInv, MatchTyped, PairsFollow, PairsTimed, Timed
<1>4. MatchesGuarded'
  <2> SUFFICES ASSUME NEW i \in Insertions, NEW p \in coinsertion'[i].match \ (colate' \cup coevicted')
               PROVE  copair'[p].stage \in {"open", "done"} /\ Guarded(p)'
    BY DEF MatchesGuarded
  <2>1. p \in coinsertion[i].match \ (colate \cup coevicted) /\ p \in Pairs
    BY <1>1 DEF MatchInv, MatchTyped, InsertionState
  <2>2. Match!Matched(p)
    BY <2>1 DEF Match!Matched
  <2>3. copair'[p].answer = copair[p].answer
    BY <1>1, <2>1, <2>2
  <2>4. copair[p].stage \in {"open", "done"} /\ Guarded(p)
    BY <2>1 DEF MatchInv, MatchesGuarded
  <2>5. /\ copair'[p].stage \in {"open", "done"} /\ copair'[p].updated = copair[p].updated
        /\ copair'[p].stored => copair[p].stored
    BY <1>1, <2>1, <2>3, <2>4 DEF PairsFollow, Follows
  <2>6. copair[p].updated + Retention < conow => copair'[p].updated + Retention < conow'
    BY <1>1, <1>2, <2>1, <2>5, ClaimsAssumption
  <2>7. Guarded(p)'
    BY <1>1, <2>4, <2>5, <2>6 DEF Guarded, Items
  <2> QED
    BY <2>5, <2>7
<1>5. Match!ClaimedOnce'
  BY <1>1 DEF MatchInv, Match!ClaimedOnce
<1> QED
  BY <1>3, <1>4, <1>5 DEF MatchInv

\* the claims that are left after a search
LEMMA ClaimsKept ==
  ASSUME NEW cs \in Seq(Claims), NEW T
  PROVE  Match!Kept(cs, T) \in Seq(Claims) /\ Items(Match!Kept(cs, T)) = Items(cs) \cap T
<1>1. Match!Kept(cs, T) = Kept(cs, T)
  BY DEF Match!Kept, Kept
<1> QED
  BY <1>1, ItemsKept

LEMMA ClaimsTouched ==
  ASSUME NEW cs \in Seq(Claims), NEW seen
  PROVE  Match!Touched(cs, seen) \in Seq(Claims) /\ Items(Match!Touched(cs, seen)) = Items(cs)
<1>1. Match!Range(cs) = Items(cs)
  BY DEF Match!Range, Items
<1>2. PICK found : found = {c \in Items(cs) : c.pair \in seen}
  BY Zenon
<1>3. PICK a : a = Match!Kept(cs, Items(cs) \ found)
  OBVIOUS
<1>4. PICK b : b = Match!Kept(cs, found)
  OBVIOUS
<1>5. a \in Seq(Claims) /\ Items(a) = Items(cs) \cap (Items(cs) \ found)
  BY <1>3, ClaimsKept
<1>6. b \in Seq(Claims) /\ Items(b) = Items(cs) \cap found
  BY <1>4, ClaimsKept
<1>7. a \o b \in Seq(Claims) /\ Items(a \o b) = Items(a) \cup Items(b)
  BY <1>5, <1>6, ItemsConcat
<1>8. Match!Touched(cs, seen) = a \o b
  BY <1>1, <1>2, <1>3, <1>4 DEF Match!Touched
<1> QED
  BY <1>2, <1>5, <1>6, <1>7, <1>8, Zenon

\* a claim that is forgotten is on a pair that is kept no longer, and a pair with a claim
\* that is remembered is not available
LEMMA CorrelateStep ==
  ASSUME MatchInv, ClaimRetention >= Retention, NEW i \in Insertions, Match!Correlate(i)
  PROVE  MatchInv'
<1>1. /\ conow \in Nat /\ copair \in [Pairs -> PairRecord] /\ coclaims \in Seq(Claims)
      /\ coinsertion \in [Insertions -> InsertionState] /\ PairsTimed
  BY DEF MatchInv, MatchTyped
<1>2. copair' = Match!Pruned(copair) /\ UNCHANGED <<conow, cocounted, colate>>
  BY DEF Match!Correlate
<1>3. PICK fresh : fresh = Match!FreshClaims(coclaims)
  OBVIOUS
<1>4. fresh \in Seq(Claims) /\ Items(fresh) = {c \in Items(coclaims) : c.at + ClaimRetention >= conow}
  <2>1. Match!Range(coclaims) = Items(coclaims)
    BY DEF Match!Range, Items
  <2>2. PICK T : T = {c \in Items(coclaims) : c.at + ClaimRetention >= conow}
    BY Zenon
  <2>3. fresh = Match!Kept(coclaims, T)
    BY <1>3, <2>1, <2>2 DEF Match!FreshClaims
  <2>4. fresh \in Seq(Claims) /\ Items(fresh) = Items(coclaims) \cap T
    BY <1>1, <2>3, ClaimsKept
  <2> QED
    BY <2>2, <2>4
<1>5. PICK seen : seen = Match!Touched(fresh, Match!Candidates(i))
  OBVIOUS
<1>6. seen \in Seq(Claims) /\ Items(seen) = Items(fresh)
  BY <1>4, <1>5, ClaimsTouched
<1>7. PICK av : av = Match!Candidates(i) \ Match!Claimed(fresh)
  BY Zenon
<1>8. \A c \in Items(coclaims) : c \in Claims /\ c.at \in Nat
  <2>1. \A c \in Items(coclaims) : c \in Claims
    BY <1>1, ItemsAre
  <2> QED
    BY <2>1 DEF Claims
<1>9. \A p \in Pairs : copair[p].updated \in Nat /\ copair[p].updated <= conow
  BY <1>1 DEF PairRecord, PairsTimed, Timed
<1>10. \A p \in Pairs : /\ copair'[p].stage = copair[p].stage /\ copair'[p].updated = copair[p].updated
                        /\ copair'[p].answer = copair[p].answer
                        /\ copair'[p].stored => copair[p].stored /\ copair[p].updated + Retention >= conow
  BY <1>1, <1>2, PrunedPairs
<1>11. copair' \in [Pairs -> PairRecord] /\ PairsTimed'
  <2>1. copair' \in [Pairs -> PairRecord]
    BY <1>1, <1>2, PrunedPairs
  <2>2. \A p \in Pairs : Timed(copair'[p])
    BY <1>1, <1>10 DEF PairsTimed, Timed
  <2> QED
    BY <1>2, <2>1, <2>2 DEF PairsTimed, Timed
\* a matched pair that is stored still has a claim that is remembered
<1>12. ASSUME NEW j \in Insertions, NEW p \in coinsertion[j].match \ (colate \cup coevicted), copair'[p].stored
       PROVE  \E c \in Items(fresh) : c.pair = p /\ copair'[p].updated <= c.at
  <2>1. p \in Pairs
    BY <1>1 DEF InsertionState
  <2>2. copair[p].stored /\ copair[p].updated + Retention >= conow /\ copair'[p].updated = copair[p].updated
    BY <1>10, <1>12, <2>1
  <2>3. Guarded(p)
    BY DEF MatchInv, MatchesGuarded
  <2>4. PICK c \in Items(coclaims) : c.pair = p /\ copair[p].updated <= c.at
    BY <1>1, <1>9, <2>1, <2>2, <2>3, ClaimsAssumption DEF Guarded
  <2>5. c.at + ClaimRetention >= conow
    BY <1>1, <1>8, <1>9, <2>1, <2>2, <2>4, ClaimsAssumption
  <2> QED
    BY <1>4, <2>2, <2>4, <2>5
<1>13. \A p \in av : p \in Pairs /\ copair'[p].stored /\ \A c \in Items(fresh) : c.pair # p
  <2>1. Match!Range(fresh) = Items(fresh)
    BY DEF Match!Range, Items
  <2>2. \A p \in av : p \in Pairs /\ copair'[p].stored /\ p \notin Match!Claimed(fresh)
    BY <1>2, <1>7 DEF Match!Candidates
  <2> QED
    BY <2>1, <2>2 DEF Match!Claimed
<1>14. PICK old \in InsertionState : old = coinsertion[i]
  BY <1>1
<1>15. ASSUME NEW M \in SUBSET Pairs, Match!Finish(i, M)
       PROVE  /\ coinsertion' \in [Insertions -> InsertionState]
              /\ coinsertion'[i].match = M /\ \A j \in Insertions \ {i} : coinsertion'[j] = coinsertion[j]
  <2>1. PICK m : m = [old EXCEPT !.stage = "done", !.match = M]
    OBVIOUS
  <2>2. m \in InsertionState /\ m.match = M
    BY <2>1, Zenon DEF InsertionState
  <2>3. coinsertion' = [coinsertion EXCEPT ![i] = m]
    BY <1>1, <1>14, <1>15, <2>1, Zenon DEF Match!Finish
  <2> QED
    BY <1>1, <2>2, <2>3
<1>16. CASE av = {}
  <2>1. Match!Finish(i, {}) /\ coclaims' = seen /\ UNCHANGED coevicted
    BY <1>3, <1>5, <1>7, <1>16 DEF Match!Correlate
  <2>2. /\ coinsertion' \in [Insertions -> InsertionState]
        /\ coinsertion'[i].match = {} /\ \A j \in Insertions \ {i} : coinsertion'[j] = coinsertion[j]
    BY <1>15, <2>1
  <2>3. MatchTyped'
    BY <1>2, <1>6, <1>11, <2>1, <2>2 DEF MatchInv, MatchTyped
  <2>4. MatchesGuarded'
    <3> SUFFICES ASSUME NEW j \in Insertions, NEW p \in coinsertion'[j].match \ (colate' \cup coevicted')
                 PROVE  copair'[p].stage \in {"open", "done"} /\ Guarded(p)'
      BY DEF MatchesGuarded
    <3>1. j # i /\ p \in coinsertion[j].match \ (colate \cup coevicted) /\ p \in Pairs
      BY <1>1, <1>2, <2>1, <2>2 DEF InsertionState
    <3>2. copair'[p].stage \in {"open", "done"}
      BY <1>10, <3>1 DEF MatchInv, MatchesGuarded
    <3>3. Items(coclaims') = Items(fresh)
      BY <1>6, <2>1
    <3>4. copair'[p].stored => \E c \in Items(coclaims') : c.pair = p /\ copair'[p].updated <= c.at
      BY <1>12, <3>1, <3>3
    <3> QED
      BY <3>2, <3>4 DEF Guarded, Items
  <2>5. Match!ClaimedOnce'
    BY <1>2, <2>1, <2>2 DEF MatchInv, Match!ClaimedOnce
  <2> QED
    BY <1>11, <2>3, <2>4, <2>5 DEF MatchInv
<1>17. CASE av # {}
  <2>1. PICK p \in Match!Best(i, av) :
          LET all == Append(seen, [pair |-> p, at |-> conow])
              n == IF Len(all) > MaxClaims THEN Len(all) - MaxClaims ELSE 0
          IN  /\ Match!Finish(i, {p})
              /\ coclaims' = SubSeq(all, n + 1, Len(all))
              /\ coevicted' = coevicted \cup Match!Claimed(SubSeq(all, 1, n))
    BY <1>3, <1>5, <1>7, <1>17, Zenon DEF Match!Correlate
  <2>2. p \in av /\ p \in Pairs
    <3>1. Match!Best(i, av) \subseteq av
      BY DEF Match!Best
    <3> QED
      BY <1>13, <3>1
  <2>3. PICK new : new = [pair |-> p, at |-> conow]
    BY Zenon
  <2>4. new \in Claims /\ new.pair = p /\ new.at = conow
    BY <1>1, <2>2, <2>3 DEF Claims
  <2>5. PICK all : all = Append(seen, new)
    BY Zenon
  <2>6. all \in Seq(Claims) /\ Items(all) = Items(fresh) \cup {new} /\ Len(all) \in Nat
    BY <1>6, <2>4, <2>5, ItemsAppend
  <2>7. PICK n : n = IF Len(all) > MaxClaims THEN Len(all) - MaxClaims ELSE 0
    OBVIOUS
  <2>8. n \in 0..Len(all) /\ n + 1 \in 1..(Len(all) + 1) /\ 1 \in 1..(Len(all) + 1) /\ Len(all) \in 0..Len(all)
    BY <2>6, <2>7, ClaimsAssumption
  <2>9. PICK out : out = SubSeq(all, 1, n)
    BY Zenon
  <2>10. out \in Seq(Claims) /\ Items(out) = {all[k] : k \in 1..n}
    BY <2>6, <2>8, <2>9, ItemsSubSeq
  <2>11. /\ coclaims' = SubSeq(all, n + 1, Len(all)) /\ Match!Finish(i, {p})
         /\ coevicted' = coevicted \cup Match!Claimed(out)
    BY <2>1, <2>3, <2>5, <2>7, <2>9
  <2>12. coclaims' \in Seq(Claims) /\ Items(coclaims') = {all[k] : k \in (n + 1)..Len(all)}
    <3>1. PICK rest : rest = SubSeq(all, n + 1, Len(all))
      BY Zenon
    <3>2. rest \in Seq(Claims) /\ Items(rest) = {all[k] : k \in (n + 1)..Len(all)}
      BY <2>6, <2>8, <3>1, ItemsSubSeq
    <3>3. coclaims' = rest
      BY <2>11, <3>1
    <3> QED
      BY <3>2, <3>3
  <2>13. ASSUME NEW c \in Items(all) PROVE c \in Items(coclaims') \/ c.pair \in coevicted'
    <3>1. PICK k \in 1..Len(all) : c = all[k]
      BY <2>6, ItemsAre
    <3>2. k \in 1..n \/ k \in (n + 1)..Len(all)
      BY <2>6, <2>8
    <3>3. c \in Items(out) => c.pair \in Match!Claimed(out)
      BY DEF Match!Claimed, Match!Range, Items
    <3> QED
      BY <2>10, <2>11, <2>12, <3>1, <3>2, <3>3
  <2>14. /\ coinsertion' \in [Insertions -> InsertionState]
         /\ coinsertion'[i].match = {p} /\ \A j \in Insertions \ {i} : coinsertion'[j] = coinsertion[j]
    BY <1>15, <2>2, <2>11
  <2>15. MatchTyped'
    BY <1>2, <1>11, <2>12, <2>14 DEF MatchInv, MatchTyped
  <2>16. \A j \in Insertions : p \in coinsertion[j].match => p \in colate \cup coevicted
    BY <1>12, <1>13, <2>2
  <2>17. Match!ClaimedOnce'
    <3> SUFFICES ASSUME NEW j \in Insertions, NEW k \in Insertions, NEW q \in Pairs, j # k,
                        q \in coinsertion'[j].match, q \in coinsertion'[k].match
                 PROVE  q \in colate' \cup coevicted'
      BY DEF Match!ClaimedOnce
    <3>1. colate \cup coevicted \subseteq colate' \cup coevicted'
      BY <1>2, <2>11
    <3>2. CASE j = i \/ k = i
      BY <2>14, <2>16, <3>1, <3>2
    <3>3. CASE j # i /\ k # i
      BY <2>14, <3>1, <3>3 DEF MatchInv, Match!ClaimedOnce
    <3> QED
      BY <3>2, <3>3
  <2>18. MatchesGuarded'
    <3> SUFFICES ASSUME NEW j \in Insertions, NEW q \in coinsertion'[j].match \ (colate' \cup coevicted')
                 PROVE  copair'[q].stage \in {"open", "done"} /\ Guarded(q)'
      BY DEF MatchesGuarded
    <3>1. CASE j = i
      <4>1. q = p
        BY <2>14, <3>1
      <4>2. copair'[p].stage \in {"open", "done"}
        BY <1>11, <1>13, <2>2 DEF PairsTimed, Timed
      <4>3. copair'[p].updated <= new.at
        BY <1>9, <1>10, <2>2, <2>4
      <4>4. new \in Items(coclaims')
        BY <2>4, <2>6, <2>13, <4>1
      <4> QED
        BY <2>4, <4>1, <4>2, <4>3, <4>4 DEF Guarded, Items
    <3>2. CASE j # i
      <4>1. q \in coinsertion[j].match \ (colate \cup coevicted)
        BY <1>2, <2>11, <2>14, <3>2
      <4>2. q \in Pairs
        BY <1>1, <4>1 DEF InsertionState
      <4>3. copair'[q].stage \in {"open", "done"}
        BY <1>10, <4>1, <4>2 DEF MatchInv, MatchesGuarded
      <4>4. CASE copair'[q].stored
        <5>1. PICK c \in Items(fresh) : c.pair = q /\ copair'[q].updated <= c.at
          BY <1>12, <4>1, <4>4
        <5>2. c \in Items(coclaims')
          BY <2>6, <2>13, <5>1
        <5> QED
          BY <4>3, <5>1, <5>2 DEF Guarded, Items
      <4>5. CASE ~copair'[q].stored
        BY <4>3, <4>5 DEF Guarded
      <4> QED
        BY <4>4, <4>5
    <3> QED
      BY <3>1, <3>2
  <2> QED
    BY <1>11, <2>15, <2>17, <2>18 DEF MatchInv
<1> QED
  BY <1>16, <1>17

LEMMA MatchStep == ClaimRetention >= Retention => (MatchInv /\ [Match!Next]_coVars => MatchInv')
<1> SUFFICES ASSUME ClaimRetention >= Retention, MatchInv, [Match!Next]_coVars PROVE MatchInv'
  OBVIOUS
<1>1. ASSUME NEW i \in Insertions, NEW m \in InsertionState, coinsertion' = [coinsertion EXCEPT ![i] = m],
             m.match \subseteq coinsertion[i].match, UNCHANGED <<conow, copair, coclaims, colate, coevicted>>
      PROVE  MatchInv'
  <2>1. MatchTyped' /\ \A j \in Insertions : coinsertion'[j].match \subseteq coinsertion[j].match
    BY <1>1 DEF MatchInv, MatchTyped
  <2>2. PairsTimed' /\ MatchesGuarded'
    BY <1>1, <2>1 DEF MatchInv, PairsTimed, Timed, MatchesGuarded, Guarded, Items
  <2>3. Match!ClaimedOnce'
    BY <1>1, <2>1 DEF MatchInv, Match!ClaimedOnce
  <2> QED
    BY <2>1, <2>2, <2>3 DEF MatchInv
<1>2. ASSUME NEW i \in Insertions, Match!Insert(i) PROVE MatchInv'
  <2>1. PICK old \in InsertionState : old = coinsertion[i]
    BY DEF MatchInv, MatchTyped
  <2>2. PICK m : m = [old EXCEPT !.stage = "queued"]
    BY Zenon
  <2>3. m \in InsertionState /\ m.match = old.match
    BY <2>2 DEF InsertionState
  <2>4. coinsertion' = [coinsertion EXCEPT ![i] = m]
    BY <1>2, <2>1, <2>2 DEF Match!Insert
  <2> QED
    BY <1>1, <1>2, <2>1, <2>3, <2>4, Zenon DEF Match!Insert, Match!sideVars
<1>3. ASSUME NEW i \in Insertions, Match!Begin(i) PROVE MatchInv'
  <2>1. PICK old \in InsertionState : old = coinsertion[i]
    BY DEF MatchInv, MatchTyped
  <2>2. PICK m : m = [old EXCEPT !.stage = "waiting", !.at = conow]
    OBVIOUS
  <2>3. m \in InsertionState /\ m.match = old.match
    BY <2>2, Zenon DEF InsertionState, MatchInv, MatchTyped
  <2>4. coinsertion' = [coinsertion EXCEPT ![i] = m]
    BY <1>3, <2>1, <2>2, Zenon DEF Match!Begin
  <2> QED
    BY <1>1, <1>3, <2>1, <2>3, <2>4, Zenon DEF Match!Begin, Match!sideVars
<1>4. ASSUME NEW i \in Insertions, Match!CorrelateAlone(i) PROVE MatchInv'
  <2>1. PICK old \in InsertionState : old = coinsertion[i]
    BY DEF MatchInv, MatchTyped
  <2>2. PICK m : m = [old EXCEPT !.stage = "done", !.match = {}]
    OBVIOUS
  <2>3. m \in InsertionState /\ m.match = {}
    BY <2>2, Zenon DEF InsertionState
  <2>4. coinsertion' = [coinsertion EXCEPT ![i] = m]
    BY <1>4, <2>1, <2>2, Zenon DEF Match!CorrelateAlone, Match!Finish
  <2> QED
    BY <1>1, <1>4, <2>1, <2>3, <2>4, Zenon DEF Match!CorrelateAlone, Match!sideVars
<1>5. CASE Match!Stop
  <2>1. /\ copair' = [p \in Pairs |-> [copair[p] EXCEPT !.stored = FALSE,
                                                       !.stage = IF copair[p].stage = "none" THEN "none" ELSE "done"]]
        /\ coclaims' = <<>> /\ UNCHANGED <<conow, coinsertion, colate, coevicted>>
    BY <1>5, Zenon DEF Match!Stop
  <2>2. ASSUME NEW p \in Pairs
        PROVE  /\ copair'[p] \in PairRecord /\ ~copair'[p].stored /\ copair'[p].updated = copair[p].updated
               /\ copair'[p].answer = copair[p].answer
               /\ copair'[p].stage = IF copair[p].stage = "none" THEN "none" ELSE "done"
    <3>1. copair[p] \in PairRecord
      BY DEF MatchInv, MatchTyped
    <3>2. PICK s \in {"none", "done"} : s = IF copair[p].stage = "none" THEN "none" ELSE "done"
      OBVIOUS
    <3>3. PICK u : u = [copair[p] EXCEPT !.stored = FALSE, !.stage = s]
      OBVIOUS
    <3>4. copair'[p] = u
      BY <2>1, <3>2, <3>3, Zenon
    <3>5. u \in PairRecord /\ ~u.stored /\ u.updated = copair[p].updated /\ u.answer = copair[p].answer /\ u.stage = s
      BY <3>1, <3>3, Zenon DEF PairRecord
    <3> QED
      BY <3>2, <3>4, <3>5
  <2>3. coclaims' \in Seq(Claims) /\ copair' \in [Pairs -> PairRecord]
    <3>1. coclaims' \in Seq(Claims)
      <4>1. coclaims' = <<>>
        BY <2>1, Zenon
      <4> QED
        BY <4>1
    <3>2. copair' = [p \in Pairs |-> copair'[p]]
      <4>1. PICK f : f = [p \in Pairs |-> [copair[p] EXCEPT !.stored = FALSE,
                                              !.stage = IF copair[p].stage = "none" THEN "none" ELSE "done"]]
        BY Zenon
      <4>2. f = [p \in Pairs |-> f[p]]
        BY <4>1, Zenon
      <4>3. copair' = f
        BY <2>1, <4>1, Zenon
      <4> QED
        BY <4>2, <4>3
    <3> QED
      BY <2>2, <3>1, <3>2
  <2>4. MatchTyped' /\ PairsTimed'
    BY <2>1, <2>2, <2>3, Zenon DEF MatchInv, MatchTyped, PairsTimed, Timed
  <2>5. MatchesGuarded'
    <3> SUFFICES ASSUME NEW i \in Insertions, NEW p \in coinsertion'[i].match \ (colate' \cup coevicted')
                 PROVE  copair'[p].stage \in {"open", "done"} /\ Guarded(p)'
      BY DEF MatchesGuarded
    <3>1. p \in coinsertion[i].match \ (colate \cup coevicted) /\ p \in Pairs
      BY <2>1, Zenon DEF MatchInv, MatchTyped, InsertionState
    <3>2. copair[p].stage \in {"open", "done"}
      BY <3>1 DEF MatchInv, MatchesGuarded
    <3> QED
      BY <2>2, <3>1, <3>2 DEF Guarded
  <2> QED
    BY <2>1, <2>4, <2>5, Zenon DEF MatchInv, Match!ClaimedOnce
<1>6. CASE UNCHANGED coVars
  BY <1>6 DEF coVars, MatchInv, MatchTyped, PairsTimed, Timed, MatchesGuarded, Guarded, Items, Match!ClaimedOnce
<1> QED
  BY <1>2, <1>3, <1>4, <1>5, <1>6, CaptureMatchStep, CorrelateStep DEF Match!Next

LEMMA MatchMoves == [Next]_vars => [Match!Next]_coVars
  BY DEF Next, vars, StreamKeeps, PatchKeeps, GatewayKeeps, StoreKeeps, FileKeeps, LegacyKeeps, AuthKeeps,
         ChannelKeeps, SerialKeeps

\* However insertions queue and exchanges are answered, pruned and claimed: with claims kept at least as long
\* as pairs, as by default, no exchange is the origin of two insertions, but for one that was answered after
\* it was claimed or whose claim the cap dropped.
THEOREM OriginsAreUnique == ClaimRetention >= Retention => (Spec => []MatchClaimedOnce)
<1> SUFFICES ASSUME ClaimRetention >= Retention PROVE Spec => []MatchClaimedOnce
  OBVIOUS
<1>1. Init => MatchInv
  BY MatchInit DEF Init
<1>2. MatchInv /\ [Next]_vars => MatchInv'
  BY MatchStep, MatchMoves
<1>3. MatchInv => MatchClaimedOnce
  BY DEF MatchInv, MatchClaimedOnce
<1> QED
  BY <1>1, <1>2, <1>3, PTL DEF Spec

-------------------------------------------------------------------------------
(* The capture store. *)

LEMMA StoreKept == \A s, T : Store!Kept(s, T) = Kept(s, T)
  BY DEF Store!Kept, Kept

LEMMA StoreItems == \A s : Store!Range(s) = Items(s)
  BY DEF Store!Range, Items

LEMMA StoreCount == \A S : Store!Cardinality(S) = Cardinality(S)
  BY DEF Store!Cardinality, Cardinality

LEMMA SealedAlready ==
  ASSUME NEW S, NEW L \in Seq(S), \A x \in Items(L) : x.hash # <<>>
  PROVE  Store!Sealed(L) = L
<1>1. PICK n \in Nat : n = Len(L) /\ DOMAIN L = 1..n
  OBVIOUS
<1>2. ASSUME NEW k \in 1..n, NEW p PROVE Store!Seal(L[k], p) = L[k]
  <2>1. L[k] \in Items(L)
    BY <1>1, ItemIn
  <2> QED
    BY <2>1 DEF Store!Seal, Store!Unsealed
<1> DEFINE Step(z, k) == IF k = 0 THEN <<>> ELSE <<Store!Seal(L[n + 1 - k], Store!Newest(z[k - 1]))>> \o z[k - 1]
<1> DEFINE F == [k \in 0..n |-> SubSeq(L, n + 1 - k, n)]
<1>3. ASSUME NEW z, NEW k \in 0..n, k # 0 => z[k - 1] = SubSeq(L, n + 1 - (k - 1), n)
      PROVE  Step(z, k) = SubSeq(L, n + 1 - k, n)
  <2>1. CASE k = 0
    <3>1. SubSeq(L, n + 1, n) = <<>>
      BY SubSeqEmpty
    <3> QED
      BY <2>1, <3>1
  <2>2. CASE k # 0
    <3>1. PICK m \in 1..n : m = n + 1 - k /\ n + 1 - (k - 1) = m + 1 /\ n \in m..n
      <4>1. n + 1 - k \in 1..n /\ n + 1 - (k - 1) = (n + 1 - k) + 1 /\ n \in (n + 1 - k)..n
        BY <2>2
      <4> QED
        BY <4>1
    <3>2. SubSeq(L, m, n) = <<L[m]>> \o SubSeq(L, m + 1, n)
      BY <1>1, <3>1, SubSeqRecursiveFirst, Zenon
    <3>3. Step(z, k) = <<Store!Seal(L[m], Store!Newest(z[k - 1]))>> \o z[k - 1]
      BY <2>2, <3>1
    <3> QED
      BY <1>2, <1>3, <2>2, <3>1, <3>2, <3>3, Zenon
  <2> QED
    BY <2>1, <2>2
<1> DEFINE Z == CHOOSE z : z = [k \in 0..Len(L) |-> IF k = 0 THEN <<>>
                                  ELSE <<Store!Seal(L[Len(L) + 1 - k], Store!Newest(z[k - 1]))>> \o z[k - 1]]
<1>4. Store!Sealed(L) = Z[n]
  BY <1>1 DEF Store!Sealed
<1>5. Z = [k \in 0..n |-> Step(Z, k)]
  <2>1. F = [k \in 0..n |-> Step(F, k)]
    <3>1. ASSUME NEW k \in 0..n PROVE Step(F, k) = SubSeq(L, n + 1 - k, n)
      <4>1. k # 0 => k - 1 \in 0..n
        OBVIOUS
      <4>2. k # 0 => F[k - 1] = SubSeq(L, n + 1 - (k - 1), n)
        BY <4>1
      <4> HIDE DEF F, Step
      <4> QED
        BY <1>3, <4>2
    <3> HIDE DEF Step
    <3>2. \A k \in 0..n : Step(F, k) = SubSeq(L, n + 1 - k, n)
      BY <3>1, Zenon
    <3>3. PICK g : g = [k \in 0..n |-> Step(F, k)]
      BY Zenon
    <3>4. g = [k \in 0..n |-> SubSeq(L, n + 1 - k, n)]
      BY <3>2, <3>3, Zenon
    <3> QED
      BY <3>3, <3>4, Zenon
  <2>2. F = [k \in 0..Len(L) |-> IF k = 0 THEN <<>>
                                 ELSE <<Store!Seal(L[Len(L) + 1 - k], Store!Newest(F[k - 1]))>> \o F[k - 1]]
    <3> HIDE DEF F
    <3> QED
      BY <1>1, <2>1, Zenon
  <2>3. Z = [k \in 0..Len(L) |-> IF k = 0 THEN <<>>
                                 ELSE <<Store!Seal(L[Len(L) + 1 - k], Store!Newest(Z[k - 1]))>> \o Z[k - 1]]
    <3> HIDE DEF F
    <3> QED
      BY <2>2, Zenon
  <2> HIDE DEF Z, F
  <2> QED
    BY <1>1, <2>3, Zenon
<1> HIDE DEF Z, F, Step
<1> DEFINE P == {k \in Nat : k <= n => Z[k] = SubSeq(L, n + 1 - k, n)}
<1>6. 0 \in P
  <2>1. 0 \in 0..n /\ Z[0] = Step(Z, 0)
    BY <1>5
  <2> QED
    BY <1>3, <2>1
<1>7. ASSUME NEW k \in P PROVE k + 1 \in P
  <2>1. CASE k + 1 <= n
    <3>1. k + 1 \in 0..n /\ k <= n /\ (k + 1) - 1 = k
      BY <2>1
    <3>2. Z[k + 1] = Step(Z, k + 1)
      BY <1>5, <3>1, Zenon
    <3>3. Z[(k + 1) - 1] = SubSeq(L, n + 1 - ((k + 1) - 1), n)
      BY <1>7, <3>1, Zenon
    <3>4. Z[k + 1] = SubSeq(L, n + 1 - (k + 1), n)
      BY <1>3, <3>1, <3>2, <3>3
    <3> QED
      BY <3>1, <3>4
  <2>2. CASE ~(k + 1 <= n)
    BY <2>2
  <2> QED
    BY <2>1, <2>2
<1>8. n \in P
  <2>1. P \in SUBSET Nat
    OBVIOUS
  <2> HIDE DEF P
  <2>2. P = Nat
    BY <1>6, <1>7, <2>1, NatSetInduction
  <2> QED
    BY <2>2
<1>9. Z[n] = SubSeq(L, 1, n)
  <2>1. n + 1 - n = 1
    OBVIOUS
  <2> QED
    BY <1>8, <2>1
<1> QED
  BY <1>1, <1>4, <1>9, SubSeqFull

\* a new capture, linked to p
Capture(i, p) == [id |-> i, body |-> "captured", review |-> "unreviewed", source |-> "ai",
                  prev |-> p, hash |-> <<i, "captured", p>>]

LEMMA SealsCapture == \A i, p : Store!Seal(Store!Captured(i), p) = Capture(i, p)
<1> SUFFICES ASSUME NEW i, NEW p PROVE Store!Seal(Store!Captured(i), p) = Capture(i, p)
  OBVIOUS
<1>1. PICK g, u, r : g = Store!Genesis /\ u = Store!Unsealed /\ r = Store!Captured(i)
  OBVIOUS
<1>2. r = [id |-> i, body |-> "captured", review |-> "unreviewed", source |-> "ai", prev |-> g, hash |-> u]
  BY <1>1 DEF Store!Captured
<1>3. PICK h : h = Store!EventHash(r, p)
  OBVIOUS
<1>4. h = <<i, "captured", p>>
  BY <1>2, <1>3 DEF Store!EventHash
<1>5. PICK q : q = [r EXCEPT !.prev = p]
  BY Zenon
<1>6. q = [id |-> i, body |-> "captured", review |-> "unreviewed", source |-> "ai", prev |-> p, hash |-> u]
  BY <1>2, <1>5
<1>7. [q EXCEPT !.hash = h] = [id |-> i, body |-> "captured", review |-> "unreviewed", source |-> "ai", prev |-> p, hash |-> h]
  BY <1>6
<1>8. Store!Seal(r, p) = [q EXCEPT !.hash = h]
  <2>1. r.hash = Store!Unsealed
    BY <1>1, <1>2
  <2>2. Store!Seal(r, p) = [r EXCEPT !.prev = p, !.hash = h]
    BY <1>3, <2>1, Zenon DEF Store!Seal
  <2>3. [r EXCEPT !.prev = p, !.hash = h] = [q EXCEPT !.hash = h]
    BY <1>5, Zenon
  <2> QED
    BY <2>2, <2>3
<1> QED
  BY <1>1, <1>4, <1>7, <1>8 DEF Capture

\* the store of a version without a chain
Old == <<Store!Captured(1)>>

OldSealed == Capture(1, Store!Genesis)

LEMMA SealedOld == Store!Sealed(Old) = <<OldSealed>>
<1>1. Len(Old) = 1 /\ Old[1] = Store!Captured(1) /\ Len(Old) + 1 - 1 = 1
  BY DEF Old
<1>2. Store!Seal(Old[1], Store!Newest(<<>>)) = OldSealed
  <2>1. Store!Newest(<<>>) = Store!Genesis
    BY DEF Store!Newest
  <2> QED
    BY <1>1, <2>1, SealsCapture DEF OldSealed
<1> DEFINE Step(z, k) == IF k = 0 THEN <<>> ELSE <<Store!Seal(Old[Len(Old) + 1 - k], Store!Newest(z[k - 1]))>> \o z[k - 1]
<1> DEFINE F == [k \in 0..1 |-> IF k = 0 THEN <<>> ELSE <<OldSealed>>]
<1> DEFINE Z == CHOOSE z : z = [k \in 0..Len(Old) |-> IF k = 0 THEN <<>>
                                  ELSE <<Store!Seal(Old[Len(Old) + 1 - k], Store!Newest(z[k - 1]))>> \o z[k - 1]]
<1>3. Store!Sealed(Old) = Z[1]
  BY <1>1 DEF Store!Sealed
<1>4. ASSUME NEW z, z[0] = <<>> PROVE Step(z, 1) = <<OldSealed>>
  <2>1. Step(z, 1) = <<OldSealed>> \o <<>>
    <3>1. Step(z, 1) = <<Store!Seal(Old[1], Store!Newest(z[0]))>> \o z[0]
      BY <1>1
    <3> QED
      BY <1>2, <1>4, <3>1
  <2>2. <<OldSealed>> \o <<>> = <<OldSealed>>
    OBVIOUS
  <2> QED
    BY <2>1, <2>2
<1>5. F = [k \in 0..1 |-> Step(F, k)]
  <2>1. F[0] = <<>> /\ F[1] = <<OldSealed>>
    OBVIOUS
  <2>2. Step(F, 1) = <<OldSealed>> /\ Step(F, 0) = <<>>
    BY <1>4, <2>1, Zenon
  <2>3. \A k \in 0..1 : k = 0 \/ k = 1
    OBVIOUS
  <2> HIDE DEF Step
  <2> QED
    BY <2>2, <2>3
<1>6. Z = [k \in 0..1 |-> Step(Z, k)]
  <2>1. F = [k \in 0..Len(Old) |-> IF k = 0 THEN <<>>
                                 ELSE <<Store!Seal(Old[Len(Old) + 1 - k], Store!Newest(F[k - 1]))>> \o F[k - 1]]
    <3> HIDE DEF F
    <3> QED
      BY <1>1, <1>5, Zenon
  <2>2. Z = [k \in 0..Len(Old) |-> IF k = 0 THEN <<>>
                                 ELSE <<Store!Seal(Old[Len(Old) + 1 - k], Store!Newest(Z[k - 1]))>> \o Z[k - 1]]
    <3> HIDE DEF F
    <3> QED
      BY <2>1, Zenon
  <2> HIDE DEF Z, F
  <2> QED
    BY <1>1, <2>2, Zenon
<1> HIDE DEF Z, F
<1>7. Z[0] = <<>>
  BY <1>6
<1>8. Z[1] = Step(Z, 1)
  <2> HIDE DEF Step
  <2> QED
    BY <1>6
<1> HIDE DEF Step
<1> QED
  BY <1>3, <1>4, <1>7, <1>8

-------------------------------------------------------------------------------
Shaped(x) == x = [id |-> x.id, body |-> x.body, review |-> x.review, source |-> x.source,
                  prev |-> x.prev, hash |-> x.hash]

\* a sealed capture, changed if it is one of e, with an id before n, as is that of the one it is linked to
Genuine(x, e, n) ==
  /\ Shaped(x) /\ x.id \in Nat /\ x.id < n
  /\ x.hash = <<x.id, "captured", x.prev>>
  /\ x.id \in e <=> x.body # "captured"
  /\ x.prev # Store!Genesis => x.prev[1] \in Nat /\ x.prev[1] < n

\* one hash per id
Agreeing(S) == \A x, y \in S : /\ x.id = y.id => x.hash = y.hash
                               /\ x.prev # Store!Genesis /\ x.prev[1] = y.id => x.prev = y.hash

Honest(S, e, n) == (\A x \in S : Genuine(x, e, n)) /\ Agreeing(S)

OneEach(S) == \A x, y \in S : x.id = y.id => x = y
Listed(L) == L \in Seq(Items(L)) /\ Distinct(L) /\ OneEach(Items(L))

LEMMA HonestLess ==
  ASSUME NEW S, NEW e, NEW n, Honest(S, e, n), NEW T \in SUBSET S
  PROVE  Honest(T, e, n)
  BY DEF Honest, Agreeing

\* a copy with another review or source
LEMMA HonestTwin ==
  ASSUME NEW S, NEW e, NEW n, Honest(S, e, n), NEW x \in S, NEW y, Shaped(y),
         y.id = x.id, y.body = x.body, y.prev = x.prev, y.hash = x.hash
  PROVE  Honest(S \cup {y}, e, n)
<1>1. Genuine(x, e, n)
  BY DEF Honest
<1>2. Genuine(y, e, n)
  BY <1>1 DEF Genuine
<1>3. ASSUME NEW u \in S \cup {y}, NEW v \in S \cup {y}
      PROVE  /\ u.id = v.id => u.hash = v.hash
             /\ u.prev # Store!Genesis /\ u.prev[1] = v.id => u.prev = v.hash
  <2>1. PICK a \in S : a.id = u.id /\ a.prev = u.prev /\ a.hash = u.hash
    OBVIOUS
  <2>2. PICK b \in S : b.id = v.id /\ b.prev = v.prev /\ b.hash = v.hash
    OBVIOUS
  <2> QED
    BY <2>1, <2>2 DEF Honest, Agreeing
<1> QED
  BY <1>2, <1>3 DEF Honest, Agreeing

LEMMA CaptureFields ==
  \A i, p : LET c == Capture(i, p) IN
    Shaped(c) /\ c.id = i /\ c.body = "captured" /\ c.prev = p /\ c.hash = <<i, "captured", p>>
  BY DEF Capture, Shaped

LEMMA HonestCapture ==
  ASSUME NEW S, NEW e, NEW n \in Nat, Honest(S, e, n), n \notin e,
         NEW p, p = Store!Genesis \/ \E h \in S : p = h.hash
  PROVE  Honest(S \cup {Capture(n, p)}, e, n + 1)
<1>1. PICK c : /\ c = Capture(n, p)
               /\ Shaped(c) /\ c.id = n /\ c.body = "captured" /\ c.prev = p /\ c.hash = <<n, "captured", p>>
  BY CaptureFields
<1>2. ASSUME p # Store!Genesis
      PROVE  \E h \in S : p = h.hash /\ p[1] = h.id /\ h.id \in Nat /\ h.id < n
  <2>1. PICK h \in S : p = h.hash
    BY <1>2
  <2> QED
    BY <2>1 DEF Honest, Genuine
<1>3. Genuine(c, e, n + 1)
  <2>1. p # Store!Genesis => p[1] \in Nat /\ p[1] < n + 1
    BY <1>2
  <2> QED
    BY <1>1, <2>1 DEF Genuine
<1>4. ASSUME NEW x \in S PROVE Genuine(x, e, n + 1)
  <2>1. Genuine(x, e, n)
    BY DEF Honest
  <2> QED
    BY <2>1 DEF Genuine
<1>5. ASSUME NEW x \in S \cup {c}, NEW y \in S \cup {c}
      PROVE  /\ x.id = y.id => x.hash = y.hash
             /\ x.prev # Store!Genesis /\ x.prev[1] = y.id => x.prev = y.hash
  <2>1. CASE x \in S /\ y \in S
    BY <2>1 DEF Honest, Agreeing
  <2>2. CASE x \in S /\ y = c
    <3>1. Genuine(x, e, n)
      BY <2>2 DEF Honest
    <3>2. x.id # n /\ (x.prev # Store!Genesis => x.prev[1] # n)
      BY <3>1 DEF Genuine
    <3> QED
      BY <1>1, <2>2, <3>2
  <2>3. CASE x = c /\ y \in S
    <3>1. Genuine(y, e, n)
      BY <2>3 DEF Honest
    <3>2. y.id # n
      BY <3>1 DEF Genuine
    <3>3. ASSUME p # Store!Genesis, p[1] = y.id PROVE p = y.hash
      <4>1. PICK h \in S : p = h.hash /\ p[1] = h.id
        BY <1>2, <3>3
      <4>2. h.hash = y.hash
        BY <2>3, <3>3, <4>1 DEF Honest, Agreeing
      <4> QED
        BY <4>1, <4>2
    <3> QED
      BY <1>1, <2>3, <3>2, <3>3
  <2>4. CASE x = c /\ y = c
    <3>1. p # Store!Genesis => p[1] # n
      BY <1>2
    <3> QED
      BY <1>1, <2>4, <3>1
  <2> QED
    BY <2>1, <2>2, <2>3, <2>4
<1> QED
  BY <1>1, <1>3, <1>4, <1>5 DEF Honest, Agreeing

\* a body is changed in the file
LEMMA HonestEdited ==
  ASSUME NEW S, NEW e, NEW n, Honest(S, e, n), OneEach(S), NEW x \in S, NEW y, y = [x EXCEPT !.body = "edited"]
  PROVE  /\ Honest((S \ {x}) \cup {y}, e \cup {x.id}, n)
         /\ y.id = x.id /\ x.id \in Nat /\ x.id < n /\ y.hash = x.hash /\ y.hash # <<>>
<1>1. Genuine(x, e, n)
  BY DEF Honest
<1>2. Shaped(y) /\ y.id = x.id /\ y.body = "edited" /\ y.prev = x.prev /\ y.hash = x.hash
  BY <1>1 DEF Genuine, Shaped
<1>3. Genuine(y, e \cup {x.id}, n)
  BY <1>1, <1>2 DEF Genuine
<1>4. ASSUME NEW z \in S \ {x} PROVE Genuine(z, e \cup {x.id}, n)
  <2>1. Genuine(z, e, n) /\ z.id # x.id
    BY DEF Honest, OneEach
  <2> QED
    BY <2>1 DEF Genuine
<1>5. ASSUME NEW u \in (S \ {x}) \cup {y}, NEW v \in (S \ {x}) \cup {y}
      PROVE  /\ u.id = v.id => u.hash = v.hash
             /\ u.prev # Store!Genesis /\ u.prev[1] = v.id => u.prev = v.hash
  <2>1. PICK a \in S : a.id = u.id /\ a.prev = u.prev /\ a.hash = u.hash
    BY <1>2, Zenon
  <2>2. PICK b \in S : b.id = v.id /\ b.prev = v.prev /\ b.hash = v.hash
    BY <1>2, Zenon
  <2> QED
    BY <2>1, <2>2 DEF Honest, Agreeing
<1>6. x.hash # <<>>
  BY <1>1 DEF Genuine
<1> QED
  BY <1>1, <1>2, <1>3, <1>4, <1>5, <1>6, Zenon DEF Honest, Agreeing, Genuine

\* an honest list is sealed
LEMMA HonestSealed ==
  ASSUME NEW L, Listed(L), NEW e, NEW n, Honest(Items(L), e, n)
  PROVE  L # Old /\ Store!Sealed(L) = L
<1>1. \A x \in Items(L) : x.hash # <<>>
  BY DEF Honest, Genuine
<1>2. L # Old
  <2>1. Store!Captured(1) \in Items(Old)
    BY DEF Old, Items
  <2>2. Store!Captured(1).hash = <<>>
    BY DEF Store!Captured, Store!Unsealed
  <2> QED
    BY <1>1, <2>1, <2>2
<1> QED
  BY <1>1, <1>2, SealedAlready DEF Listed

\* what the verifier says of honest captures
LEMMA VerdictOfHonest ==
  ASSUME NEW n, Honest(Items(sorecords), soedited, n)
  PROVE  Store!VerdictExact
<1>1. Store!Tampered = soedited \cap Store!IdsOf(sorecords)
  <2>1. \A x \in Items(sorecords) : x.hash # Store!EventHash(x, x.prev) <=> x.id \in soedited
    BY DEF Honest, Genuine, Store!EventHash
  <2> QED
    BY <2>1, StoreItems DEF Store!Tampered, Store!IdsOf
<1>2. ASSUME NEW x \in Items(sorecords), x.prev # Store!Genesis
      PROVE  (\A y \in Items(sorecords) : y.hash # x.prev) <=> x.prev[1] \notin Store!IdsOf(sorecords)
  <2>1. ASSUME NEW y \in Items(sorecords) PROVE y.hash = x.prev <=> y.id = x.prev[1]
    <3>1. y.hash = <<y.id, "captured", y.prev>>
      BY DEF Honest, Genuine
    <3> QED
      BY <1>2, <3>1 DEF Honest, Agreeing
  <2>2. x.prev[1] \in Store!IdsOf(sorecords) <=> \E y \in Items(sorecords) : y.id = x.prev[1]
    BY StoreItems DEF Store!IdsOf
  <2> QED
    BY <2>1, <2>2
<1>3. Store!Broken = {r.id : r \in {x \in Items(sorecords) : x.prev # Store!Genesis
                                                             /\ x.prev[1] \notin Store!IdsOf(sorecords)}}
  BY <1>2, StoreItems DEF Store!Broken
<1> QED
  BY <1>1, <1>3, StoreItems DEF Store!VerdictExact

-------------------------------------------------------------------------------
(* The lists the operations make. *)

LEMMA ListedFrom ==
  ASSUME NEW L, Listed(L), NEW M \in Seq(Items(L)), Distinct(M)
  PROVE  Listed(M) /\ Items(M) \subseteq Items(L)
<1>1. DOMAIN M = 1..Len(M) /\ \A i \in DOMAIN M : M[i] \in Items(L)
  OBVIOUS
<1>2. Items(M) \subseteq Items(L)
  BY <1>1 DEF Items
<1>3. M \in Seq(Items(M))
  <2>1. \A i \in 1..Len(M) : M[i] \in Items(M)
    BY <1>1 DEF Items
  <2>2. PICK S : S = Items(M)
    OBVIOUS
  <2>3. M \in Seq(S)
    BY <2>1, <2>2
  <2> QED
    BY <2>2, <2>3
<1> QED
  BY <1>2, <1>3 DEF Listed, OneEach

LEMMA ListedEmpty == Listed(<<>>) /\ Items(<<>>) = {}
<1>1. <<>> \in Seq({})
  OBVIOUS
<1> QED
  BY <1>1, ItemsEmpty DEF Listed, OneEach, Distinct

LEMMA ListedKept ==
  ASSUME NEW L, Listed(L), NEW T
  PROVE  Listed(Kept(L, T)) /\ Items(Kept(L, T)) \subseteq Items(L)
<1>1. Kept(L, T) \in Seq(Items(L)) /\ Distinct(Kept(L, T))
  BY ItemsKept DEF Listed
<1> QED
  BY <1>1, ListedFrom

\* the front of a list
LEMMA ListedCut ==
  ASSUME NEW L, Listed(L), NEW m \in 0..Len(L)
  PROVE  Listed(SubSeq(L, 1, m)) /\ Items(SubSeq(L, 1, m)) \subseteq Items(L)
<1>1. L \in Seq(Items(L)) /\ 1 \in 1..(Len(L) + 1) /\ Distinct(L)
  BY DEF Listed
<1>2. SubSeq(L, 1, m) \in Seq(Items(L))
  BY <1>1, ItemsSubSeq
<1>3. Distinct(SubSeq(L, 1, m))
  BY <1>1, DistinctSubSeq
<1> QED
  BY <1>2, <1>3, ListedFrom, Zenon

\* a new capture in front
LEMMA ListedFront ==
  ASSUME NEW L, Listed(L), NEW c, \A x \in Items(L) : x.id # c.id
  PROVE  Listed(<<c>> \o L) /\ Items(<<c>> \o L) = {c} \cup Items(L)
<1>1. PICK S : S = {c} \cup Items(L)
  BY Zenon
<1>2. L \in Seq(S) /\ Distinct(L)
  BY <1>1 DEF Listed
<1>3. <<c>> \in Seq(S) /\ Items(<<c>>) = {c}
  BY <1>1, ItemsSingle
<1>4. Distinct(<<c>>)
  BY DEF Distinct
<1>5. Items(<<c>>) \cap Items(L) = {}
  BY <1>3
<1>6. <<c>> \o L \in Seq(S) /\ Items(<<c>> \o L) = S
  <2>1. PICK d : d = <<c>>
    BY Zenon
  <2>2. d \in Seq(S) /\ Items(d) = {c}
    BY <1>3, <2>1
  <2>3. d \o L \in Seq(S) /\ Items(d \o L) = Items(d) \cup Items(L)
    BY <1>2, <2>2, ItemsConcat
  <2> QED
    BY <1>1, <2>1, <2>2, <2>3
<1>7. Distinct(<<c>> \o L)
  BY <1>2, <1>3, <1>4, <1>5, DistinctConcat, Zenon
<1>8. OneEach(S)
  BY <1>1 DEF OneEach, Listed
<1> QED
  BY <1>1, <1>6, <1>7, <1>8, Zenon DEF Listed

\* one capture is replaced by one of the same id
LEMMA ListedUpdate ==
  ASSUME NEW L, Listed(L), NEW k \in DOMAIN L, NEW y, y.id = L[k].id, NEW M, M = [L EXCEPT ![k] = y]
  PROVE  Listed(M) /\ Items(M) = (Items(L) \ {L[k]}) \cup {y} /\ L[k] \in Items(L)
<1>1. PICK n \in Nat : n = Len(L) /\ DOMAIN L = 1..n
  BY DEF Listed
<1>2. DOMAIN M = 1..n /\ \A i \in 1..n : M[i] = IF i = k THEN y ELSE L[i]
  <2>1. L \in [1..n -> Items(L)]
    BY <1>1 DEF Listed
  <2> QED
    BY <1>1, <2>1
<1>3. \A i \in 1..n : L[i] \in Items(L) /\ (L[i] = L[k] <=> i = k)
  BY <1>1 DEF Items, Listed, Distinct
<1>4. Items(M) = (Items(L) \ {L[k]}) \cup {y}
  <2>1. ASSUME NEW z \in Items(M) PROVE z \in (Items(L) \ {L[k]}) \cup {y}
    <3>1. PICK i \in 1..n : z = M[i]
      BY <1>2 DEF Items
    <3> QED
      BY <1>2, <1>3, <3>1
  <2>2. ASSUME NEW z \in Items(L) \ {L[k]} PROVE z \in Items(M)
    <3>1. PICK i \in 1..n : z = L[i] /\ i # k
      BY <1>1 DEF Items
    <3> QED
      BY <1>2, <3>1 DEF Items
  <2>3. y \in Items(M)
    BY <1>1, <1>2 DEF Items
  <2> QED
    BY <2>1, <2>2, <2>3, Zenon
<1>5. M \in Seq(Items(M))
  <2>1. \A i \in 1..n : M[i] \in Items(M)
    BY <1>2 DEF Items
  <2>2. PICK S : S = Items(M)
    OBVIOUS
  <2>3. M = [i \in 1..n |-> M[i]]
    <3>1. L = [i \in 1..n |-> L[i]]
      BY <1>1 DEF Listed
    <3>2. M = [i \in 1..n |-> IF i = k THEN y ELSE L[i]]
      BY <1>1, <3>1, Zenon
    <3> QED
      BY <1>2, <3>2, Zenon
  <2>4. M \in [1..n -> S]
    BY <2>1, <2>2, <2>3, Zenon
  <2>5. M \in Seq(S)
    BY <2>4, FunctionSeq, Zenon
  <2> QED
    BY <2>2, <2>5
<1>6. Distinct(M)
  <2>1. ASSUME NEW i \in 1..n, NEW j \in 1..n, M[i] = M[j] PROVE i = j
    <3>1. M[i].id = L[i].id /\ M[j].id = L[j].id
      BY <1>2
    <3>2. L[i] = L[j]
      BY <1>3, <2>1, <3>1 DEF Listed, OneEach
    <3> QED
      BY <1>1, <3>2 DEF Listed, Distinct
  <2> QED
    BY <1>2, <2>1 DEF Distinct
<1>7. OneEach(Items(M))
  BY <1>1, <1>3, <1>4 DEF OneEach, Listed
<1> QED
  BY <1>1, <1>3, <1>4, <1>5, <1>6, <1>7, Zenon DEF Listed

\* dragged captures between the others
LEMMA ListedMoved ==
  ASSUME NEW L, Listed(L), NEW D \in SUBSET Items(L), NEW p \in 0..Len(L), NEW moved \in Store!Injection(1..Cardinality(D), D),
         NEW a, a = Kept(SubSeq(L, 1, p), Items(L) \ D),
         NEW b, b = Kept(SubSeq(L, p + 1, Len(L)), Items(L) \ D)
  PROVE  Listed(a \o moved \o b) /\ Items(a \o moved \o b) \subseteq Items(L)
<1>0. PICK S : S = Items(L)
  OBVIOUS
<1>1. PICK n \in Nat : S = Items(L) /\ n = Len(L) /\ DOMAIN L = 1..n /\ L \in Seq(S) /\ Distinct(L)
  BY <1>0 DEF Listed
<1>2. 1 \in 1..(Len(L) + 1) /\ p + 1 \in 1..(Len(L) + 1) /\ n \in 0..Len(L)
  BY <1>1
<1>3. PICK x \in Seq(S) : x = SubSeq(L, 1, p) /\ Items(x) = {L[i] : i \in 1..p} /\ Distinct(x)
  BY <1>1, <1>2, ItemsSubSeq, DistinctSubSeq, Zenon
<1>4. PICK y \in Seq(S) : y = SubSeq(L, p + 1, n) /\ Items(y) = {L[i] : i \in (p + 1)..n} /\ Distinct(y)
  BY <1>1, <1>2, ItemsSubSeq, DistinctSubSeq, Zenon
<1>5. Items(x) \cap Items(y) = {}
  <2>1. ASSUME NEW i \in 1..p, NEW j \in (p + 1)..n PROVE L[i] # L[j]
    <3>1. i \in 1..n /\ j \in 1..n /\ i # j
      BY <1>1
    <3> QED
      BY <1>1, <3>1, Zenon DEF Distinct
  <2> QED
    BY <1>3, <1>4, <2>1, Zenon
<1>6. a \in Seq(S) /\ Items(a) = Items(x) \ D /\ Distinct(a)
  <2>1. a = Kept(x, S \ D) /\ Items(x) \subseteq S
    BY <1>1, <1>3, ItemsAre
  <2>2. PICK T : T = S \ D
    BY Zenon
  <2>3. Kept(x, T) \in Seq(S) /\ Items(Kept(x, T)) = Items(x) \cap T
    BY ItemsKept
  <2>4. Distinct(Kept(x, T))
    BY <1>3, ItemsKept, Zenon
  <2> QED
    BY <2>1, <2>2, <2>3, <2>4, Zenon
<1>7. b \in Seq(S) /\ Items(b) = Items(y) \ D /\ Distinct(b)
  <2>1. b = Kept(y, S \ D) /\ Items(y) \subseteq S
    BY <1>1, <1>4, ItemsAre
  <2>2. PICK T : T = S \ D
    BY Zenon
  <2>3. Kept(y, T) \in Seq(S) /\ Items(Kept(y, T)) = Items(y) \cap T
    BY ItemsKept
  <2>4. Distinct(Kept(y, T))
    BY <1>4, ItemsKept, Zenon
  <2> QED
    BY <2>1, <2>2, <2>3, <2>4, Zenon
<1>8. moved \in Seq(S) /\ Items(moved) \subseteq D /\ Distinct(moved)
  <2>1. IsFiniteSet(D)
    <3>1. S = {L[i] : i \in 1..n}
      BY <1>1 DEF Items
    <3>2. IsFiniteSet(1..n)
      BY <1>1, FS_Interval
    <3>3. L \in Surjection(1..n, S)
      BY <1>1, <3>1 DEF Surjection
    <3> QED
      BY <1>1, <3>2, <3>3, FS_Surjection, FS_Subset
  <2>2. PICK m \in Nat : m = Cardinality(D)
    BY <2>1, FS_CardinalityType
  <2>3. moved \in Store!Injection(1..m, D)
    BY <2>2
  <2>4. moved \in [1..m -> D] /\ \A i, j \in 1..m : i # j => moved[i] # moved[j]
    BY <2>3, Zenon DEF Store!Injection, Store!IsInjective
  <2>5. DOMAIN moved = 1..m /\ moved \in [1..m -> S] /\ \A i \in 1..m : moved[i] \in D
    BY <1>1, <2>4
  <2>6. moved \in Seq(S)
    BY <2>5
  <2> QED
    BY <2>4, <2>5, <2>6 DEF Items, Distinct
<1>9. PICK am : am = a \o moved
  BY Zenon
<1>10. am \in Seq(S) /\ Items(am) = Items(a) \cup Items(moved) /\ Distinct(am)
  BY <1>6, <1>8, <1>9, ItemsConcat, DistinctConcat, Zenon
<1>11. Items(am) \cap Items(b) = {}
  BY <1>5, <1>6, <1>7, <1>8, <1>10, Zenon
<1>12. am \o b \in Seq(S) /\ Distinct(am \o b)
  BY <1>7, <1>10, <1>11, ItemsConcat, DistinctConcat, Zenon
<1> QED
  BY <1>1, <1>9, <1>12, ListedFrom, Zenon

-------------------------------------------------------------------------------
(* The invariant of the store. *)

Under(W) == IF W = <<>> THEN {} ELSE Items(W[1])
Stored(K) == IF K = Old THEN {} ELSE Items(K)

\* R: memory, D: the file, W: what is being written, o: open, n: next id, e: changed in the file
StoreOk(R, D, W, o, n, e) ==
  /\ n \in Nat /\ 1 < n /\ \A i \in e : i \in Nat /\ i < n
  /\ Listed(R)
  /\ D = [good |-> D.good, recs |-> D.recs] /\ Listed(D.recs) /\ (D.recs = Old => 1 \notin e)
  /\ W = <<>> \/ \E L : W = <<L>> /\ Listed(L)
  /\ Honest(Items(R) \cup Under(W) \cup Stored(D.recs), e, n)
  /\ ~o => R = <<>> /\ W = <<>>

StoreInv == StoreOk(sorecords, sodisk, sowriting, soopen, sonextId, soedited)

\* a file that holds one of the honest lists
LEMMA Shelve ==
  ASSUME NEW L, Listed(L), NEW e, NEW n, Honest(Items(L), e, n), NEW g, NEW D, D = [good |-> g, recs |-> L]
  PROVE  /\ D = [good |-> D.good, recs |-> D.recs] /\ Listed(D.recs) /\ D.recs # Old
         /\ Stored(D.recs) = Items(L)
<1>1. L # Old
  BY HonestSealed
<1> QED
  BY <1>1 DEF Stored

\* memory, file and write take what is there already
LEMMA StoreShift ==
  ASSUME NEW R, NEW D, NEW W, NEW o, NEW n, NEW e, StoreOk(R, D, W, o, n, e),
         NEW S, NEW T, NEW X, NEW p,
         Listed(S), Items(S) \subseteq Items(R) \cup Under(W) \cup Stored(D.recs),
         T \in {D, [good |-> TRUE, recs |-> R], [good |-> FALSE, recs |-> R], [good |-> TRUE, recs |-> <<>>]}
               \cup (IF W = <<>> THEN {} ELSE {[good |-> TRUE, recs |-> W[1]]}),
         X \in {<<>>, W, <<R>>},
         ~p => S = <<>> /\ X = <<>>
  PROVE  StoreOk(S, T, X, p, n, e)
<1> DEFINE A == Items(R) \cup Under(W) \cup Stored(D.recs)
<1>1. Honest(A, e, n) /\ Listed(R)
  BY DEF StoreOk
<1>2. Honest(Items(R), e, n)
  BY <1>1, HonestLess
<1>3. W # <<>> => Listed(W[1]) /\ Under(W) = Items(W[1]) /\ Honest(Items(W[1]), e, n)
  <2>1. ASSUME W # <<>> PROVE Listed(W[1]) /\ Under(W) = Items(W[1])
    BY <2>1 DEF StoreOk, Under
  <2> QED
    BY <1>1, <2>1, HonestLess
<1>4. Honest({}, e, n)
  BY <1>1, HonestLess
<1>5. /\ T = [good |-> T.good, recs |-> T.recs] /\ Listed(T.recs) /\ (T.recs = Old => 1 \notin e)
      /\ Stored(T.recs) \subseteq A
  <2>1. CASE T = D
    BY <2>1 DEF StoreOk
  <2>2. CASE T = [good |-> TRUE, recs |-> R] \/ T = [good |-> FALSE, recs |-> R]
    BY <1>1, <1>2, <2>2, Shelve
  <2>3. CASE T = [good |-> TRUE, recs |-> <<>>]
    <3>1. PICK E : E = <<>> /\ Listed(E) /\ Items(E) = {}
      BY ListedEmpty
    <3>2. Honest(Items(E), e, n) /\ T = [good |-> TRUE, recs |-> E]
      BY <1>4, <2>3, <3>1
    <3> QED
      BY <3>1, <3>2, Shelve
  <2>4. CASE W # <<>> /\ T = [good |-> TRUE, recs |-> W[1]]
    BY <1>3, <2>4, Shelve
  <2> QED
    BY <2>1, <2>2, <2>3, <2>4
<1>6. (X = <<>> \/ \E L : X = <<L>> /\ Listed(L)) /\ Under(X) \subseteq A
  <2>1. CASE X = <<>>
    BY <2>1 DEF Under
  <2>2. CASE X = W
    BY <2>2 DEF StoreOk
  <2>3. CASE X = <<R>>
    BY <1>1, <2>3 DEF Under
  <2> QED
    BY <2>1, <2>2, <2>3
<1>7. Honest(Items(S) \cup Under(X) \cup Stored(T.recs), e, n)
  BY <1>1, <1>5, <1>6, HonestLess
<1> QED
  BY <1>5, <1>6, <1>7 DEF StoreOk

LEMMA StoreInit == Store!Init => StoreInv
<1> SUFFICES ASSUME Store!Init PROVE StoreInv
  OBVIOUS
<1>1. Listed(<<>>) /\ Items(<<>>) = {} /\ <<>> # Old
  BY ListedEmpty DEF Old
<1>2. Listed(Old)
  <2>1. PICK c : c = Store!Captured(1)
    OBVIOUS
  <2>2. Listed(<<c>> \o <<>>)
    BY <1>1, ListedFront, Zenon
  <2>3. <<c>> \o <<>> = <<c>>
    OBVIOUS
  <2> QED
    BY <2>1, <2>2, <2>3 DEF Old
<1>3. Honest({}, soedited, sonextId)
  BY DEF Honest, Agreeing
<1>4. sodisk = [good |-> TRUE, recs |-> <<>>] \/ sodisk = [good |-> TRUE, recs |-> Old]
  BY DEF Store!Init, Old
<1>5. /\ sodisk = [good |-> sodisk.good, recs |-> sodisk.recs] /\ Listed(sodisk.recs)
      /\ Stored(sodisk.recs) = {}
  BY <1>1, <1>2, <1>4 DEF Stored
<1>6. Items(sorecords) \cup Under(sowriting) \cup Stored(sodisk.recs) = {}
  BY <1>1, <1>5 DEF Store!Init, Under
<1>7. Honest(Items(sorecords) \cup Under(sowriting) \cup Stored(sodisk.recs), soedited, sonextId)
  BY <1>3, <1>6
<1>8. sorecords = <<>> /\ sowriting = <<>> /\ sonextId = 2 /\ soedited = {}
  BY DEF Store!Init
<1>9. Listed(sorecords)
  BY <1>1, <1>8
<1> QED
  BY <1>5, <1>7, <1>8, <1>9 DEF StoreInv, StoreOk

\* another review or source of one capture
LEMMA StoreTwin ==
  ASSUME NEW R, NEW D, NEW W, NEW o, NEW n, NEW e, StoreOk(R, D, W, o, n, e), o,
         NEW k \in DOMAIN R, NEW y, Shaped(y),
         y.id = R[k].id, y.body = R[k].body, y.prev = R[k].prev, y.hash = R[k].hash,
         NEW M, M = [R EXCEPT ![k] = y]
  PROVE  StoreOk(M, D, W, o, n, e)
<1>1. Listed(R)
  BY DEF StoreOk
<1>2. Listed(M) /\ Items(M) \subseteq Items(R) \cup {y} /\ R[k] \in Items(R)
  <2>1. PICK L : L = R
    OBVIOUS
  <2>2. Listed(L) /\ k \in DOMAIN L /\ y.id = L[k].id /\ M = [L EXCEPT ![k] = y]
    BY <1>1, <2>1
  <2>3. Listed(M) /\ Items(M) = (Items(L) \ {L[k]}) \cup {y} /\ L[k] \in Items(L)
    BY <2>2, ListedUpdate, Zenon
  <2> QED
    BY <2>1, <2>3, Zenon
<1> DEFINE A == Items(R) \cup Under(W) \cup Stored(D.recs)
<1>3. Honest(A, e, n) /\ R[k] \in A
  BY <1>2 DEF StoreOk
<1>4. Honest(A \cup {y}, e, n)
  <2> HIDE DEF A
  <2> QED
    BY <1>3, HonestTwin
<1>5. Honest(Items(M) \cup Under(W) \cup Stored(D.recs), e, n)
  BY <1>2, <1>4, HonestLess, Zenon
<1> QED
  BY <1>2, <1>5 DEF StoreOk

\* a capture is added
LEMMA StoreAdd ==
  ASSUME NEW R, NEW D, NEW W, NEW o, NEW n, NEW e, StoreOk(R, D, W, o, n, e), o, NEW limit \in Nat,
         NEW M, NEW all, all = <<Capture(n, Store!Newest(R))>> \o R,
         M = SubSeq(all, 1, IF Len(all) > limit THEN limit ELSE Len(all))
  PROVE  StoreOk(M, D, W, o, n + 1, e)
<1> DEFINE A == Items(R) \cup Under(W) \cup Stored(D.recs)
<1>1. Honest(A, e, n) /\ Listed(R) /\ n \in Nat /\ n \notin e
  BY DEF StoreOk
<1>2. PICK p : p = Store!Newest(R)
  OBVIOUS
<1>3. p = Store!Genesis \/ \E h \in A : p = h.hash
  <2>1. CASE R = <<>>
    BY <1>2, <2>1 DEF Store!Newest
  <2>2. CASE R # <<>>
    <3>1. 1 \in 1..Len(R)
      BY <1>1, <2>2, EmptySeq DEF Listed
    <3>2. R[1] \in Items(R)
      BY <1>1, <3>1, ItemIn DEF Listed
    <3> QED
      BY <1>2, <2>2, <3>2 DEF Store!Newest
  <2> QED
    BY <2>1, <2>2
<1>4. PICK c : c = Capture(n, p)
  OBVIOUS
<1>5. Honest(A \cup {c}, e, n + 1)
  <2> HIDE DEF A
  <2> QED
    BY <1>1, <1>3, <1>4, HonestCapture, Zenon
<1>6. c.id = n
  BY <1>4, CaptureFields
<1>7. \A x \in Items(R) : x.id # c.id
  BY <1>1, <1>6 DEF Honest, Genuine
<1>8. Listed(all) /\ Items(all) = {c} \cup Items(R)
  BY <1>1, <1>2, <1>4, <1>7, ListedFront
<1>9. Listed(M) /\ Items(M) \subseteq Items(all)
  <2>1. PICK m : m = IF Len(all) > limit THEN limit ELSE Len(all)
    OBVIOUS
  <2>2. Len(all) \in Nat
    BY <1>8 DEF Listed
  <2>3. m \in 0..Len(all)
    BY <2>1, <2>2
  <2> QED
    BY <1>8, <2>1, <2>3, ListedCut, Zenon
<1>10. Honest(Items(M) \cup Under(W) \cup Stored(D.recs), e, n + 1)
  BY <1>5, <1>8, <1>9, HonestLess
<1>11. n + 1 \in Nat /\ 1 < n + 1 /\ \A i \in e : i \in Nat /\ i < n + 1
  BY DEF StoreOk
<1> QED
  BY <1>9, <1>10, <1>11 DEF StoreOk

\* the file is read
LEMMA StoreLoad ==
  ASSUME StoreInv, ~soopen, NEW M, M = Store!Sealed(sodisk.recs)
  PROVE  StoreOk(M, sodisk, sowriting, TRUE, sonextId, soedited)
<1>1. sorecords = <<>> /\ sowriting = <<>> /\ Under(sowriting) = {} /\ Items(sorecords) = {}
  BY ItemsEmpty DEF StoreInv, StoreOk, Under
<1>2. Listed(sodisk.recs) /\ Honest(Stored(sodisk.recs), soedited, sonextId)
  BY <1>1, Zenon DEF StoreInv, StoreOk
<1>3. CASE sodisk.recs # Old
  <2>1. M = sodisk.recs
    BY <1>2, <1>3, HonestSealed DEF Stored
  <2>2. Honest(Items(M) \cup Under(sowriting) \cup Stored(sodisk.recs), soedited, sonextId)
    BY <1>1, <1>2, <1>3, <2>1, Zenon DEF Stored
  <2> QED
    BY <1>2, <2>1, <2>2 DEF StoreInv, StoreOk
<1>4. CASE sodisk.recs = Old
  <2>1. M = <<OldSealed>> /\ Stored(sodisk.recs) = {}
    BY <1>4, SealedOld DEF Stored
  <2>2. PICK c : c = OldSealed
    OBVIOUS
  <2>3. Listed(<<c>> \o <<>>) /\ Items(<<c>> \o <<>>) = {c}
    BY ListedEmpty, ListedFront, Zenon
  <2>4. Listed(M) /\ Items(M) = {c}
    <3>1. <<c>> \o <<>> = <<c>>
      OBVIOUS
    <3> QED
      BY <2>1, <2>2, <2>3, <3>1
  <2>5. Shaped(c) /\ c.id = 1 /\ c.body = "captured" /\ c.prev = Store!Genesis /\ c.hash = <<1, "captured", Store!Genesis>>
    BY <2>2, CaptureFields DEF OldSealed
  <2>6. 1 < sonextId /\ sonextId \in Nat /\ 1 \notin soedited
    BY <1>4 DEF StoreInv, StoreOk
  <2>7. Honest({c}, soedited, sonextId)
    BY <2>5, <2>6 DEF Honest, Agreeing, Genuine
  <2>8. Honest(Items(M) \cup Under(sowriting) \cup Stored(sodisk.recs), soedited, sonextId)
    BY <1>1, <2>1, <2>4, <2>7, Zenon
  <2> QED
    BY <2>4, <2>8 DEF StoreInv, StoreOk
<1> QED
  BY <1>3, <1>4, Zenon

\* a body in the file is changed
LEMMA StoreEdited ==
  ASSUME NEW R, NEW D, NEW W, NEW o, NEW n, NEW e, StoreOk(R, D, W, o, n, e), ~o,
         NEW k \in DOMAIN D.recs, D.recs[k].hash # <<>>,
         NEW T, T = [D EXCEPT !.recs[k].body = "edited"]
  PROVE  StoreOk(R, T, W, o, n, e \cup {D.recs[k].id})
<1>1. R = <<>> /\ W = <<>> /\ Under(W) = {} /\ Items(R) = {}
  BY ItemsEmpty DEF StoreOk, Under
<1>2. PICK L, x : L = D.recs /\ x = L[k]
  OBVIOUS
<1>3. Listed(L) /\ Honest(Stored(L), e, n) /\ D = [good |-> D.good, recs |-> L]
  BY <1>1, <1>2, Zenon DEF StoreOk
<1>4. Stored(L) = Items(L)
  <2>1. L # Old
    <3>1. ASSUME L = Old PROVE FALSE
      <4>1. k = 1
        BY <1>2, <3>1 DEF Old
      <4>2. L[k].hash = <<>>
        BY <3>1, <4>1 DEF Old, Store!Captured, Store!Unsealed
      <4> QED
        BY <1>2, <4>2
    <3> QED
      BY <3>1
  <2> QED
    BY <2>1 DEF Stored
<1>5. PICK y : y = [x EXCEPT !.body = "edited"]
  BY Zenon
<1>6. x \in Items(L)
  BY <1>2 DEF Items
<1>7. /\ Honest((Items(L) \ {x}) \cup {y}, e \cup {x.id}, n)
      /\ y.id = x.id /\ x.id \in Nat /\ x.id < n
  <2>1. PICK S : S = Items(L)
    OBVIOUS
  <2>2. Honest(S, e, n) /\ OneEach(S) /\ x \in S
    BY <1>3, <1>4, <1>6, <2>1 DEF Listed
  <2>3. Honest((S \ {x}) \cup {y}, e \cup {x.id}, n) /\ y.id = x.id /\ x.id \in Nat /\ x.id < n
    BY <1>5, <2>2, HonestEdited
  <2> QED
    BY <2>1, <2>3
<1>8. PICK M : M = [L EXCEPT ![k] = y]
  BY Zenon
<1>9. Listed(M) /\ Items(M) = (Items(L) \ {x}) \cup {y}
  BY <1>2, <1>3, <1>7, <1>8, ListedUpdate
<1>10. T = [good |-> D.good, recs |-> M]
  <2>1. [L EXCEPT ![k].body = "edited"] = M
    BY <1>2, <1>5, <1>8, Zenon
  <2>2. T = [D EXCEPT !.recs = M]
    BY <1>2, <2>1, Zenon
  <2> QED
    BY <1>3, <2>2
<1>11. /\ T = [good |-> T.good, recs |-> T.recs] /\ Listed(T.recs) /\ T.recs # Old /\ Stored(T.recs) = Items(M)
  <2>1. PICK f : f = e \cup {x.id}
    BY Zenon
  <2>2. Honest(Items(M), f, n)
    BY <1>7, <1>9, <2>1
  <2> QED
    BY <1>9, <1>10, <2>2, Shelve, Zenon
<1>12. Honest(Items(R) \cup Under(W) \cup Stored(T.recs), e \cup {x.id}, n)
  BY <1>1, <1>7, <1>9, <1>11, Zenon
<1>13. n \in Nat /\ 1 < n /\ \A i \in e \cup {x.id} : i \in Nat /\ i < n
  BY <1>7 DEF StoreOk
<1>14. StoreOk(R, T, W, o, n, e \cup {x.id})
  BY <1>1, <1>11, <1>12, <1>13 DEF StoreOk
<1> QED
  BY <1>2, <1>14

LEMMA StoreStep == StoreInv /\ [Store!Next]_soVars => StoreInv'
<1> SUFFICES ASSUME StoreInv, [Store!Next]_soVars PROVE StoreInv'
  OBVIOUS
<1> DEFINE A == Items(sorecords) \cup Under(sowriting) \cup Stored(sodisk.recs)
<1>0. StoreOk(sorecords, sodisk, sowriting, soopen, sonextId, soedited) /\ Listed(sorecords) /\ Items(sorecords) \subseteq A
  BY DEF StoreInv, StoreOk
<1>1. CASE Store!Open
  <2>1. CASE sodisk.good /\ sorecords' = Store!Sealed(sodisk.recs) /\ UNCHANGED sodisk
    <3>1. PICK M : M = sorecords'
      OBVIOUS
    <3>2. M = Store!Sealed(sodisk.recs) /\ ~soopen
      BY <1>1, <2>1, <3>1 DEF Store!Open
    <3>3. StoreOk(M, sodisk, sowriting, TRUE, sonextId, soedited)
      BY <3>2, StoreLoad, Zenon
    <3> QED
      BY <1>1, <2>1, <3>1, <3>3, Zenon DEF Store!Open, StoreInv
  <2>2. CASE sorecords' = <<>> /\ sodisk' = [good |-> TRUE, recs |-> <<>>]
    <3>1. PICK E, T, p : /\ E = <<>> /\ T = sodisk' /\ p = soopen' /\ p = TRUE
                         /\ Listed(E) /\ Items(E) = {} /\ T = [good |-> TRUE, recs |-> <<>>]
      BY <1>1, <2>2, ListedEmpty, Zenon DEF Store!Open
    <3>2. StoreOk(E, T, sowriting, p, sonextId, soedited)
      BY <1>0, <3>1, StoreShift, Zenon
    <3> QED
      BY <1>1, <2>2, <3>1, <3>2, Zenon DEF Store!Open, StoreInv
  <2> QED
    BY <1>1, <2>1, <2>2 DEF Store!Open
<1>2. CASE Store!Add
  <2>1. PICK all : all = <<Capture(sonextId, Store!Newest(sorecords))>> \o sorecords
    BY Zenon
  <2>2. sorecords' = SubSeq(all, 1, IF Len(all) > StoreLimit THEN StoreLimit ELSE Len(all))
    BY <1>2, <2>1, SealsCapture, Zenon DEF Store!Add, Store!WithCapture
  <2>3. soopen
    BY <1>2 DEF Store!Add
  <2>4. StoreOk(sorecords', sodisk, sowriting, soopen, sonextId + 1, soedited)
    BY <1>0, <2>1, <2>2, <2>3, StoreAdd, StoreAssumption, Zenon
  <2> QED
    BY <1>2, <2>4, Zenon DEF Store!Add, StoreInv
<1>3. ASSUME NEW L, Store!Edit(L), Listed(L), Items(L) \subseteq Items(sorecords) PROVE StoreInv'
  <2>1. StoreOk(L, sodisk, sowriting, soopen, sonextId, soedited)
    BY <1>0, <1>3, StoreShift, Zenon DEF Store!Edit
  <2> QED
    BY <1>3, <2>1, Zenon DEF Store!Edit, StoreInv
<1>4. CASE Store!Reorder
  <2>1. PICK D \in SUBSET Items(sorecords), p \in 0..Len(sorecords) : \E moved \in Store!Injection(1..Cardinality(D), D) :
             Store!Edit(Kept(SubSeq(sorecords, 1, p), Items(sorecords) \ D) \o moved
                          \o Kept(SubSeq(sorecords, p + 1, Len(sorecords)), Items(sorecords) \ D))
    BY <1>4, StoreItems, StoreKept, StoreCount, Zenon DEF Store!Reorder
  <2>2. PICK moved \in Store!Injection(1..Cardinality(D), D) :
             Store!Edit(Kept(SubSeq(sorecords, 1, p), Items(sorecords) \ D) \o moved
                          \o Kept(SubSeq(sorecords, p + 1, Len(sorecords)), Items(sorecords) \ D))
    BY <2>1
  <2>3. PICK a, b : /\ a = Kept(SubSeq(sorecords, 1, p), Items(sorecords) \ D)
                    /\ b = Kept(SubSeq(sorecords, p + 1, Len(sorecords)), Items(sorecords) \ D)
    OBVIOUS
  <2>4. Listed(a \o moved \o b) /\ Items(a \o moved \o b) \subseteq Items(sorecords)
    BY <1>0, <2>3, ListedMoved, Zenon
  <2> QED
    BY <1>3, <2>2, <2>3, <2>4, Zenon
<1>5. CASE Store!RemoveCapture
  <2>1. PICK T : Store!Edit(Kept(sorecords, T))
    BY <1>5, StoreKept DEF Store!RemoveCapture
  <2> QED
    BY <1>0, <1>3, <2>1, ListedKept
<1>6. CASE Store!Clear
  <2>1. PICK L : L = <<>> /\ Listed(L) /\ Items(L) = {}
    BY ListedEmpty
  <2>2. Store!Edit(L)
    BY <1>6, <2>1 DEF Store!Clear
  <2> QED
    BY <1>3, <2>1, <2>2
<1>7. ASSUME NEW i \in Store!IdsOf(sorecords)
      PROVE  Store!At(sorecords, i) \in DOMAIN sorecords /\ Shaped(sorecords[Store!At(sorecords, i)])
  <2>1. \E k \in DOMAIN sorecords : sorecords[k].id = i
    BY StoreItems DEF Store!IdsOf, Items
  <2>2. Store!At(sorecords, i) \in DOMAIN sorecords
    BY <2>1 DEF Store!At
  <2>3. sorecords[Store!At(sorecords, i)] \in Items(sorecords)
    BY <2>2 DEF Items
  <2> QED
    BY <1>0, <2>2, <2>3 DEF StoreOk, Honest, Genuine
<1>8. ASSUME NEW k \in DOMAIN sorecords, NEW y, Shaped(y), y.id = sorecords[k].id, y.body = sorecords[k].body,
             y.prev = sorecords[k].prev, y.hash = sorecords[k].hash,
             NEW M, M = [sorecords EXCEPT ![k] = y], Store!Edit(M)
      PROVE  StoreInv'
  <2>1. soopen
    BY <1>8 DEF Store!Edit
  <2>2. StoreOk(M, sodisk, sowriting, soopen, sonextId, soedited)
    BY <1>0, <1>8, <2>1, StoreTwin, Zenon
  <2> QED
    BY <1>8, <2>2, Zenon DEF Store!Edit, StoreInv
<1>9. CASE Store!SetClassification
  <2>1. PICK i \in Store!IdsOf(sorecords) : \E t : Store!Edit([sorecords EXCEPT ![Store!At(sorecords, i)].source = t])
    BY <1>9, Zenon DEF Store!SetClassification
  <2>2. PICK k \in DOMAIN sorecords : k = Store!At(sorecords, i) /\ Shaped(sorecords[k])
    BY <1>7
  <2>7. PICK t : Store!Edit([sorecords EXCEPT ![k].source = t])
    BY <2>1, <2>2, Zenon
  <2>3. PICK x, y : x = sorecords[k] /\ y = [x EXCEPT !.source = t]
    BY Zenon
  <2>4. Shaped(y) /\ y.id = x.id /\ y.body = x.body /\ y.prev = x.prev /\ y.hash = x.hash
    BY <2>2, <2>3 DEF Shaped
  <2>5. PICK M : M = [sorecords EXCEPT ![k] = y]
    BY Zenon
  <2>6. [sorecords EXCEPT ![k].source = t] = M
    BY <2>3, <2>5, Zenon
  <2> QED
    BY <1>8, <2>2, <2>3, <2>4, <2>5, <2>6, <2>7, Zenon
<1>10. CASE Store!SetReviewState
  <2>1. PICK i \in Store!IdsOf(sorecords) : \E t : Store!Edit([sorecords EXCEPT ![Store!At(sorecords, i)].review = t])
    BY <1>10, Zenon DEF Store!SetReviewState
  <2>2. PICK k \in DOMAIN sorecords : k = Store!At(sorecords, i) /\ Shaped(sorecords[k])
    BY <1>7
  <2>7. PICK t : Store!Edit([sorecords EXCEPT ![k].review = t])
    BY <2>1, <2>2, Zenon
  <2>3. PICK x, y : x = sorecords[k] /\ y = [x EXCEPT !.review = t]
    BY Zenon
  <2>4. Shaped(y) /\ y.id = x.id /\ y.body = x.body /\ y.prev = x.prev /\ y.hash = x.hash
    BY <2>2, <2>3 DEF Shaped
  <2>5. PICK M : M = [sorecords EXCEPT ![k] = y]
    BY Zenon
  <2>6. [sorecords EXCEPT ![k].review = t] = M
    BY <2>3, <2>5, Zenon
  <2> QED
    BY <1>8, <2>2, <2>3, <2>4, <2>5, <2>6, <2>7, Zenon
<1>11. CASE Store!TimerFires
  BY <1>11, Zenon DEF Store!TimerFires, StoreInv
<1>12. CASE Store!WriteStarts
  <2>1. StoreOk(sorecords, sodisk, <<sorecords>>, soopen, sonextId, soedited)
    BY <1>0, <1>12, StoreShift, Zenon DEF Store!WriteStarts
  <2> QED
    BY <1>12, <2>1, Zenon DEF Store!WriteStarts, StoreInv
<1>13. CASE Store!WriteEnds
  <2>1. StoreOk(sorecords, sodisk', <<>>, soopen, sonextId, soedited)
    BY <1>0, <1>13, StoreShift, Zenon DEF Store!WriteEnds
  <2> QED
    BY <1>13, <2>1, Zenon DEF Store!WriteEnds, StoreInv
<1>14. CASE Store!Close
  <2>1. StoreOk(<<>>, sodisk', <<>>, FALSE, sonextId, soedited)
    BY <1>0, <1>14, StoreShift, ListedEmpty, Zenon DEF Store!Close
  <2> QED
    BY <1>14, <2>1, Zenon DEF Store!Close, StoreInv
<1>15. CASE Store!EditFile
  <2>1. PICK k \in DOMAIN sodisk.recs : /\ sodisk.recs[k].hash # Store!Unsealed
                                        /\ sodisk' = [sodisk EXCEPT !.recs[k].body = "edited"]
                                        /\ soedited' = soedited \cup {sodisk.recs[k].id}
    BY <1>15, Zenon DEF Store!EditFile
  <2>2. ~soopen /\ sodisk.recs[k].hash # <<>>
    BY <1>15, <2>1 DEF Store!EditFile, Store!Unsealed
  <2>3. StoreOk(sorecords, sodisk', sowriting, soopen, sonextId, soedited \cup {sodisk.recs[k].id})
    BY <1>0, <2>1, <2>2, StoreEdited, Zenon
  <2> QED
    BY <1>15, <2>1, <2>3 DEF Store!EditFile, StoreInv
<1>16. CASE UNCHANGED soVars
  BY <1>16 DEF soVars, StoreInv
<1> QED
  BY <1>1, <1>2, <1>4, <1>5, <1>6, <1>9, <1>10, <1>11, <1>12, <1>13, <1>14, <1>15, <1>16 DEF Store!Next

LEMMA StoreMoves == [Next]_vars => [Store!Next]_soVars
  BY DEF Next, vars, StreamKeeps, PatchKeeps, GatewayKeeps, FileKeeps, MatchKeeps, LegacyKeeps, AuthKeeps,
         ChannelKeeps, SerialKeeps

\* However the captures of the base extension are reordered, reviewed, thinned out, cut to the limit, lost in
\* a write or reloaded: its verifier names exactly those whose body was changed in the file, and reports a
\* break exactly where the capture another one is linked to is gone.
THEOREM VerdictsAreExact == Spec => []StoreVerdictExact
<1>1. Init => StoreInv
  BY StoreInit DEF Init
<1>2. StoreInv /\ [Next]_vars => StoreInv'
  BY StoreStep, StoreMoves
<1>3. StoreInv => StoreVerdictExact
  <2> SUFFICES ASSUME StoreInv PROVE Store!VerdictExact
    BY DEF StoreVerdictExact
  <2>1. Honest(Items(sorecords), soedited, sonextId)
    BY HonestLess DEF StoreInv, StoreOk
  <2> QED
    BY <2>1, VerdictOfHonest
<1> QED
  BY <1>1, <1>2, <1>3, PTL DEF Spec

-------------------------------------------------------------------------------
(* The local storage.  Writes are queued behind documents that were read        *)
(* earlier: an entry on its way to the file is later than all it will meet, so   *)
(* that the limit on the entries never cuts the one that is being stored.        *)

Uids(s) == {e.uuid : e \in Items(s)}

Entry(e) == e = [uuid |-> e.uuid, time |-> e.time, parent |-> e.parent] /\ e.uuid \in LegacyUuids /\ e.time \in Nat

\* a document of entries before t, no two of them of one record or one time
Dated(s, t) ==
  /\ s \in Seq(Items(s))
  /\ \A k \in DOMAIN s : Entry(s[k]) /\ s[k].time < t
  /\ \A i, j \in DOMAIN s : s[i].uuid = s[j].uuid \/ s[i].time = s[j].time => i = j

LEMMA UidsAre == \A s : Legacy!IdsOf(s) = Uids(s)
  BY DEF Legacy!IdsOf, Legacy!Range, Uids, Items

LEMMA UidIn == ASSUME NEW s, NEW k \in DOMAIN s PROVE s[k].uuid \in Uids(s)
  BY DEF Uids, Items

LEMMA UidOf == ASSUME NEW s, NEW u \in Uids(s) PROVE \E k \in DOMAIN s : s[k].uuid = u
  BY DEF Uids, Items

LEMMA UidsDated == ASSUME NEW s, NEW t, Dated(s, t) PROVE Uids(s) \subseteq LegacyUuids
  BY UidOf DEF Dated, Entry

LEMMA DatedLater ==
  ASSUME NEW s, NEW t \in Nat, Dated(s, t), NEW t2 \in Nat, t <= t2
  PROVE  Dated(s, t2)
<1>1. ASSUME NEW k \in DOMAIN s PROVE Entry(s[k]) /\ s[k].time < t2
  <2>1. Entry(s[k]) /\ s[k].time \in Nat /\ s[k].time < t
    BY DEF Dated, Entry
  <2> QED
    BY <2>1
<1> QED
  BY <1>1 DEF Dated

LEMMA DatedEmpty == ASSUME NEW t PROVE Dated(<<>>, t) /\ Uids(<<>>) = {}
<1>1. DOMAIN <<>> = {}
  OBVIOUS
<1>2. Uids(<<>>) = {}
  BY <1>1 DEF Uids, Items
<1> QED
  BY <1>1, <1>2, EmptySeq DEF Dated

\* a document is given by its entries
LEMMA DatedFunction ==
  ASSUME NEW n \in Nat, NEW f, DOMAIN f = 1..n, f = [k \in 1..n |-> f[k]], NEW t,
         \A k \in 1..n : Entry(f[k]) /\ f[k].time < t,
         \A i, j \in 1..n : f[i].uuid = f[j].uuid \/ f[i].time = f[j].time => i = j
  PROVE  Dated(f, t)
<1>1. PICK S : S = Items(f)
  BY Zenon
<1>2. f \in [1..n -> S]
  BY <1>1 DEF Items
<1>3. f \in Seq(S)
  BY <1>2, FunctionSeq
<1> QED
  BY <1>1, <1>3 DEF Dated

LEMMA DatedLen ==
  ASSUME NEW s, NEW t, Dated(s, t)
  PROVE  Len(s) \in Nat /\ DOMAIN s = 1..Len(s) /\ s = [k \in 1..Len(s) |-> s[k]]
<1>1. PICK S : S = Items(s)
  OBVIOUS
<1>2. s \in Seq(S)
  BY <1>1 DEF Dated
<1> QED
  BY <1>2

\* another link to the parent
LEMMA Relinked ==
  ASSUME NEW e, Entry(e), NEW p
  PROVE  Entry([e EXCEPT !.parent = p]) /\ [e EXCEPT !.parent = p].uuid = e.uuid /\ [e EXCEPT !.parent = p].time = e.time
<1>1. PICK u, v, w : u = e.uuid /\ v = e.time /\ w = e.parent
  OBVIOUS
<1>2. e = [uuid |-> u, time |-> v, parent |-> w] /\ u \in LegacyUuids /\ v \in Nat
  BY <1>1 DEF Entry
<1>3. PICK y : y = [e EXCEPT !.parent = p]
  BY Zenon
<1>4. y = [uuid |-> u, time |-> v, parent |-> p]
  BY <1>2, <1>3
<1>5. Entry(y) /\ y.uuid = u /\ y.time = v
  BY <1>2, <1>4 DEF Entry
<1> QED
  BY <1>1, <1>3, <1>5

LEMMA RefreshedDated ==
  ASSUME NEW s, NEW t, Dated(s, t)
  PROVE  Dated(Legacy!Refreshed(s), t)
<1>1. PICK n \in Nat : n = Len(s) /\ DOMAIN s = 1..n
  BY DatedLen
<1>2. PICK f : f = Legacy!Refreshed(s)
  OBVIOUS
<1>3. f = [k \in 1..n |-> f[k]] /\ DOMAIN f = 1..n
  BY <1>1, <1>2 DEF Legacy!Refreshed
<1>4. ASSUME NEW k \in 1..n PROVE Entry(f[k]) /\ f[k].uuid = s[k].uuid /\ f[k].time = s[k].time
  <2>1. \E p : f[k] = [s[k] EXCEPT !.parent = p] \/ f[k] = s[k]
    BY <1>1, <1>2, Zenon DEF Legacy!Refreshed
  <2>2. Entry(s[k])
    BY <1>1 DEF Dated
  <2>3. CASE f[k] # s[k]
    <3>1. PICK p : f[k] = [s[k] EXCEPT !.parent = p]
      BY <2>1, <2>3, Zenon
    <3> QED
      BY <2>2, <3>1, Relinked
  <2> QED
    BY <2>2, <2>3
<1>5. \A k \in 1..n : Entry(f[k]) /\ f[k].time < t
  BY <1>1, <1>4 DEF Dated
<1>6. \A i, j \in 1..n : f[i].uuid = f[j].uuid \/ f[i].time = f[j].time => i = j
  BY <1>1, <1>4 DEF Dated
<1>7. Dated(f, t)
  BY <1>3, <1>5, <1>6, DatedFunction, Zenon
<1> QED
  BY <1>2, <1>7

LEMMA MergedDated ==
  ASSUME NEW s, NEW r, Entry(r), Dated(s, r.time)
  PROVE  /\ Dated(Legacy!Merged(s, r), r.time + 1)
         /\ \E k \in DOMAIN Legacy!Merged(s, r) :
              Legacy!Merged(s, r)[k].uuid = r.uuid /\ Legacy!Merged(s, r)[k].time = r.time
         /\ Uids(s) \subseteq Uids(Legacy!Merged(s, r))
<1>1. PICK n \in Nat : n = Len(s) /\ DOMAIN s = 1..n /\ s = [k \in 1..n |-> s[k]]
  BY DatedLen
<1>2. PICK m : m = Legacy!Merged(s, r)
  OBVIOUS
<1>3. PICK T \in Nat, u \in LegacyUuids : T = r.time /\ u = r.uuid
  BY DEF Entry
<1>4. \A k \in 1..n : Entry(s[k]) /\ s[k].time \in Nat /\ s[k].time < T
  BY <1>1, <1>3, Zenon DEF Dated, Entry
<1>5. \A i, j \in 1..n : s[i].uuid = s[j].uuid \/ s[i].time = s[j].time => i = j
  BY <1>1, Zenon DEF Dated
<1>6. CASE u \in Uids(s)
  <2>1. m = [k \in 1..n |-> IF s[k].uuid = u THEN [r EXCEPT !.parent = s[k].parent] ELSE s[k]]
    BY <1>1, <1>2, <1>3, <1>6, UidsAre, Zenon DEF Legacy!Merged
  <2>2. DOMAIN m = 1..n /\ m = [k \in 1..n |-> m[k]]
    BY <2>1
  <2>3. ASSUME NEW k \in 1..n
        PROVE  Entry(m[k]) /\ m[k].uuid = s[k].uuid /\ m[k].time = IF s[k].uuid = u THEN T ELSE s[k].time
    <3>1. CASE s[k].uuid = u
      <4>1. PICK p : m[k] = [r EXCEPT !.parent = p]
        BY <2>1, <3>1, Zenon
      <4> QED
        BY <1>3, <3>1, <4>1, Relinked
    <3>2. CASE s[k].uuid # u
      BY <1>4, <2>1, <3>2
    <3> QED
      BY <3>1, <3>2
  <2>4. \A k \in 1..n : Entry(m[k]) /\ m[k].time < T + 1
    BY <1>4, <2>3
  <2>5. ASSUME NEW i \in 1..n, NEW j \in 1..n, m[i].uuid = m[j].uuid \/ m[i].time = m[j].time PROVE i = j
    BY <1>4, <1>5, <2>3, <2>5
  <2>6. Dated(m, T + 1)
    BY <2>2, <2>4, <2>5, DatedFunction, Zenon
  <2>7. PICK k \in 1..n : s[k].uuid = u
    BY <1>1, <1>6, UidOf, Zenon
  <2>8. ASSUME NEW x \in Uids(s) PROVE x \in Uids(m)
    <3>1. PICK j \in 1..n : s[j].uuid = x
      BY <1>1, UidOf, Zenon
    <3>2. j \in DOMAIN m /\ m[j].uuid = x
      BY <2>2, <2>3, <3>1
    <3> QED
      BY <3>2, UidIn
  <2> QED
    BY <1>2, <1>3, <2>2, <2>3, <2>6, <2>7, <2>8
<1>7. CASE u \notin Uids(s)
  <2>1. PICK e : e = [r EXCEPT !.parent = Legacy!Parent(s, r.uuid)]
    BY Zenon
  <2>2. Entry(e) /\ e.uuid = u /\ e.time = T
    BY <1>3, <2>1, Relinked
  <2>3. m = Append(s, e)
    BY <1>2, <1>3, <1>7, <2>1, UidsAre DEF Legacy!Merged
  <2>4. /\ m \in Seq(Items(s) \cup {e}) /\ DOMAIN m = 1..(n + 1)
        /\ \A k \in 1..n : k \in DOMAIN m /\ m[k] = s[k]
        /\ n + 1 \in DOMAIN m /\ m[n + 1] = e
    <3>1. PICK S : S = Items(s) \cup {e}
      BY Zenon
    <3>2. s \in Seq(S) /\ e \in S
      BY <3>1 DEF Dated
    <3>3. m \in Seq(S) /\ Len(m) = n + 1 /\ (\A k \in 1..n : m[k] = s[k]) /\ m[n + 1] = e
      BY <1>1, <2>3, <3>2, AppendProperties
    <3> QED
      BY <3>1, <3>3
  <2>5. \A k \in 1..(n + 1) : k \in 1..n \/ k = n + 1
    OBVIOUS
  <2>6. \A k \in 1..(n + 1) : Entry(m[k]) /\ m[k].time < T + 1
    BY <1>4, <2>2, <2>4, <2>5
  <2>7. \A k \in 1..n : s[k].uuid # u
    BY <1>1, <1>7, UidIn
  <2>8. ASSUME NEW i \in 1..(n + 1), NEW j \in 1..(n + 1), m[i].uuid = m[j].uuid \/ m[i].time = m[j].time PROVE i = j
    BY <1>4, <1>5, <2>2, <2>4, <2>5, <2>7, <2>8
  <2>9. Dated(m, T + 1)
    <3>1. m = [k \in 1..(n + 1) |-> m[k]]
      BY <2>4
    <3> QED
      BY <2>4, <2>6, <2>8, <3>1, DatedFunction
  <2>10. n + 1 \in DOMAIN m /\ m[n + 1].uuid = u /\ m[n + 1].time = T
    BY <2>2, <2>4
  <2>11. ASSUME NEW x \in Uids(s) PROVE x \in Uids(m)
    <3>1. PICK k \in 1..n : s[k].uuid = x
      BY <1>1, UidOf, Zenon
    <3>2. k \in DOMAIN m /\ m[k].uuid = x
      BY <2>4, <3>1
    <3> QED
      BY <3>2, UidIn
  <2> QED
    BY <1>2, <1>3, <2>9, <2>10, <2>11
<1> QED
  BY <1>6, <1>7

\* the entries in the order of their times
LEMMA ByTimeSorts ==
  ASSUME NEW s, NEW t, Dated(s, t)
  PROVE  LET b == Legacy!ByTime(s) IN
         /\ b \in [1..Len(s) -> Items(s)] /\ Items(b) = Items(s)
         /\ \A i, j \in 1..Len(s) : i < j => b[i].time < b[j].time
<1>1. PICK n \in Nat : n = Len(s) /\ DOMAIN s = 1..n
  BY DatedLen
<1>2. /\ \A k \in 1..n : s[k].time \in Nat
      /\ \A i, j \in 1..n : s[i].time = s[j].time => i = j
  BY <1>1, Zenon DEF Dated, Entry
<1>3. PICK S : S = Items(s) /\ S = {s[k] : k \in 1..n}
  BY <1>1, Zenon DEF Items
<1>4. PICK T \in SUBSET Nat : T = {s[k].time : k \in 1..n}
  BY <1>2, Zenon
<1>5. IsFiniteSet(T) /\ Cardinality(T) = n
  <2>1. IsFiniteSet(1..n) /\ Cardinality(1..n) = n
    BY FS_Interval
  <2>2. PICK g : g = [k \in 1..n |-> s[k].time]
    BY Zenon
  <2>3. g \in Bijection(1..n, T)
    BY <1>2, <1>4, <2>2 DEF Bijection, Injection, IsInjective, Surjection
  <2>4. ExistsBijection(1..n, T)
    BY <2>3 DEF ExistsBijection
  <2> QED
    BY <2>1, <2>4, FS_Bijection
<1>6. PICK o : o \in [1..n -> T] /\ {o[i] : i \in 1..n} = T /\ \A i, j \in 1..n : i < j => o[i] < o[j]
  <2>1. PICK o : Enumerates(o, T)
    BY <1>5, OrderExists
  <2> QED
    BY <1>5, <2>1 DEF Enumerates
<1>7. PICK b : b = [i \in 1..n |-> CHOOSE e \in S : e.time = o[i]]
  BY Zenon
<1>8. ASSUME NEW i \in 1..n PROVE b[i] \in S /\ b[i].time = o[i]
  <2>1. \E e \in S : e.time = o[i]
    BY <1>3, <1>4, <1>6, Zenon
  <2> QED
    BY <1>7, <2>1
<1>9. b \in [1..n -> S]
  BY <1>7, <1>8, Zenon
<1>10. ASSUME NEW e \in S PROVE \E i \in 1..n : b[i] = e
  <2>1. PICK k \in 1..n : e = s[k]
    BY <1>3
  <2>2. PICK i \in 1..n : o[i] = s[k].time
    BY <1>4, <1>6, Zenon
  <2>3. PICK l \in 1..n : b[i] = s[l]
    BY <1>3, <1>8
  <2> QED
    BY <1>2, <1>8, <2>1, <2>2, <2>3
<1>11. {b[i] : i \in 1..n} = S
  BY <1>9, <1>10
<1>12. \A i, j \in 1..n : i < j => b[i].time < b[j].time
  BY <1>6, <1>8
<1> DEFINE Sorted(c) == {c[i] : i \in 1..n} = S /\ \A i, j \in 1..n : i < j => c[i].time < c[j].time
<1>13. \E c \in [1..n -> S] : Sorted(c)
  BY <1>9, <1>11, <1>12
<1>14. Legacy!ByTime(s) = CHOOSE c \in [1..n -> S] : Sorted(c)
  <2>1. Legacy!Range(s) = S
    BY <1>3 DEF Legacy!Range, Items
  <2>2. \A c \in [1..n -> S] : Legacy!Range(c) = {c[i] : i \in 1..n}
    BY DEF Legacy!Range
  <2> QED
    BY <1>1, <2>1, <2>2, Zenon DEF Legacy!ByTime
<1>15. PICK c : c = Legacy!ByTime(s)
  OBVIOUS
<1>16. c \in [1..n -> S] /\ Sorted(c)
  <2> HIDE DEF Sorted
  <2> QED
    BY <1>13, <1>14, <1>15
<1>17. Items(c) = S
  BY <1>16 DEF Items
<1> QED
  BY <1>1, <1>3, <1>15, <1>16, <1>17

\* what the cap keeps has the latest entry
LEMMA CappedDated ==
  ASSUME NEW m, NEW T \in Nat, Dated(m, T + 1), NEW k \in DOMAIN m, m[k].time = T
  PROVE  Dated(Legacy!Capped(m), T + 1) /\ m[k].uuid \in Uids(Legacy!Capped(m))
<1>1. PICK n \in Nat : n = Len(m) /\ DOMAIN m = 1..n
  BY DatedLen
<1>2. CASE ~(n > LegacyLimit)
  <2>1. Legacy!Capped(m) = m
    BY <1>1, <1>2 DEF Legacy!Capped
  <2> QED
    BY <2>1, UidIn
<1>3. CASE n > LegacyLimit
  <2>1. PICK S : S = Items(m) /\ S = {m[i] : i \in 1..n}
    BY <1>1, Zenon DEF Items
  <2>2. PICK b : /\ b = Legacy!ByTime(m) /\ b \in [1..n -> S] /\ {b[i] : i \in 1..n} = S
                 /\ \A i, j \in 1..n : i < j => b[i].time < b[j].time
    <3>1. PICK b : b = Legacy!ByTime(m)
      OBVIOUS
    <3>2. b \in [1..n -> S] /\ Items(b) = S /\ \A i, j \in 1..n : i < j => b[i].time < b[j].time
      BY <1>1, <2>1, <3>1, ByTimeSorts, Zenon
    <3> QED
      BY <3>1, <3>2 DEF Items
  <2>3. PICK l \in 1..n : l = n - LegacyLimit + 1 /\ LegacyLimit \in Nat /\ LegacyLimit >= 1 /\ n \in l..n
    <3>1. LegacyLimit \in Nat /\ LegacyLimit >= 1
      BY LegacyAssumption
    <3> QED
      BY <1>3, <3>1
  <2>4. b \in Seq(S) /\ Len(b) = n
    BY <2>2, FunctionSeq
  <2>5. PICK c : c = Legacy!Capped(m)
    OBVIOUS
  <2>6. c = SubSeq(b, l, n)
    BY <1>1, <1>3, <2>2, <2>3, <2>5, Zenon DEF Legacy!Capped
  <2>7. c \in Seq(S) /\ Len(c) = n - l + 1 /\ (\A i \in 1..(n - l + 1) : c[i] = b[l + i - 1])
    <3>1. l \in Int /\ n \in Int /\ l <= n /\ \A i \in l..n : i \in 1..Len(b)
      BY <2>3, <2>4
    <3>2. /\ c \in Seq(S) /\ Len(c) = (IF l <= n THEN n - l + 1 ELSE 0)
          /\ \A i \in 1..(n - l + 1) : c[i] = b[l + i - 1]
      BY <2>4, <2>6, <3>1, SubSeqProperties
    <3> QED
      BY <3>1, <3>2
  <2>8. n - l + 1 = LegacyLimit /\ DOMAIN c = 1..LegacyLimit
    BY <2>3, <2>7
  <2>9. \A i \in 1..LegacyLimit : l + i - 1 \in 1..n /\ c[i] = b[l + i - 1] /\ b[l + i - 1] \in S
    <3>1. \A i \in 1..LegacyLimit : l + i - 1 \in 1..n
      BY <2>3
    <3> QED
      BY <2>2, <2>7, <2>8, <3>1
  <2>10. \A i \in 1..n : Entry(m[i]) /\ m[i].time \in Nat /\ m[i].time < T + 1
    BY <1>1, Zenon DEF Dated, Entry
  <2>11. \A e \in S : Entry(e) /\ e.time \in Nat /\ e.time < T + 1
    BY <2>1, <2>10
  <2>12. \A i \in 1..LegacyLimit : Entry(c[i]) /\ c[i].time < T + 1
    BY <2>9, <2>11
  <2>13. \A e, f \in S : e.uuid = f.uuid \/ e.time = f.time => e = f
    BY <1>1, <2>1, Zenon DEF Dated
  <2>14. ASSUME NEW i \in 1..LegacyLimit, NEW j \in 1..LegacyLimit, c[i].uuid = c[j].uuid \/ c[i].time = c[j].time PROVE i = j
    <3>1. b[l + i - 1] = b[l + j - 1] /\ l + i - 1 \in 1..n /\ l + j - 1 \in 1..n
      BY <2>9, <2>13, <2>14
    <3>2. b[l + i - 1].time \in Nat
      BY <2>9, <2>11
    <3>3. ~(l + i - 1 < l + j - 1) /\ ~(l + j - 1 < l + i - 1)
      BY <2>2, <3>1, <3>2
    <3> QED
      BY <2>3, <3>3
  <2>15. Dated(c, T + 1)
    <3>1. c = [i \in 1..LegacyLimit |-> c[i]]
      BY <2>7, <2>8
    <3> QED
      BY <2>3, <2>8, <2>12, <2>14, <3>1, DatedFunction, Zenon
  <2>16. b[n] = m[k]
    <3>1. PICK i \in 1..n : b[i] = m[k]
      BY <1>1, <2>1, <2>2, Zenon
    <3>2. n \in 1..n /\ b[n] \in S
      BY <2>2, <2>3
    <3>3. b[n].time \in Nat /\ b[n].time < T + 1
      BY <2>11, <3>2
    <3>4. ~(i < n)
      BY <2>2, <3>1, <3>2, <3>3
    <3> QED
      BY <3>1, <3>2, <3>4
  <2>17. LegacyLimit \in DOMAIN c /\ c[LegacyLimit] = m[k]
    <3>1. LegacyLimit \in 1..LegacyLimit /\ l + LegacyLimit - 1 = n
      BY <2>3
    <3> QED
      BY <2>8, <2>9, <2>16, <3>1
  <2> QED
    BY <2>5, <2>15, <2>17, UidIn
<1> QED
  BY <1>2, <1>3

\* r has only what is from before t
Precedes(r, t) == (r.kind = "ingest" => r.rec.time < t) /\ (r.kind = "refresh" => Dated(r.doc, t))
Placed(r, n) == /\ r.kind \in {"ingest", "refresh"}
                /\ r.kind = "ingest" => Entry(r.rec)
                /\ Precedes(r, n)

\* the chain brings its ingests in the order of their times, behind the documents that were read before
InTurn(c, n) ==
  /\ c \in Seq(Items(c))
  /\ \A k \in DOMAIN c : Placed(c[k], n)
  /\ \A i, k \in DOMAIN c : i < k /\ c[k].kind = "ingest" => Precedes(c[i], c[k].rec.time)
Ready(s, c) == \A k \in DOMAIN c : c[k].kind = "ingest" => Dated(s, c[k].rec.time)
ReadyAfter(s, c) == \A k \in DOMAIN c : k # 1 /\ c[k].kind = "ingest" => Dated(s, c[k].rec.time)

\* the document about to be written has what is to be answered, and may drop what it drops
Runs(s, c, d, may, n) ==
  /\ c # <<>> /\ Dated(d, n) /\ ReadyAfter(d, c)
  /\ Uids(s) \ Uids(d) \subseteq may
  /\ c[1].kind = "ingest" => c[1].rec.uuid \in Uids(d)

LegacyInv ==
  /\ leops \in Nat
  /\ \E b : lefile = [good |-> b, recs |-> lefile.recs]
  /\ Dated(lefile.recs, leops + 1)
  /\ \A s \in lereaders : Dated(s, leops + 1)
  /\ InTurn(lechain, leops + 1) /\ Ready(lefile.recs, lechain)
  /\ letask.on => Runs(lefile.recs, lechain, letask.doc, letask.may, leops + 1)
  /\ lewriting => letask.on
  /\ leanswered \subseteq Uids(lefile.recs) \cup legone

LEMMA PrecedesLater ==
  ASSUME NEW r, NEW t \in Nat, Precedes(r, t), NEW t2 \in Nat, t <= t2, r.kind = "ingest" => r.rec.time \in Nat
  PROVE  Precedes(r, t2)
  BY DatedLater DEF Precedes

LEMMA SoundLater ==
  ASSUME NEW r, NEW t \in Nat, Placed(r, t), NEW t2 \in Nat, t <= t2
  PROVE  Placed(r, t2)
<1>1. r.kind = "ingest" => r.rec.time \in Nat
  BY DEF Placed, Entry
<1> QED
  BY <1>1, PrecedesLater DEF Placed

LEMMA InTurnEmpty == ASSUME NEW n PROVE InTurn(<<>>, n)
<1>1. DOMAIN <<>> = {}
  OBVIOUS
<1> QED
  BY <1>1, EmptySeq DEF InTurn

LEMMA InTurnLater ==
  ASSUME NEW c, NEW n \in Nat, InTurn(c, n), NEW m \in Nat, n <= m
  PROVE  InTurn(c, m)
  BY SoundLater DEF InTurn

LEMMA TailIs ==
  ASSUME NEW c, c \in Seq(Items(c)), c # <<>>
  PROVE  /\ Tail(c) \in Seq(Items(Tail(c))) /\ 1 \in DOMAIN c /\ Head(c) = c[1]
         /\ \A k \in DOMAIN Tail(c) : k + 1 \in DOMAIN c /\ k + 1 # 1 /\ Tail(c)[k] = c[k + 1] /\ k \in Nat
<1>1. PICK n \in Nat : n = Len(c) /\ DOMAIN c = 1..n /\ n >= 1
  BY EmptySeq
<1>2. PICK t : t = Tail(c)
  BY Zenon
<1>3. PICK S : S = Items(c)
  OBVIOUS
<1>4. t \in Seq(S) /\ Len(t) = n - 1 /\ \A k \in 1..(n - 1) : t[k] = c[k + 1]
  BY <1>1, <1>2, <1>3, HeadTailProperties
<1>5. PICK m \in Nat : m = n - 1 /\ DOMAIN t = 1..m /\ t = [k \in 1..m |-> t[k]]
  BY <1>1, <1>4
<1>6. t \in [1..m -> Items(t)]
  BY <1>5 DEF Items
<1>7. t \in Seq(Items(t))
  BY <1>6, FunctionSeq
<1>8. \A k \in 1..m : k + 1 \in 1..n /\ k + 1 # 1 /\ k \in Nat
  BY <1>1, <1>5
<1>9. 1 \in 1..n /\ Head(c) = c[1]
  BY <1>1
<1> QED
  BY <1>1, <1>2, <1>4, <1>5, <1>7, <1>8, <1>9

LEMMA InTurnTail ==
  ASSUME NEW c, NEW n, InTurn(c, n), c # <<>>
  PROVE  /\ InTurn(Tail(c), n)
         /\ \A s : Ready(s, c) => Ready(s, Tail(c))
         /\ \A s : ReadyAfter(s, c) => Ready(s, Tail(c))
<1>1. PICK t : t = Tail(c)
  BY Zenon
<1>2. /\ t \in Seq(Items(t))
      /\ \A k \in DOMAIN t : k + 1 \in DOMAIN c /\ k + 1 # 1 /\ t[k] = c[k + 1] /\ k \in Nat
  BY <1>1, TailIs DEF InTurn
<1>3. \A k \in DOMAIN t : Placed(t[k], n)
  BY <1>2 DEF InTurn
<1>4. \A i, k \in DOMAIN t : i < k /\ t[k].kind = "ingest" => Precedes(t[i], t[k].rec.time)
  <2>1. \A i, k \in DOMAIN t : i < k => i + 1 < k + 1
    BY <1>2
  <2> QED
    BY <1>2, <2>1 DEF InTurn
<1> QED
  BY <1>1, <1>2, <1>3, <1>4 DEF InTurn, Ready, ReadyAfter

LEMMA InTurnAppend ==
  ASSUME NEW c, NEW n, InTurn(c, n), NEW r, Placed(r, n),
         r.kind = "ingest" => \A k \in DOMAIN c : Precedes(c[k], r.rec.time)
  PROVE  /\ InTurn(Append(c, r), n)
         /\ \A s : Ready(s, c) /\ (r.kind = "ingest" => Dated(s, r.rec.time)) => Ready(s, Append(c, r))
         /\ \A s, d, may, m : Runs(s, c, d, may, m) /\ (r.kind = "ingest" => Dated(d, r.rec.time))
                                => Runs(s, Append(c, r), d, may, m)
<1>1. PICK S : S = Items(c) \cup {r}
  BY Zenon
<1>2. c \in Seq(S) /\ r \in S
  BY <1>1 DEF InTurn
<1>3. PICK l \in Nat : l = Len(c) /\ DOMAIN c = 1..l
  BY <1>2
<1>4. PICK a : a = Append(c, r)
  BY Zenon
<1>5. a \in Seq(S) /\ Len(a) = l + 1 /\ (\A k \in 1..l : a[k] = c[k]) /\ a[l + 1] = r /\ a # <<>>
  BY <1>2, <1>3, <1>4, AppendProperties
<1>6. DOMAIN a = 1..(l + 1)
  BY <1>5
<1>7. a \in Seq(Items(a))
  <2>1. a \in [1..(l + 1) -> Items(a)]
    BY <1>5, <1>6 DEF Items
  <2> QED
    BY <2>1, FunctionSeq
<1>8. \A k \in 1..(l + 1) : k = l + 1 \/ k \in 1..l
  OBVIOUS
<1>9. \A k \in 1..(l + 1) : Placed(a[k], n)
  BY <1>3, <1>5, <1>8 DEF InTurn
<1>10. ASSUME NEW i \in 1..(l + 1), NEW k \in 1..(l + 1), i < k, a[k].kind = "ingest"
       PROVE  Precedes(a[i], a[k].rec.time)
  <2>1. i \in 1..l
    BY <1>10
  <2>2. CASE k \in 1..l
    BY <1>3, <1>5, <1>10, <2>1, <2>2 DEF InTurn
  <2>3. CASE k = l + 1
    BY <1>3, <1>5, <1>10, <2>1, <2>3
  <2> QED
    BY <1>8, <2>2, <2>3
<1>11. InTurn(a, n)
  BY <1>6, <1>7, <1>9, <1>10 DEF InTurn
<1>12. ASSUME NEW s, Ready(s, c), r.kind = "ingest" => Dated(s, r.rec.time) PROVE Ready(s, a)
  BY <1>3, <1>5, <1>6, <1>8, <1>12 DEF Ready
<1>13. ASSUME NEW s, NEW d, NEW may, NEW m, Runs(s, c, d, may, m), r.kind = "ingest" => Dated(d, r.rec.time)
       PROVE  Runs(s, a, d, may, m)
  <2>1. ReadyAfter(d, a)
    BY <1>3, <1>5, <1>6, <1>8, <1>13 DEF ReadyAfter, Runs
  <2>2. a[1] = c[1]
    <3>1. l >= 1
      BY <1>2, <1>3, <1>13, EmptySeq DEF Runs
    <3> QED
      BY <1>5, <3>1
  <2> QED
    BY <1>5, <1>13, <2>1, <2>2 DEF Runs
<1> QED
  BY <1>4, <1>11, <1>12, <1>13

LEMMA TurnRuns ==
  ASSUME NEW c, NEW n \in Nat, InTurn(c, n), c # <<>>, NEW recs, Dated(recs, n), Ready(recs, c),
         NEW s \in {recs, <<>>}, NEW r, r = c[1],
         NEW d, r.kind = "ingest" => d = Legacy!Capped(Legacy!Merged(s, r.rec)), r.kind = "refresh" => d = r.doc,
         NEW may, r.kind = "refresh" \/ s # recs => may = LegacyUuids,
         ~(r.kind = "refresh" \/ s # recs) => may = Uids(Legacy!Merged(s, r.rec)) \ Uids(d)
  PROVE  Runs(recs, c, d, may, n)
<1>1. 1 \in DOMAIN c /\ Placed(r, n)
  <2>1. 1 \in DOMAIN c
    BY TailIs DEF InTurn
  <2> QED
    BY <2>1 DEF InTurn
<1>2. \A k \in DOMAIN c : k # 1 => 1 < k
  BY DEF InTurn
<1>3. \A k \in DOMAIN c : k # 1 /\ c[k].kind = "ingest" => Precedes(r, c[k].rec.time)
  BY <1>1, <1>2 DEF InTurn
<1>4. \A k \in DOMAIN c : c[k].kind = "ingest" => c[k].rec.time \in Nat
  BY Zenon DEF InTurn, Placed, Entry
<1>5. Uids(recs) \subseteq LegacyUuids
  BY UidsDated
<1>6. CASE r.kind = "refresh"
  <2>1. Dated(d, n)
    BY <1>1, <1>6 DEF Placed, Precedes
  <2>2. ReadyAfter(d, c)
    BY <1>3, <1>6 DEF ReadyAfter, Precedes
  <2> QED
    BY <1>5, <1>6, <2>1, <2>2 DEF Runs
<1>7. CASE r.kind = "ingest"
  <2>1. PICK e : e = r.rec /\ Entry(e) /\ e.time < n /\ e.time \in Nat
    BY <1>1, <1>7 DEF Placed, Precedes, Entry
  <2>2. Dated(s, e.time)
    BY <1>1, <1>7, <2>1, DatedEmpty DEF Ready
  <2>3. PICK m : m = Legacy!Merged(s, e)
    OBVIOUS
  <2>4. Dated(m, e.time + 1) /\ (\E k \in DOMAIN m : m[k].uuid = e.uuid /\ m[k].time = e.time) /\ Uids(s) \subseteq Uids(m)
    BY <2>1, <2>2, <2>3, MergedDated
  <2>5. PICK k \in DOMAIN m : m[k].uuid = e.uuid /\ m[k].time = e.time
    BY <2>4
  <2>6. Dated(d, e.time + 1) /\ e.uuid \in Uids(d)
    BY <1>7, <2>1, <2>3, <2>4, <2>5, CappedDated
  <2>7. Dated(d, n)
    BY <2>1, <2>6, DatedLater
  <2>8. ASSUME NEW i \in DOMAIN c, i # 1, c[i].kind = "ingest" PROVE Dated(d, c[i].rec.time)
    <3>1. e.time < c[i].rec.time /\ c[i].rec.time \in Nat
      BY <1>3, <1>4, <1>7, <2>1, <2>8 DEF Precedes
    <3> QED
      BY <2>1, <2>6, <3>1, DatedLater
  <2>9. Uids(recs) \ Uids(d) \subseteq may
    BY <1>5, <1>7, <2>1, <2>3, <2>4
  <2> QED
    BY <2>1, <2>6, <2>7, <2>8, <2>9 DEF Runs, ReadyAfter
<1> QED
  BY <1>1, <1>6, <1>7 DEF Placed

LEMMA LegacyInit == Legacy!Init => LegacyInv
<1> SUFFICES ASSUME Legacy!Init PROVE LegacyInv
  OBVIOUS
<1>1. lefile = [good |-> TRUE, recs |-> <<>>] /\ lechain = <<>> /\ leops = 0 /\ leanswered = {} /\ lereaders = {}
  BY DEF Legacy!Init
<1>2. ~letask.on /\ ~lewriting
  BY DEF Legacy!Init, Legacy!NoTask
<1>3. Dated(<<>>, 1) /\ InTurn(<<>>, 1) /\ Ready(<<>>, <<>>)
  BY DatedEmpty, InTurnEmpty DEF Ready
<1>4. leops + 1 = 1 /\ lefile.recs = <<>>
  BY <1>1
<1> QED
  BY <1>1, <1>2, <1>3, <1>4, Zenon DEF LegacyInv

LEMMA LegacyStep == ASSUME LegacyInv, [Legacy!Next]_leVars PROVE LegacyInv'
<1>1. PICK n \in Nat : n = leops + 1
  BY DEF LegacyInv
<1>2. PICK recs : /\ n = leops + 1 /\ recs = lefile.recs /\ leops \in Nat
                  /\ Dated(recs, n) /\ (\A s \in lereaders : Dated(s, n))
                  /\ InTurn(lechain, n) /\ Ready(recs, lechain)
                  /\ leanswered \subseteq Uids(recs) \cup legone
  BY <1>1 DEF LegacyInv
<1>3. \E b : lefile = [good |-> b, recs |-> recs]
  BY <1>2 DEF LegacyInv
<1>4. letask.on => Runs(recs, lechain, letask.doc, letask.may, n)
  BY <1>2 DEF LegacyInv
<1>5. lewriting => letask.on
  BY DEF LegacyInv
<1>6. ASSUME leops' = leops + 1
      PROVE  /\ leops' \in Nat /\ leops' + 1 = n + 1 /\ n + 1 \in Nat
             /\ Dated(recs, n + 1) /\ (\A s \in lereaders : Dated(s, n + 1))
             /\ InTurn(lechain, n + 1)
             /\ letask.on => Runs(recs, lechain, letask.doc, letask.may, n + 1)
  <2>1. n + 1 \in Nat /\ n <= n + 1 /\ leops' \in Nat /\ leops' + 1 = n + 1
    BY <1>2, <1>6
  <2>2. Dated(recs, n + 1) /\ (\A s \in lereaders : Dated(s, n + 1)) /\ InTurn(lechain, n + 1)
    BY <1>2, <2>1, DatedLater, InTurnLater
  <2>3. ASSUME letask.on PROVE Runs(recs, lechain, letask.doc, letask.may, n + 1)
    BY <1>4, <2>1, <2>3, DatedLater DEF Runs
  <2> QED
    BY <2>1, <2>2, <2>3, Zenon
<1>7. ASSUME NEW u \in LegacyUuids, Legacy!Ingest(u) PROVE LegacyInv'
  <2>1. PICK r : /\ r = [kind |-> "ingest", rec |-> [uuid |-> u, time |-> leops', parent |-> {}],
                         doc |-> <<>>, read |-> lefile.recs]
                 /\ lechain' = Append(lechain, r)
    BY <1>7 DEF Legacy!Ingest
  <2>2. leops' = leops + 1 /\ leops' = n
    BY <1>2, <1>7 DEF Legacy!Ingest
  <2>3. r.kind = "ingest" /\ r.rec = [uuid |-> u, time |-> n, parent |-> {}] /\ r.rec.time = n
    BY <2>1, <2>2, Zenon
  <2>4. Entry(r.rec)
    BY <2>3 DEF Entry
  <2>5. Placed(r, n + 1)
    BY <2>3, <2>4 DEF Placed, Precedes
  <2>6. \A k \in DOMAIN lechain : Precedes(lechain[k], r.rec.time)
    BY <1>2, <2>3 DEF InTurn, Placed
  <2>7. PICK c : c = lechain' /\ c = Append(lechain, r)
    BY <2>1
  <2>8. InTurn(c, n + 1) /\ Ready(recs, c)
    BY <1>2, <1>6, <2>2, <2>3, <2>5, <2>6, <2>7, InTurnAppend
  <2>9. ASSUME letask.on PROVE Runs(recs, c, letask.doc, letask.may, n + 1)
    <3>1. Runs(recs, lechain, letask.doc, letask.may, n + 1) /\ Dated(letask.doc, r.rec.time)
      BY <1>4, <1>6, <2>2, <2>3, <2>9 DEF Runs
    <3> QED
      BY <1>6, <2>2, <2>3, <2>5, <2>6, <2>7, <3>1, InTurnAppend
  <2>10. UNCHANGED <<lefile, letask, lereaders, lewriting, leanswered, legone>>
    BY <1>7 DEF Legacy!Ingest
  <2> QED
    BY <1>2, <1>3, <1>5, <1>6, <2>2, <2>7, <2>8, <2>9, <2>10, Zenon DEF LegacyInv
<1>8. CASE Legacy!Refused
  <2>1. lechain # <<>> /\ lechain' = Tail(lechain) /\ ~letask.on
    BY <1>8 DEF Legacy!Refused
  <2>2. InTurn(lechain', n) /\ Ready(recs, lechain')
    BY <1>2, <2>1, InTurnTail, Zenon
  <2>3. UNCHANGED <<lefile, letask, lereaders, lewriting, leops, leanswered, legone>>
    BY <1>8 DEF Legacy!Refused
  <2> QED
    BY <1>2, <1>3, <1>5, <2>1, <2>2, <2>3, Zenon DEF LegacyInv
<1>9. CASE Legacy!Begin
  <2>1. PICK s \in {recs, <<>>} : Legacy!Turn(Head(lechain), s)
    BY <1>2, <1>9 DEF Legacy!Begin, Legacy!Readings
  <2>2. PICK r, d, may : /\ r = lechain[1] /\ r = Head(lechain)
                         /\ d = IF r.kind = "ingest" THEN Legacy!Capped(Legacy!Merged(s, r.rec)) ELSE r.doc
                         /\ may = IF r.kind = "refresh" \/ s # lefile.recs THEN LegacyUuids
                                  ELSE Legacy!IdsOf(Legacy!Merged(s, r.rec)) \ Legacy!IdsOf(d)
                         /\ letask' = [on |-> TRUE, doc |-> d, may |-> may]
    <3>1. lechain # <<>> /\ Head(lechain) = lechain[1]
      BY <1>2, <1>9, TailIs DEF Legacy!Begin, InTurn
    <3> QED
      BY <2>1, <3>1, Zenon DEF Legacy!Turn
  <2>3. lechain # <<>> /\ UNCHANGED <<lefile, lechain, lereaders, lewriting, leops, leanswered, legone>>
    BY <1>9, <2>1 DEF Legacy!Begin, Legacy!Turn
  <2>4. Runs(recs, lechain, d, may, n)
    <3>1. r.kind = "ingest" => d = Legacy!Capped(Legacy!Merged(s, r.rec))
      BY <2>2
    <3>2. r.kind = "refresh" => d = r.doc
      BY <2>2
    <3>3. r.kind = "refresh" \/ s # recs => may = LegacyUuids
      BY <1>2, <2>2
    <3>4. ~(r.kind = "refresh" \/ s # recs) => may = Uids(Legacy!Merged(s, r.rec)) \ Uids(d)
      BY <1>2, <2>2, UidsAre
    <3> QED
      BY <1>2, <2>2, <2>3, <3>1, <3>2, <3>3, <3>4, TurnRuns, Zenon
  <2>5. letask'.on /\ letask'.doc = d /\ letask'.may = may
    BY <2>2
  <2> QED
    BY <1>2, <1>3, <2>3, <2>4, <2>5, Zenon DEF LegacyInv
<1>10. CASE Legacy!Truncate
  <2>1. letask.on /\ lefile' = [lefile EXCEPT !.good = FALSE]
        /\ UNCHANGED <<lechain, letask, lereaders, leops, leanswered, legone>>
    BY <1>10 DEF Legacy!Truncate
  <2>2. PICK b : lefile = [good |-> b, recs |-> recs]
    BY <1>3
  <2>3. lefile' = [good |-> FALSE, recs |-> recs]
    BY <2>1, <2>2, Zenon
  <2> QED
    BY <1>2, <1>4, <2>1, <2>3, Zenon DEF LegacyInv
<1>11. CASE Legacy!Written
  <2>1. PICK d : d = letask.doc /\ lefile' = [good |-> TRUE, recs |-> d]
    BY <1>11, Zenon DEF Legacy!Written
  <2>2. Runs(recs, lechain, d, letask.may, n)
    BY <1>4, <1>11, <2>1 DEF Legacy!Written
  <2>3. /\ lechain' = Tail(lechain) /\ lechain # <<>> /\ UNCHANGED <<lereaders, leops>>
        /\ ~letask'.on /\ ~lewriting'
    BY <1>11, <2>2 DEF Legacy!Written, Runs, Legacy!NoTask
  <2>4. InTurn(lechain', n) /\ Ready(d, lechain')
    BY <1>2, <2>2, <2>3, InTurnTail DEF Runs
  <2>5. leanswered' \subseteq Uids(d) \cup legone'
    <3>1. legone' = (legone \ Uids(d)) \cup ((Uids(recs) \ Uids(d)) \cap letask.may)
      BY <1>2, <1>11, <2>1, UidsAre DEF Legacy!Written
    <3>2. Head(lechain) = lechain[1]
      BY <1>2, <2>3, TailIs DEF InTurn
    <3>3. leanswered' \subseteq leanswered \cup Uids(d)
      BY <1>11, <2>2, <3>2 DEF Legacy!Written, Runs
    <3>4. Uids(recs) \ Uids(d) \subseteq letask.may
      BY <2>2 DEF Runs
    <3> QED
      BY <1>2, <3>1, <3>3, <3>4
  <2>6. Dated(d, n) /\ lefile'.recs = d
    BY <2>1, <2>2 DEF Runs
  <2> QED
    BY <1>2, <2>1, <2>3, <2>4, <2>5, <2>6, Zenon DEF LegacyInv
<1>12. CASE Legacy!WriteFails
  <2>1. /\ lechain' = Tail(lechain) /\ letask.on /\ ~letask'.on /\ ~lewriting
        /\ UNCHANGED <<lefile, lereaders, lewriting, leops, leanswered, legone>>
    BY <1>12 DEF Legacy!WriteFails, Legacy!NoTask
  <2>2. lechain # <<>>
    BY <1>4, <2>1 DEF Runs
  <2>3. InTurn(lechain', n) /\ Ready(recs, lechain')
    BY <1>2, <2>1, <2>2, InTurnTail, Zenon
  <2> QED
    BY <1>2, <1>3, <2>1, <2>3, Zenon DEF LegacyInv
<1>13. CASE Legacy!RefreshReads
  <2>1. PICK s \in {recs, <<>>} : lereaders' = lereaders \cup {s}
    BY <1>2, <1>13 DEF Legacy!RefreshReads, Legacy!Readings
  <2>2. leops' = leops + 1 /\ UNCHANGED <<lefile, lechain, letask, lewriting, leanswered, legone>>
    BY <1>13 DEF Legacy!RefreshReads
  <2>3. \A x \in lereaders' : Dated(x, n + 1)
    BY <1>6, <2>1, <2>2, DatedEmpty
  <2> QED
    BY <1>2, <1>3, <1>5, <1>6, <2>2, <2>3, Zenon DEF LegacyInv
<1>14. CASE Legacy!RefreshWrites
  <2>1. PICK s \in lereaders : /\ lereaders' = lereaders \ {s}
                               /\ lechain' = IF Legacy!Refreshed(s) = s THEN lechain
                                             ELSE Append(lechain, [kind |-> "refresh", doc |-> Legacy!Refreshed(s), read |-> <<>>,
                                                                   rec |-> [uuid |-> s[1].uuid, time |-> 0, parent |-> {}]])
                               /\ UNCHANGED <<lefile, letask, lewriting, leops, leanswered, legone>>
    BY <1>14, Zenon DEF Legacy!RefreshWrites
  <2>2. CASE lechain' = lechain
    BY <1>2, <1>3, <1>4, <1>5, <2>1, <2>2, Zenon DEF LegacyInv
  <2>3. CASE lechain' # lechain
    <3>1. PICK r : /\ r = [kind |-> "refresh", doc |-> Legacy!Refreshed(s), read |-> <<>>,
                           rec |-> [uuid |-> s[1].uuid, time |-> 0, parent |-> {}]]
                   /\ lechain' = Append(lechain, r)
      BY <2>1, <2>3
    <3>2. r.kind = "refresh" /\ r.doc = Legacy!Refreshed(s)
      BY <3>1
    <3>3. Placed(r, n)
      BY <1>2, <3>2, RefreshedDated DEF Placed, Precedes
    <3>4. PICK c : c = lechain' /\ c = Append(lechain, r)
      BY <3>1, Zenon
    <3>5. InTurn(c, n) /\ Ready(recs, c)
      BY <1>2, <3>2, <3>3, <3>4, InTurnAppend
    <3>6. letask.on => Runs(recs, c, letask.doc, letask.may, n)
      BY <1>2, <1>4, <3>2, <3>3, <3>4, InTurnAppend
    <3> QED
      BY <1>2, <1>3, <1>5, <2>1, <3>4, <3>5, <3>6, Zenon DEF LegacyInv
  <2> QED
    BY <2>2, <2>3
<1>15. CASE Legacy!Crash
  <2>1. /\ leops' = leops + 1 /\ lechain' = <<>> /\ ~letask'.on /\ ~lewriting' /\ lereaders' = {} /\ leanswered' = leanswered
    BY <1>15 DEF Legacy!Crash, Legacy!NoTask
  <2>2. CASE lewriting
    <3>1. lefile' = [good |-> FALSE, recs |-> <<>>] /\ legone' = legone \cup Uids(recs)
      BY <1>2, <1>15, <2>2, UidsAre DEF Legacy!Crash
    <3>2. lefile'.recs = <<>> /\ Dated(<<>>, n + 1) /\ InTurn(<<>>, n + 1) /\ Ready(<<>>, <<>>)
      BY <3>1, DatedEmpty, InTurnEmpty DEF Ready
    <3> QED
      BY <1>2, <1>6, <2>1, <3>1, <3>2, Zenon DEF LegacyInv
  <2>3. CASE ~lewriting
    <3>1. UNCHANGED <<lefile, legone>>
      BY <1>15, <2>3 DEF Legacy!Crash
    <3>2. InTurn(<<>>, n + 1) /\ Ready(recs, <<>>)
      BY InTurnEmpty DEF Ready
    <3> QED
      BY <1>2, <1>3, <1>6, <2>1, <3>1, <3>2, Zenon DEF LegacyInv
  <2> QED
    BY <2>2, <2>3
<1>16. CASE UNCHANGED leVars
  BY <1>16 DEF leVars, LegacyInv
<1> QED
  BY <1>7, <1>8, <1>9, <1>10, <1>11, <1>12, <1>13, <1>14, <1>15, <1>16 DEF Legacy!Next

LEMMA LegacyMoves == [Next]_vars => [Legacy!Next]_leVars
  BY DEF Next, vars, StreamKeeps, PatchKeeps, GatewayKeeps, StoreKeeps, FileKeeps, MatchKeeps, AuthKeeps,
         ChannelKeeps, SerialKeeps

LEMMA LegacyStores == LegacyInv => Legacy!StoredKept
  BY UidsAre DEF LegacyInv, Legacy!StoredKept

-------------------------------------------------------------------------------
(* The channel to the backend.  A record that the channel took is stored, waits *)
(* or is one that the server or a reload dropped, and that set only grows; only  *)
(* a flush holds a part of the queue, and only received records are confirmed.  *)

DeliveryStages == {"new", "checking", "ready", "flush", "send", "waiting", "reset", "http", "stored", "queued", "failed"}

Delivery == [stage : DeliveryStages, try : Nat, held : Seq(Records)]

Queued(g) == UNION {Items(g[i].held) : i \in Records}

\* what is stored, waits, or was dropped
Known(g, q, r, d) == r \cup d \cup Items(q) \cup Queued(g)

ChannelOk(g, c, f, q, r, d) ==
  /\ g \in [Records -> Delivery] /\ q \in Seq(Records)
  /\ \A i \in Records : g[i].held # <<>> => g[i].stage = "flush"
  /\ c \subseteq Records /\ \A i \in c : g[i].stage = "waiting"
  /\ \A x \in f : x[1] \in r
  /\ \A i \in Records : g[i].stage = "stored" => i \in r
  /\ \A i \in Records : g[i].stage = "queued" => i \in Known(g, q, r, d)

ChannelInv == ChannelOk(chingest, chconfirming, chframes, chqueue, chreceived, chdropped)

\* each delivery of h is one of g, or at another stage, with r stored
GoesOn(g, h, r) ==
  /\ h \in [Records -> Delivery]
  /\ \A i \in Records : h[i] = g[i] \/ /\ h[i].held = g[i].held /\ g[i].stage # "flush"
                                       /\ h[i].stage \in {"stored", "queued"} => i \in r
Waiters(h, c) == c \subseteq Records /\ \A i \in c : h[i].stage = "waiting"
Confirmed(f, f2, r) == \A x \in f2 : x \in f \/ x[1] \in r

\* deliveries go on as h, without losing a record
LEMMA ChannelGoesOn ==
  ASSUME NEW g, NEW c, NEW f, NEW q, NEW r, NEW d, ChannelOk(g, c, f, q, r, d),
         NEW h, NEW r2, r \subseteq r2, GoesOn(g, h, r2), NEW c2, Waiters(h, c2), NEW f2, Confirmed(f, f2, r2)
  PROVE  ChannelOk(h, c2, f2, q, r2, d)
<1>1. \A i \in Records : h[i].held = g[i].held
  BY DEF GoesOn
<1>2. Queued(h) = Queued(g)
  BY <1>1 DEF Queued
<1>3. Known(g, q, r, d) \subseteq Known(h, q, r2, d)
  BY <1>2 DEF Known
<1>4. r2 \subseteq Known(h, q, r2, d)
  BY DEF Known
<1> QED
  BY <1>1, <1>3, <1>4 DEF ChannelOk, GoesOn, Waiters, Confirmed

LEMMA StageMoves ==
  ASSUME NEW g \in [Records -> Delivery], NEW i \in Records, NEW s \in DeliveryStages,
         NEW h, h = [g EXCEPT ![i].stage = s]
  PROVE  /\ h \in [Records -> Delivery] /\ h[i].stage = s /\ h[i].held = g[i].held
         /\ \A j \in Records \ {i} : h[j] = g[j]
<1>1. PICK x \in Delivery : x = g[i]
  OBVIOUS
<1>2. PICK y : y = [x EXCEPT !.stage = s]
  BY Zenon
<1>3. y \in Delivery /\ y.stage = s /\ y.held = x.held
  BY <1>2, Zenon DEF Delivery
<1>4. h = [g EXCEPT ![i] = y]
  BY <1>1, <1>2, Zenon
<1> QED
  BY <1>1, <1>3, <1>4

LEMMA Fails ==
  ASSUME NEW g \in [Records -> Delivery], NEW S
  PROVE  /\ Channel!Failing(g, S) \in [Records -> Delivery]
         /\ \A j \in Records : IF j \in S THEN /\ Channel!Failing(g, S)[j].stage = "reset"
                                               /\ Channel!Failing(g, S)[j].held = g[j].held
                                          ELSE Channel!Failing(g, S)[j] = g[j]
<1>1. PICK h : h = Channel!Failing(g, S)
  OBVIOUS
<1>2. h = [j \in Records |-> IF j \in S THEN [g[j] EXCEPT !.stage = "reset"] ELSE g[j]]
  BY <1>1 DEF Channel!Failing
<1>3. ASSUME NEW j \in Records
      PROVE h[j] \in Delivery /\ IF j \in S THEN h[j].stage = "reset" /\ h[j].held = g[j].held ELSE h[j] = g[j]
  <2>1. PICK x \in Delivery : x = g[j]
    OBVIOUS
  <2>2. PICK y : y = [x EXCEPT !.stage = "reset"]
    BY Zenon
  <2>3. y \in Delivery /\ y.stage = "reset" /\ y.held = x.held
    BY <2>2, Zenon DEF Delivery, DeliveryStages
  <2>4. h[j] = IF j \in S THEN y ELSE x
    BY <1>2, <2>1, <2>2
  <2> QED
    BY <2>1, <2>3, <2>4
<1> QED
  BY <1>1, <1>2, <1>3

\* one delivery comes to the stage s
LEMMA ChannelMoves ==
  ASSUME NEW g, NEW c, NEW f, NEW q, NEW r, NEW d, ChannelOk(g, c, f, q, r, d),
         NEW i \in Records, g[i].stage # "flush", NEW s \in DeliveryStages, NEW r2, r \subseteq r2,
         s \in {"stored", "queued"} => i \in r2,
         NEW h, h = [g EXCEPT ![i].stage = s],
         NEW c2 \in SUBSET c, i \notin c2, NEW f2 \in SUBSET f
  PROVE  ChannelOk(h, c2, f2, q, r2, d)
<1>1. g \in [Records -> Delivery] /\ c \subseteq Records /\ \A j \in c : g[j].stage = "waiting"
  BY DEF ChannelOk
<1>2. /\ h \in [Records -> Delivery] /\ h[i].stage = s /\ h[i].held = g[i].held
      /\ \A j \in Records \ {i} : h[j] = g[j]
  <2>1. PICK k : k = [g EXCEPT ![i].stage = s]
    OBVIOUS
  <2>2. /\ k \in [Records -> Delivery] /\ k[i].stage = s /\ k[i].held = g[i].held
        /\ \A j \in Records \ {i} : k[j] = g[j]
    BY <1>1, <2>1, StageMoves
  <2> QED
    BY <2>1, <2>2, Zenon
<1>3. GoesOn(g, h, r2)
  BY <1>2 DEF GoesOn
<1>4. Waiters(h, c2)
  BY <1>1, <1>2 DEF Waiters
<1>5. Confirmed(f, f2, r2)
  BY DEF Confirmed
<1> QED
  BY <1>3, <1>4, <1>5, ChannelGoesOn

\* the waiting ones among S are reset
LEMMA ChannelFails ==
  ASSUME NEW g, NEW c, NEW f, NEW q, NEW r, NEW d, ChannelOk(g, c, f, q, r, d), NEW S \in SUBSET c
  PROVE  ChannelOk(Channel!Failing(g, S), c \ S, f, q, r, d)
<1>1. g \in [Records -> Delivery] /\ c \subseteq Records /\ \A j \in c : g[j].stage = "waiting"
  BY DEF ChannelOk
<1>2. PICK h \in [Records -> Delivery] :
        /\ h = Channel!Failing(g, S)
        /\ \A j \in Records : IF j \in S THEN h[j].stage = "reset" /\ h[j].held = g[j].held ELSE h[j] = g[j]
  BY <1>1, Fails
<1>3. GoesOn(g, h, r)
  BY <1>1, <1>2 DEF GoesOn
<1>4. Waiters(h, c \ S)
  BY <1>1, <1>2 DEF Waiters
<1>5. Confirmed(f, f, r)
  BY DEF Confirmed
<1> QED
  BY <1>2, <1>3, <1>4, <1>5, ChannelGoesOn

\* the cap takes the first of a full queue
Enqueues(q, i, d, p, e) == /\ p = Append(IF Len(q) >= Cap THEN Tail(q) ELSE q, i)
                           /\ e = d \cup (IF Len(q) >= Cap THEN {Head(q)} ELSE {})

LEMMA Enqueued ==
  ASSUME NEW q \in Seq(Records), NEW i \in Records, NEW d, NEW p, NEW e, Enqueues(q, i, d, p, e)
  PROVE  p \in Seq(Records) /\ i \in Items(p) /\ d \subseteq e /\ Items(q) \subseteq Items(p) \cup e
<1>1. CASE Len(q) >= Cap
  <2>1. q # <<>>
    BY <1>1, ChannelAssumption
  <2>2. PICK t \in Seq(Records) : t = Tail(q) /\ Items(q) = {Head(q)} \cup Items(t)
    BY <2>1, ItemsHeadTail, Zenon
  <2>3. p = Append(t, i) /\ e = d \cup {Head(q)}
    BY <1>1, <2>2 DEF Enqueues
  <2>4. Append(t, i) \in Seq(Records) /\ Items(Append(t, i)) = Items(t) \cup {i}
    BY ItemsAppend
  <2> QED
    BY <2>2, <2>3, <2>4, Zenon
<1>2. CASE ~(Len(q) >= Cap)
  <2>1. p = Append(q, i) /\ e = d
    BY <1>2 DEF Enqueues
  <2> QED
    BY <2>1, ItemsAppend
<1> QED
  BY <1>1, <1>2

\* a delivery ends in the queue
LEMMA ChannelQueues ==
  ASSUME NEW g, NEW c, NEW f, NEW q, NEW r, NEW d, ChannelOk(g, c, f, q, r, d),
         NEW i \in Records, g[i].stage \notin {"flush", "waiting"}, NEW r2, r \subseteq r2,
         NEW p, NEW e, p \in Seq(Records), i \in Items(p), d \subseteq e, Items(q) \subseteq Items(p) \cup e,
         NEW h, h = [g EXCEPT ![i].stage = "queued"]
  PROVE  ChannelOk(h, c, f, p, r2, e)
<1>1. /\ h \in [Records -> Delivery] /\ h[i].stage = "queued" /\ h[i].held = g[i].held
      /\ \A j \in Records \ {i} : h[j] = g[j]
  <2>1. PICK s \in DeliveryStages : s = "queued"
    BY DEF DeliveryStages
  <2>2. g \in [Records -> Delivery] /\ h = [g EXCEPT ![i].stage = s]
    BY <2>1 DEF ChannelOk
  <2> QED
    BY <2>1, <2>2, StageMoves
<1>2. \A j \in Records : h[j].held = g[j].held
  BY <1>1
<1>3. Queued(h) = Queued(g)
  BY <1>2 DEF Queued
<1>4. Known(g, q, r, d) \subseteq Known(h, p, r2, e) /\ i \in Known(h, p, r2, e)
  BY <1>3 DEF Known
<1>5. i \notin c /\ g[i].held = <<>>
  BY DEF ChannelOk
<1> QED
  BY <1>1, <1>4, <1>5, Zenon DEF ChannelOk

\* x goes on after y: what y held or q had is held by x, in p or stored
Flushes(y, x, q, p, r) ==
  /\ x \in Delivery /\ p \in Seq(Records)
  /\ y.stage \in {"ready", "flush"} /\ x.stage \in {"send", "flush"} /\ (x.held # <<>> => x.stage = "flush")
  /\ Items(y.held) \cup Items(q) \subseteq Items(x.held) \cup Items(p) \cup r

\* a queue is taken, and sent or put back
LEMMA ChannelFlushes ==
  ASSUME NEW g, NEW c, NEW f, NEW q, NEW r, NEW d, ChannelOk(g, c, f, q, r, d),
         NEW i \in Records, NEW x, NEW h, h = [g EXCEPT ![i] = x],
         NEW p, NEW r2, r \subseteq r2, Flushes(g[i], x, q, p, r2)
  PROVE  ChannelOk(h, c, f, p, r2, d)
<1>0. /\ x \in Delivery /\ p \in Seq(Records) /\ g[i].stage \in {"ready", "flush"} /\ x.stage \in {"send", "flush"}
      /\ (x.held # <<>> => x.stage = "flush") /\ Items(g[i].held) \cup Items(q) \subseteq Items(x.held) \cup Items(p) \cup r2
  BY DEF Flushes
<1>1. /\ g \in [Records -> Delivery] /\ c \subseteq Records /\ \A j \in c : g[j].stage = "waiting"
      /\ \A j \in Records : g[j].held # <<>> => g[j].stage = "flush"
  BY DEF ChannelOk
<1>2. h \in [Records -> Delivery] /\ h[i] = x /\ \A j \in Records \ {i} : h[j] = g[j]
  BY <1>0, <1>1
<1>3. Known(g, q, r, d) \subseteq Known(h, p, r2, d)
  <2>1. ASSUME NEW y, y \in Queued(g) PROVE y \in Known(h, p, r2, d)
    <3>1. PICK j \in Records : y \in Items(g[j].held)
      BY <2>1 DEF Queued
    <3>2. CASE j = i
      <4>1. y \in Items(h[i].held) \cup Items(p) \cup r2
        BY <1>0, <1>2, <3>1, <3>2
      <4> QED
        BY <4>1 DEF Known, Queued
    <3>3. CASE j # i
      <4>1. y \in Items(h[j].held)
        BY <1>2, <3>1, <3>3
      <4> QED
        BY <4>1 DEF Known, Queued
    <3> QED
      BY <3>2, <3>3
  <2>2. Items(q) \subseteq Known(h, p, r2, d)
    <3>1. Items(q) \subseteq Items(h[i].held) \cup Items(p) \cup r2
      BY <1>0, <1>2
    <3> QED
      BY <3>1 DEF Known, Queued
  <2>3. r \cup d \subseteq Known(h, p, r2, d)
    BY DEF Known
  <2> QED
    BY <2>1, <2>2, <2>3, Zenon DEF Known
<1>4. \A j \in c : j # i
  BY <1>0, <1>1
<1>5. \A j \in Records : h[j].held # <<>> => h[j].stage = "flush"
  BY <1>0, <1>1, <1>2
<1> QED
  BY <1>0, <1>2, <1>3, <1>4, <1>5, Zenon DEF ChannelOk

LEMMA ChannelInit == Channel!Init => ChannelInv
<1> SUFFICES ASSUME Channel!Init PROVE ChannelInv
  OBVIOUS
<1>1. \A i \in Records : chingest[i] = [stage |-> "new", try |-> 1, held |-> <<>>]
  BY DEF Channel!Init, Channel!New
<1>2. chingest \in [Records -> Delivery]
  BY <1>1 DEF Channel!Init, Delivery, DeliveryStages, Channel!New
<1> QED
  BY <1>1, <1>2 DEF Channel!Init, ChannelInv, ChannelOk

LEMMA ChannelStep == ASSUME ChannelInv, [Channel!Next]_chVars PROVE ChannelInv'
<1>0. ChannelOk(chingest, chconfirming, chframes, chqueue, chreceived, chdropped)
  BY DEF ChannelInv
<1>1. /\ chingest \in [Records -> Delivery] /\ chqueue \in Seq(Records)
      /\ \A i \in Records : chingest[i].held # <<>> => chingest[i].stage = "flush"
      /\ chconfirming \subseteq Records /\ \A i \in chconfirming : chingest[i].stage = "waiting"
      /\ \A x \in chframes : x[1] \in chreceived
  BY <1>0 DEF ChannelOk
<1>2. \A i \in Records : chingest[i].stage # "waiting" => i \notin chconfirming
  BY <1>1
<1>3. ASSUME NEW i \in Records, NEW s \in DeliveryStages, chingest[i].stage # "flush", s \in {"stored", "queued"} => i \in chreceived',
             chingest' = [chingest EXCEPT ![i].stage = s], chreceived \subseteq chreceived', chframes' \subseteq chframes,
             chconfirming' \subseteq chconfirming, i \notin chconfirming', UNCHANGED <<chqueue, chdropped>>
      PROVE  ChannelInv'
  <2>1. PICK h : h = [chingest EXCEPT ![i].stage = s]
    BY Zenon
  <2>2. PICK c, f, r : c = chconfirming' /\ f = chframes' /\ r = chreceived'
    OBVIOUS
  <2>3. ChannelOk(h, c, f, chqueue, r, chdropped)
    BY <1>0, <1>3, <2>1, <2>2, ChannelMoves, Zenon
  <2> QED
    BY <1>3, <2>1, <2>2, <2>3, Zenon DEF ChannelInv
<1>4. ASSUME NEW S \in SUBSET chconfirming, chingest' = Channel!Failing(chingest, S), chconfirming' = chconfirming \ S,
             UNCHANGED <<chframes, chqueue, chreceived, chdropped>>
      PROVE  ChannelInv'
  BY <1>0, <1>4, ChannelFails DEF ChannelInv
<1>5. ASSUME NEW i \in Records, Channel!Enqueue(i), chingest[i].stage \notin {"flush", "waiting"}, chreceived \subseteq chreceived',
             chingest' = [chingest EXCEPT ![i].stage = "queued"], UNCHANGED <<chconfirming, chframes>>
      PROVE  ChannelInv'
  <2>1. PICK p, e, r : p = chqueue' /\ e = chdropped' /\ r = chreceived'
    OBVIOUS
  <2>2. p \in Seq(Records) /\ i \in Items(p) /\ chdropped \subseteq e /\ Items(chqueue) \subseteq Items(p) \cup e
    <3>1. Enqueues(chqueue, i, chdropped, p, e)
      BY <1>5, <2>1 DEF Channel!Enqueue, Enqueues
    <3> QED
      BY <1>1, <3>1, Enqueued
  <2>3. PICK h : h = [chingest EXCEPT ![i].stage = "queued"]
    BY Zenon
  <2>4. ChannelOk(h, chconfirming, chframes, p, r, e)
    BY <1>0, <1>5, <2>1, <2>2, <2>3, ChannelQueues, Zenon
  <2> QED
    BY <1>5, <2>1, <2>3, <2>4, Zenon DEF ChannelInv
<1>6. ASSUME NEW i \in Records, Channel!Begins(i) PROVE ChannelInv'
  <2>1. PICK s \in DeliveryStages : s \in {"ready", "checking"} /\ chingest' = [chingest EXCEPT ![i].stage = s]
    BY <1>6, Zenon DEF Channel!Begins, Channel!Moves, DeliveryStages
  <2> QED
    BY <1>2, <1>3, <1>6, <2>1 DEF Channel!Begins
<1>7. ASSUME NEW i \in Records, Channel!Checked(i) PROVE ChannelInv'
  <2>1. CASE chingest' = Channel!Moves(i, "ready") /\ UNCHANGED <<chqueue, chdropped>>
    <3>1. PICK s \in DeliveryStages : s = "ready" /\ chingest' = [chingest EXCEPT ![i].stage = s]
      BY <2>1 DEF Channel!Moves, DeliveryStages
    <3> QED
      BY <1>2, <1>3, <1>7, <2>1, <3>1 DEF Channel!Checked
  <2>2. CASE chingest' = Channel!Moves(i, "queued") /\ Channel!Enqueue(i)
    BY <1>5, <1>7, <2>2, Zenon DEF Channel!Checked, Channel!Moves
  <2> QED
    BY <1>7, <2>1, <2>2 DEF Channel!Checked
<1>8. ASSUME NEW i \in Records, Channel!Starts(i) PROVE ChannelInv'
  <2>1. PICK x : x = [chingest[i] EXCEPT !.stage = IF chqueue = <<>> THEN "send" ELSE "flush", !.held = chqueue]
    OBVIOUS
  <2>2. x \in Delivery /\ x.stage = (IF chqueue = <<>> THEN "send" ELSE "flush") /\ x.held = chqueue
    <3>1. PICK g \in Delivery : g = chingest[i]
      BY <1>1
    <3> QED
      BY <1>1, <2>1, <3>1, Zenon DEF Delivery, DeliveryStages
  <2>3. PICK h : h = [chingest EXCEPT ![i] = x]
    BY Zenon
  <2>4. chingest' = h
    BY <1>8, <2>1, <2>3, Zenon DEF Channel!Starts
  <2>5. chingest[i].stage = "ready" /\ chingest[i].held = <<>>
    BY <1>1, <1>8 DEF Channel!Starts
  <2>6. ChannelOk(h, chconfirming, chframes, <<>>, chreceived, chdropped)
    <3>1. PICK p \in Seq(Records) : p = <<>>
      BY EmptySeq, Zenon
    <3>2. Items(chingest[i].held) \cup Items(chqueue) \subseteq Items(x.held) \cup Items(p) \cup chreceived
      BY <2>2, <2>5, ItemsEmpty
    <3>3. x.stage \in {"send", "flush"} /\ (x.held # <<>> => x.stage = "flush") /\ chingest[i].stage \in {"ready", "flush"}
      BY <2>2, <2>5
    <3>4. Flushes(chingest[i], x, chqueue, p, chreceived)
      BY <2>2, <3>2, <3>3 DEF Flushes
    <3>5. ChannelOk(h, chconfirming, chframes, p, chreceived, chdropped)
      BY <1>0, <2>3, <3>4, ChannelFlushes, Zenon
    <3> QED
      BY <3>1, <3>5
  <2> QED
    BY <1>8, <2>4, <2>6, Zenon DEF Channel!Starts, ChannelInv
<1>9. ASSUME NEW i \in Records, Channel!FlushSends(i) PROVE ChannelInv'
  <2>1. PICK t \in Seq(Records) : t = Tail(chingest[i].held) /\ Items(chingest[i].held) = {Head(chingest[i].held)} \cup Items(t)
    <3>1. chingest[i].held \in Seq(Records) /\ chingest[i].held # <<>>
      BY <1>1, <1>9 DEF Channel!FlushSends, Delivery
    <3> QED
      BY <3>1, ItemsHeadTail, Zenon
  <2>2. PICK s \in {"send", "flush"} : s = (IF Len(chingest[i].held) = 1 THEN "send" ELSE "flush")
    OBVIOUS
  <2>3. PICK x : x = [chingest[i] EXCEPT !.held = t, !.stage = s]
    OBVIOUS
  <2>4. x \in Delivery /\ x.stage = s /\ x.held = t
    <3>1. PICK g \in Delivery : g = chingest[i]
      BY <1>1
    <3> QED
      BY <2>2, <2>3, <3>1, Zenon DEF Delivery, DeliveryStages
  <2>5. PICK h : h = [chingest EXCEPT ![i] = x]
    BY Zenon
  <2>6. chingest' = h
    BY <1>9, <2>1, <2>2, <2>3, <2>5, Zenon DEF Channel!FlushSends
  <2>7. t # <<>> => s = "flush"
    <3>1. chingest[i].held \in Seq(Records) /\ chingest[i].held # <<>>
      BY <1>1, <1>9 DEF Channel!FlushSends, Delivery
    <3>2. Len(chingest[i].held) = 1 => t = <<>>
      BY <2>1, <3>1
    <3> QED
      BY <2>2, <3>2
  <2>8. PICK r : r = chreceived \cup {Head(chingest[i].held)} /\ r = chreceived'
    BY <1>9, Zenon DEF Channel!FlushSends
  <2>9. ChannelOk(h, chconfirming, chframes, chqueue, r, chdropped)
    <3>1. Items(chingest[i].held) \cup Items(chqueue) \subseteq Items(x.held) \cup Items(chqueue) \cup r
      BY <2>1, <2>4, <2>8
    <3>2. /\ x.stage \in {"send", "flush"} /\ (x.held # <<>> => x.stage = "flush") /\ chingest[i].stage \in {"ready", "flush"}
          /\ chreceived \subseteq r
      BY <1>9, <2>4, <2>7, <2>8 DEF Channel!FlushSends
    <3>3. Flushes(chingest[i], x, chqueue, chqueue, r)
      BY <1>1, <2>4, <3>1, <3>2 DEF Flushes
    <3> QED
      BY <1>0, <2>5, <3>2, <3>3, ChannelFlushes, Zenon
  <2> QED
    BY <1>9, <2>6, <2>8, <2>9, Zenon DEF Channel!FlushSends, ChannelInv
<1>10. ASSUME NEW i \in Records, Channel!FlushFails(i) PROVE ChannelInv'
  <2>1. PICK p \in Seq(Records) : p = chingest[i].held \o chqueue /\ Items(p) = Items(chingest[i].held) \cup Items(chqueue)
    <3>1. PICK y \in Seq(Records) : y = chingest[i].held
      BY <1>1 DEF Delivery
    <3>2. y \o chqueue \in Seq(Records) /\ Items(y \o chqueue) = Items(y) \cup Items(chqueue)
      BY <1>1, ItemsConcat
    <3> QED
      BY <3>1, <3>2, Zenon
  <2>2. PICK x : x = [chingest[i] EXCEPT !.held = <<>>, !.stage = "send"]
    OBVIOUS
  <2>3. x \in Delivery /\ x.stage = "send" /\ x.held = <<>>
    <3>1. PICK g \in Delivery : g = chingest[i]
      BY <1>1
    <3> QED
      BY <2>2, <3>1, EmptySeq, Zenon DEF Delivery, DeliveryStages
  <2>4. PICK h : h = [chingest EXCEPT ![i] = x]
    BY Zenon
  <2>5. chingest' = h
    BY <1>10, <2>2, <2>4, Zenon DEF Channel!FlushFails
  <2>6. ChannelOk(h, chconfirming, chframes, p, chreceived, chdropped)
    <3>1. Items(chingest[i].held) \cup Items(chqueue) \subseteq Items(x.held) \cup Items(p) \cup chreceived
      BY <2>1
    <3>2. x.stage \in {"send", "flush"} /\ (x.held # <<>> => x.stage = "flush") /\ chingest[i].stage \in {"ready", "flush"}
      BY <1>10, <2>3 DEF Channel!FlushFails
    <3>3. Flushes(chingest[i], x, chqueue, p, chreceived)
      BY <2>3, <3>1, <3>2 DEF Flushes
    <3> QED
      BY <1>0, <2>4, <3>3, ChannelFlushes, Zenon
  <2> QED
    BY <1>10, <2>1, <2>5, <2>6, Zenon DEF Channel!FlushFails, ChannelInv
<1>11. ASSUME NEW i \in Records, Channel!Connect(i) PROVE ChannelInv'
  BY <1>4, <1>11 DEF Channel!Connect
<1>12. ASSUME NEW i \in Records, Channel!ConnectFails(i) PROVE ChannelInv'
  <2>1. PICK s \in DeliveryStages : s = "reset" /\ chingest' = [chingest EXCEPT ![i].stage = s]
    BY <1>12 DEF Channel!ConnectFails, Channel!Moves, DeliveryStages
  <2> QED
    BY <1>2, <1>3, <1>12, <2>1 DEF Channel!ConnectFails
<1>13. ASSUME NEW i \in Records, Channel!Send(i) PROVE ChannelInv'
  <2>1. CASE chingest' = Channel!Moves(i, "reset") /\ UNCHANGED <<chconfirming, chreceived, chframes>>
    <3>1. PICK s \in DeliveryStages : s = "reset" /\ chingest' = [chingest EXCEPT ![i].stage = s]
      BY <2>1 DEF Channel!Moves, DeliveryStages
    <3> QED
      BY <1>2, <1>3, <1>13, <2>1, <3>1 DEF Channel!Send
  <2>2. CASE /\ chingest' = Channel!Moves(i, "waiting") /\ chconfirming' = chconfirming \cup {i}
             /\ \/ chreceived' = chreceived \cup {i} /\ chframes' = chframes \cup {<<i, chsocket>>}
                \/ UNCHANGED <<chreceived, chframes>>
    <3>1. PICK s \in DeliveryStages : s = "waiting" /\ chingest' = [chingest EXCEPT ![i].stage = s]
      BY <2>2 DEF Channel!Moves, DeliveryStages
    <3>2. PICK h : h = [chingest EXCEPT ![i].stage = s]
      BY Zenon
    <3>3. /\ h \in [Records -> Delivery] /\ h[i].stage = s /\ h[i].held = chingest[i].held
          /\ \A j \in Records \ {i} : h[j] = chingest[j]
      <4>1. PICK g \in [Records -> Delivery] : g = chingest
        BY <1>1
      <4>2. h = [g EXCEPT ![i].stage = s]
        BY <3>2, <4>1
      <4>3. /\ h \in [Records -> Delivery] /\ h[i].stage = s /\ h[i].held = g[i].held
            /\ \A j \in Records \ {i} : h[j] = g[j]
        BY <4>2, StageMoves
      <4> QED
        BY <4>1, <4>3
    <3>4. GoesOn(chingest, h, chreceived')
      <4>1. chingest[i].stage # "flush"
        BY <1>13 DEF Channel!Send
      <4> QED
        BY <3>1, <3>3, <4>1 DEF GoesOn
    <3>5. Waiters(h, chconfirming \cup {i})
      BY <1>1, <3>1, <3>3 DEF Waiters
    <3>6. Confirmed(chframes, chframes', chreceived') /\ chreceived \subseteq chreceived'
      BY <2>2 DEF Confirmed
    <3>7. ChannelOk(h, chconfirming \cup {i}, chframes', chqueue, chreceived', chdropped)
      <4>1. PICK r, f : r = chreceived' /\ f = chframes'
        OBVIOUS
      <4> QED
        BY <1>0, <3>4, <3>5, <3>6, <4>1, ChannelGoesOn
    <3>8. chingest' = h
      BY <3>1, <3>2, Zenon
    <3> QED
      BY <1>13, <2>2, <3>7, <3>8 DEF Channel!Send, ChannelInv
  <2> QED
    BY <1>13, <2>1, <2>2 DEF Channel!Send
<1>14. ASSUME NEW x \in chframes, Channel!Confirmed(x) PROVE ChannelInv'
  <2>1. CASE x[1] \in chconfirming
    <3>1. PICK s \in DeliveryStages : s = "stored" /\ chingest' = [chingest EXCEPT ![x[1]].stage = s]
      BY <1>14, <2>1 DEF Channel!Confirmed, Channel!Moves, DeliveryStages
    <3>2. x[1] \in Records /\ chingest[x[1]].stage # "flush" /\ x[1] \in chreceived
      BY <1>1, <2>1
    <3> QED
      BY <1>3, <1>14, <3>1, <3>2 DEF Channel!Confirmed
  <2>2. CASE x[1] \notin chconfirming
    <3>1. chingest' = chingest /\ chconfirming' = chconfirming
      BY <1>14, <2>2 DEF Channel!Confirmed
    <3>2. chframes' \subseteq chframes /\ UNCHANGED <<chqueue, chreceived, chdropped>>
      BY <1>14 DEF Channel!Confirmed
    <3> QED
      BY <1>0, <3>1, <3>2 DEF ChannelOk, ChannelInv
  <2> QED
    BY <2>1, <2>2
<1>15. CASE Channel!Rejected
  <2>1. PICK S \in SUBSET chconfirming : chingest' = Channel!Failing(chingest, S) /\ chconfirming' = chconfirming \ S
    BY <1>15 DEF Channel!Rejected
  <2> QED
    BY <1>4, <1>15, <2>1 DEF Channel!Rejected
<1>16. ASSUME NEW i \in Records, Channel!TimesOut(i) PROVE ChannelInv'
  <2>1. PICK s \in DeliveryStages : s = "reset" /\ chingest' = [chingest EXCEPT ![i].stage = s]
    BY <1>16 DEF Channel!TimesOut, Channel!Moves, DeliveryStages
  <2> QED
    BY <1>1, <1>3, <1>16, <2>1 DEF Channel!TimesOut
<1>17. CASE Channel!Closed
  BY <1>4, <1>17 DEF Channel!Closed
<1>18. ASSUME NEW i \in Records, Channel!Reset(i) PROVE ChannelInv'
  <2>1. PICK x : /\ chingest' = [Channel!Failing(chingest, chconfirming) EXCEPT ![i] = x]
                 /\ x = IF chingest[i].try < Attempts
                        THEN [Channel!New EXCEPT !.stage = "send", !.try = chingest[i].try + 1]
                        ELSE [Channel!New EXCEPT !.stage = "http"]
    BY <1>18, Zenon DEF Channel!Reset
  <2>2. x \in Delivery /\ x.stage \in {"send", "http"} /\ x.held = <<>>
    <3>1. chingest[i].try \in Nat
      BY <1>1 DEF Delivery
    <3>2. <<>> \in Seq(Records)
      BY EmptySeq
    <3>3. Channel!New = [stage |-> "new", try |-> 1, held |-> <<>>]
      BY DEF Channel!New
    <3>4. CASE chingest[i].try < Attempts
      <4>1. x = [stage |-> "send", try |-> chingest[i].try + 1, held |-> <<>>]
        BY <2>1, <3>3, <3>4, Zenon
      <4> QED
        BY <3>1, <3>2, <4>1 DEF Delivery, DeliveryStages
    <3>5. CASE ~(chingest[i].try < Attempts)
      <4>1. x = [stage |-> "http", try |-> 1, held |-> <<>>]
        BY <2>1, <3>3, <3>5
      <4> QED
        BY <3>2, <4>1 DEF Delivery, DeliveryStages
    <3> QED
      BY <3>4, <3>5
  <2>3. PICK g \in [Records -> Delivery] :
          /\ g = Channel!Failing(chingest, chconfirming)
          /\ \A j \in Records : IF j \in chconfirming THEN g[j].stage = "reset" /\ g[j].held = chingest[j].held
                                ELSE g[j] = chingest[j]
    BY <1>1, Fails
  <2>4. PICK h : h = [g EXCEPT ![i] = x]
    BY Zenon
  <2>5. h \in [Records -> Delivery] /\ h[i] = x /\ \A j \in Records \ {i} : h[j] = g[j]
    BY <2>2, <2>4
  <2>6. chingest[i].stage = "reset" /\ chingest[i].held = <<>>
    BY <1>1, <1>18 DEF Channel!Reset
  <2>7. GoesOn(chingest, h, chreceived)
    BY <1>1, <2>2, <2>3, <2>5, <2>6 DEF GoesOn
  <2>8. Waiters(h, {}) /\ Confirmed(chframes, chframes, chreceived)
    BY DEF Waiters, Confirmed
  <2>9. ChannelOk(h, {}, chframes, chqueue, chreceived, chdropped)
    BY <1>0, <2>7, <2>8, ChannelGoesOn
  <2> QED
    BY <1>18, <2>1, <2>3, <2>4, <2>9 DEF Channel!Reset, ChannelInv
<1>19. ASSUME NEW i \in Records, Channel!HttpStores(i) PROVE ChannelInv'
  <2>1. PICK s \in DeliveryStages : s = "stored" /\ chingest' = [chingest EXCEPT ![i].stage = s]
    BY <1>19 DEF Channel!HttpStores, Channel!Moves, DeliveryStages
  <2> QED
    BY <1>2, <1>3, <1>19, <2>1 DEF Channel!HttpStores
<1>20. ASSUME NEW i \in Records, Channel!HttpRetries(i) PROVE ChannelInv'
  <2>1. PICK x : x = [chingest[i] EXCEPT !.try = chingest[i].try + 1]
    BY Zenon
  <2>2. x \in Delivery /\ x.stage = "http" /\ x.held = chingest[i].held
    <3>1. PICK g \in Delivery : g = chingest[i]
      BY <1>1
    <3>2. g.stage = "http"
      BY <1>20, <3>1 DEF Channel!HttpRetries
    <3> QED
      BY <2>1, <3>1, <3>2 DEF Delivery
  <2>3. PICK h : h = [chingest EXCEPT ![i] = x]
    BY Zenon
  <2>4. chingest' = h
    BY <1>20, <2>1, <2>3, Zenon DEF Channel!HttpRetries
  <2>5. h \in [Records -> Delivery] /\ h[i] = x /\ \A j \in Records \ {i} : h[j] = chingest[j]
    BY <1>1, <2>2, <2>3
  <2>6. chingest[i].stage = "http" /\ i \notin chconfirming
    BY <1>1, <1>20 DEF Channel!HttpRetries
  <2>7. PICK r : r = chreceived' /\ chreceived \subseteq r
    BY <1>20 DEF Channel!HttpRetries
  <2>8. GoesOn(chingest, h, r)
    BY <2>2, <2>5, <2>6 DEF GoesOn
  <2>9. Waiters(h, chconfirming) /\ Confirmed(chframes, chframes, r)
    BY <1>1, <2>5, <2>6 DEF Waiters, Confirmed
  <2>10. ChannelOk(h, chconfirming, chframes, chqueue, r, chdropped)
    BY <1>0, <2>7, <2>8, <2>9, ChannelGoesOn
  <2> QED
    BY <1>20, <2>4, <2>7, <2>10, Zenon DEF Channel!HttpRetries, ChannelInv
<1>21. ASSUME NEW i \in Records, Channel!HttpUnreachable(i) PROVE ChannelInv'
  BY <1>5, <1>21, Zenon DEF Channel!HttpUnreachable, Channel!Moves
<1>22. ASSUME NEW i \in Records, Channel!HttpRefused(i) PROVE ChannelInv'
  <2>1. PICK s \in DeliveryStages : s = "failed" /\ chingest' = [chingest EXCEPT ![i].stage = s]
    BY <1>22 DEF Channel!HttpRefused, Channel!Moves, DeliveryStages
  <2> QED
    BY <1>2, <1>3, <1>22, <2>1 DEF Channel!HttpRefused
<1>23. CASE Channel!Reload
  <2>1. chdropped' = chdropped \cup Items(chqueue) \cup Queued(chingest)
    <3>1. \A q : Channel!Range(q) = Items(q)
      BY DEF Channel!Range, Items
    <3> QED
      BY <1>23, <3>1 DEF Channel!Reload, Queued
  <2>2. PICK h : h = chingest'
    OBVIOUS
  <2>3. ASSUME NEW i \in Records
        PROVE  /\ h[i] \in Delivery /\ h[i].held = <<>> /\ h[i].stage # "waiting"
               /\ h[i].stage \in {"stored", "queued"} => h[i] = chingest[i]
    <3>1. h[i] = IF chingest[i].stage \in {"stored", "queued", "failed", "new"} THEN chingest[i]
                 ELSE [stage |-> "failed", try |-> 1, held |-> <<>>]
      BY <1>23, <2>2 DEF Channel!Reload, Channel!Ended, Channel!New
    <3>2. [stage |-> "failed", try |-> 1, held |-> <<>>] \in Delivery
      BY DEF Delivery, DeliveryStages
    <3> QED
      BY <1>1, <3>1, <3>2
  <2>4. h \in [Records -> Delivery]
    BY <1>23, <2>2, <2>3 DEF Channel!Reload
  <2>5. Known(chingest, chqueue, chreceived, chdropped) \subseteq Known(h, <<>>, chreceived, chdropped')
    BY <2>1 DEF Known
  <2>6. /\ \A i \in Records : chingest[i].stage = "stored" => i \in chreceived
        /\ \A i \in Records : chingest[i].stage = "queued" => i \in Known(chingest, chqueue, chreceived, chdropped)
    BY <1>0 DEF ChannelOk
  <2>7. ChannelOk(h, {}, {}, <<>>, chreceived, chdropped')
    BY <2>3, <2>4, <2>5, <2>6 DEF ChannelOk
  <2> QED
    BY <1>23, <2>2, <2>7 DEF Channel!Reload, ChannelInv
<1>24. CASE UNCHANGED chVars
  BY <1>0, <1>24 DEF chVars, ChannelInv
<1> QED
  BY <1>6, <1>7, <1>8, <1>9, <1>10, <1>11, <1>12, <1>13, <1>14, <1>15, <1>16, <1>17, <1>18, <1>19, <1>20, <1>21,
     <1>22, <1>23, <1>24 DEF Channel!Next

LEMMA ChannelRuns == [Next]_vars => [Channel!Next]_chVars
  BY DEF Next, vars, StreamKeeps, PatchKeeps, GatewayKeeps, StoreKeeps, FileKeeps, MatchKeeps, LegacyKeeps, AuthKeeps,
         SerialKeeps

LEMMA ChannelAccounts == ChannelInv => Channel!Accounted
<1>1. \A q : Channel!Range(q) = Items(q)
  BY DEF Channel!Range, Items
<1> QED
  BY <1>1 DEF ChannelInv, ChannelOk, Known, Queued, Channel!Accounted, Channel!Waiting

\* Whatever is ingested, refreshed, refused, cut off in a write or reloaded, and whatever the offline queue
\* overflows with: a record whose ingest was answered as stored is in the local storage, or one of the
\* writes that may remove it did, or a crash cut the file; and one the channel answered as stored or queued
\* is with the backend, waits to be sent, or was dropped where the code drops it.
THEOREM StorageIsHonest == Spec => []StoresKeep
<1>1. Init => LegacyInv /\ ChannelInv
  BY LegacyInit, ChannelInit DEF Init
<1>2. LegacyInv /\ [Next]_vars => LegacyInv'
  BY LegacyStep, LegacyMoves
<1>3. ChannelInv /\ [Next]_vars => ChannelInv'
  BY ChannelStep, ChannelRuns
<1>4. LegacyInv /\ ChannelInv => StoresKeep
  BY LegacyStores, ChannelAccounts DEF StoresKeep
<1> QED
  BY <1>1, <1>2, <1>3, <1>4, PTL DEF Spec

-------------------------------------------------------------------------------
(* Tool calls in a streamed answer.  Of every call the parser holds the          *)
(* fragments that were sent, in order, or their end as one whole.               *)

UpTo(n) == [p \in 1..n |-> p]

Fragments == [there : {TRUE}, parts : Seq(Nat), final : Seq(Nat)]

\* what is held of a call once n - 1 fragments were sent, and after its end
Assembling(ad, c, n, lost) ==
  /\ c \in Fragments
  /\ n <= Parts + 1 =>
       /\ c.final = <<>> /\ Len(c.parts) = n - 1 /\ ad # "gemini"
       /\ ~lost => c.parts = UpTo(n - 1)
  /\ n = Parts + 2 =>
       /\ Len(c.final) = Parts /\ ad # "chat"
       /\ ~lost => c.final = UpTo(Parts)

Assembled(ad, cs, sg, sp) ==
  /\ ad \in {"anthropic", "codex", "chat", "gemini"}
  /\ sg \in [Indexes -> 0..(Parts + 2)]
  /\ cs = [i \in Indexes |-> cs[i]]
  /\ \A i \in Indexes : IF sg[i] = 0 THEN cs[i] = Stream!Absent ELSE Assembling(ad, cs[i], sg[i], i \in sp)

StreamInv ==
  /\ Stream!Faithful
  /\ stended = "no" => stcaptured = {} /\ Assembled(stadapter, stcalls, ststage, stsplit)

LEMMA UpToSeq ==
  ASSUME NEW n \in Nat
  PROVE  UpTo(n) \in Seq(Nat) /\ Len(UpTo(n)) = n
<1>1. UpTo(n) \in [1..n -> Nat]
  BY DEF UpTo
<1> QED
  BY <1>1, FunctionSeq

LEMMA UpToItems == ASSUME NEW n \in Nat PROVE \A i \in 1..n : UpTo(n)[i] = i
  BY DEF UpTo

LEMMA UpToAppend ==
  ASSUME NEW n \in Nat
  PROVE  Append(UpTo(n), n + 1) = UpTo(n + 1)
<1>1. PICK s : s = UpTo(n) /\ s \in Seq(Nat) /\ Len(s) = n /\ \A i \in 1..n : s[i] = i
  BY UpToSeq, UpToItems
<1>2. PICK t : t = UpTo(n + 1) /\ t \in Seq(Nat) /\ Len(t) = n + 1 /\ \A i \in 1..(n + 1) : t[i] = i
  <2>1. n + 1 \in Nat
    OBVIOUS
  <2> QED
    BY <2>1, UpToSeq, UpToItems
<1>3. PICK a : a = Append(s, n + 1) /\ a \in Seq(Nat) /\ Len(a) = n + 1 /\ \A i \in 1..(n + 1) : a[i] = i
  <2>1. n + 1 \in Nat /\ s \in Seq(Nat)
    BY <1>1
  <2>2. PICK a : a = Append(s, n + 1)
    BY Zenon
  <2>3. a \in Seq(Nat) /\ Len(a) = Len(s) + 1 /\ a[Len(s) + 1] = n + 1 /\ \A i \in 1..Len(s) : a[i] = s[i]
    BY <2>1, <2>2, AppendProperties
  <2>4. \A i \in 1..(n + 1) : i \in 1..n \/ i = n + 1
    OBVIOUS
  <2>5. \A i \in 1..(n + 1) : a[i] = i
    BY <1>1, <2>3, <2>4
  <2> QED
    BY <1>1, <2>2, <2>3, <2>5
<1>4. a = t
  BY <1>2, <1>3, SeqEqual
<1> QED
  BY <1>1, <1>2, <1>3, <1>4

LEMMA PartAdded ==
  ASSUME NEW c \in Fragments, NEW p \in Nat, NEW b, b = [c EXCEPT !.parts = Append(@, p)]
  PROVE  b \in Fragments /\ b.parts = Append(c.parts, p) /\ Len(b.parts) = Len(c.parts) + 1 /\ b.final = c.final
<1>1. PICK a \in Seq(Nat) : a = c.parts
  BY DEF Fragments
<1>2. PICK q : q = Append(a, p) /\ q \in Seq(Nat) /\ Len(q) = Len(a) + 1
  BY AppendProperties, Zenon
<1>3. b = [c EXCEPT !.parts = q]
  BY <1>1, <1>2
<1>4. b \in Fragments /\ b.parts = q /\ b.final = c.final
  BY <1>2, <1>3, Zenon DEF Fragments
<1> QED
  BY <1>1, <1>2, <1>4

LEMMA CallEnded ==
  ASSUME NEW c \in Fragments, NEW w \in Seq(Nat), NEW b, b = [c EXCEPT !.final = w]
  PROVE  b \in Fragments /\ b.final = w
  BY Zenon DEF Fragments

LEMMA CallToldWhole ==
  ASSUME NEW c \in Fragments, NEW w \in Seq(Nat), NEW b, b = [c EXCEPT !.final = w, !.parts = <<>>]
  PROVE  b \in Fragments /\ b.final = w
  BY EmptySeq, Zenon DEF Fragments

LEMMA WholeIs == Stream!Whole = UpTo(Parts)
  BY DEF Stream!Whole, UpTo

\* one call moves on
LEMMA CallMoves ==
  ASSUME NEW ad, NEW cs, NEW sg, NEW sp, Assembled(ad, cs, sg, sp),
         NEW i \in Indexes, NEW cs2, NEW sg2, NEW sp2,
         NEW n \in 1..(Parts + 2), sg2 = [sg EXCEPT ![i] = n],
         NEW c, cs2 = [cs EXCEPT ![i] = c],
         \A j \in Indexes \ {i} : j \in sp2 <=> j \in sp,
         Assembling(ad, c, n, i \in sp2)
  PROVE  Assembled(ad, cs2, sg2, sp2)
<1>1. PICK f : f = cs /\ f = [j \in Indexes |-> f[j]]
  BY DEF Assembled
<1>2. cs2[i] = c /\ (\A j \in Indexes \ {i} : cs2[j] = cs[j]) /\ cs2 = [j \in Indexes |-> cs2[j]]
  BY <1>1
<1>3. sg2 \in [Indexes -> 0..(Parts + 2)] /\ sg2[i] = n /\ n # 0 /\ \A j \in Indexes \ {i} : sg2[j] = sg[j]
  BY StreamAssumption DEF Assembled
<1>4. ASSUME NEW j \in Indexes
      PROVE IF sg2[j] = 0 THEN cs2[j] = Stream!Absent ELSE Assembling(ad, cs2[j], sg2[j], j \in sp2)
  <2>1. CASE j = i
    BY <1>2, <1>3, <2>1
  <2>2. CASE j # i
    <3>1. IF sg[j] = 0 THEN cs[j] = Stream!Absent ELSE Assembling(ad, cs[j], sg[j], j \in sp)
      BY DEF Assembled
    <3>2. cs2[j] = cs[j] /\ sg2[j] = sg[j] /\ (j \in sp2) = (j \in sp)
      BY <1>2, <1>3, <2>2
    <3> QED
      BY <3>1, <3>2 DEF Assembling
  <2> QED
    BY <2>1, <2>2
<1>5. ad \in {"anthropic", "codex", "chat", "gemini"}
  BY DEF Assembled
<1> QED
  BY <1>2, <1>3, <1>4, <1>5 DEF Assembled

\* what an edit that was taken says
Told(ad, n, lost, text) == \/ text = Stream!Whole
                           \/ Len(text) = Parts /\ lost
                           \/ text = <<>> /\ ad = "anthropic" /\ n # Parts + 2

LEMMA EditsTold ==
  ASSUME Assembled(stadapter, stcalls, ststage, stsplit), NEW i \in Indexes, stcalls[i].there,
         NEW e \in Stream!EditsOf(i)
  PROVE  Told(stadapter, ststage[i], i \in stsplit, e)
<1>1. PICK n \in 0..(Parts + 2) : n = ststage[i]
  BY DEF Assembled
<1>2. n # 0
  BY <1>1 DEF Assembled, Stream!Absent
<1>3. PICK c : c = stcalls[i]
  OBVIOUS
<1>4. Assembling(stadapter, c, n, i \in stsplit)
  BY <1>1, <1>2, <1>3 DEF Assembled
<1>5. PICK a : a = Stream!Arguments(i)
  OBVIOUS
<1>6. a = IF c.final # <<>> \/ stadapter \in {"anthropic", "gemini"} THEN c.final ELSE c.parts
  BY <1>3, <1>5 DEF Stream!Arguments
<1>7. Parts \in Nat \ {0} /\ Len(<<>>) = 0
  BY StreamAssumption
<1>8. Len(a) = Parts => a = Stream!Whole \/ i \in stsplit
  <2>1. CASE n = Parts + 2
    BY <1>4, <1>6, <1>7, <2>1, WholeIs DEF Assembling
  <2>2. CASE n # Parts + 2
    <3>1. n <= Parts + 1 /\ n - 1 \in Nat
      BY <1>1, <1>2, <1>7, <2>2
    <3>2. c.final = <<>> /\ Len(c.parts) = n - 1 /\ (i \notin stsplit => c.parts = UpTo(n - 1))
      BY <1>4, <3>1 DEF Assembling
    <3> QED
      BY <1>6, <1>7, <3>1, <3>2, WholeIs
  <2> QED
    BY <2>1, <2>2
<1>9. stadapter = "anthropic" /\ Len(a) # Parts => n # Parts + 2
  BY <1>4, <1>6 DEF Assembling
<1>10. stadapter = "gemini" => Len(a) = Parts
  <2>1. stadapter = "gemini" => n = Parts + 2
    BY <1>1, <1>2, <1>4, <1>7 DEF Assembling
  <2> QED
    BY <1>4, <1>6, <2>1 DEF Assembling
<1>11. CASE stadapter = "anthropic"
  <2>1. e = (IF Len(a) = Parts THEN a ELSE <<>>)
    BY <1>5, <1>11, StreamAssumption DEF Stream!EditsOf, Stream!AnthropicEdits, Stream!Parses
  <2> QED
    BY <1>1, <1>8, <1>9, <1>11, <2>1 DEF Told
<1>12. CASE stadapter # "anthropic"
  <2>1. e = a /\ Len(a) = Parts
    <3>1. CASE stadapter = "codex"
      BY <1>5, <3>1 DEF Stream!EditsOf, Stream!CodexEdits, Stream!Parses
    <3>2. CASE stadapter = "chat"
      BY <1>5, <3>2 DEF Stream!EditsOf, Stream!ChatEdits, Stream!Parses
    <3>3. CASE stadapter = "gemini"
      BY <1>5, <1>10, <3>3 DEF Stream!EditsOf, Stream!GeminiEdits
    <3> QED
      BY <1>12, <3>1, <3>2, <3>3 DEF Assembled
  <2> QED
    BY <1>8, <2>1 DEF Told
<1> QED
  BY <1>11, <1>12

\* a call that came whole yields an edit
LEMMA CompleteYields ==
  ASSUME Assembled(stadapter, stcalls, ststage, stsplit), NEW i \in Indexes, ststage[i] > 0, Stream!Complete(i),
         Tools[i] \in {"edit", "multi"}
  PROVE  stcalls[i].there /\ \E e : e \in Stream!EditsOf(i)
<1>1. PICK n \in 0..(Parts + 2) : n = ststage[i] /\ n # 0
  BY DEF Assembled
<1>2. PICK c : c = stcalls[i]
  OBVIOUS
<1>3. Assembling(stadapter, c, n, i \in stsplit)
  BY <1>1, <1>2 DEF Assembled
<1>4. PICK a : a = Stream!Arguments(i)
  OBVIOUS
<1>5. a = IF c.final # <<>> \/ stadapter \in {"anthropic", "gemini"} THEN c.final ELSE c.parts
  BY <1>2, <1>4 DEF Stream!Arguments
<1>6. Parts \in Nat \ {0} /\ Len(<<>>) = 0
  BY StreamAssumption
<1>7. n = IF stadapter = "chat" THEN Parts + 1 ELSE Parts + 2
  BY <1>1 DEF Stream!Complete
<1>8. Len(a) = Parts
  <2>1. CASE stadapter = "chat"
    BY <1>3, <1>5, <1>6, <1>7, <2>1 DEF Assembling
  <2>2. CASE stadapter # "chat"
    BY <1>3, <1>5, <1>6, <1>7, <2>2 DEF Assembling
  <2> QED
    BY <2>1, <2>2
<1>9. a # <<>>
  BY <1>6, <1>8
<1>10. a \in Stream!EditsOf(i)
  <2>1. CASE stadapter = "anthropic"
    <3>1. Stream!EditsOf(i) = Stream!AnthropicEdits(i)
      BY <2>1 DEF Stream!EditsOf
    <3>2. a \in Stream!AnthropicEdits(i)
      BY <1>4, <1>8, <1>9 DEF Stream!AnthropicEdits, Stream!Parses
    <3> QED
      BY <3>1, <3>2
  <2>2. CASE stadapter = "codex"
    BY <1>4, <1>8, <2>2 DEF Stream!EditsOf, Stream!CodexEdits, Stream!Parses
  <2>3. CASE stadapter = "chat"
    BY <1>4, <1>8, <2>3 DEF Stream!EditsOf, Stream!ChatEdits, Stream!Parses
  <2>4. CASE stadapter = "gemini"
    BY <1>4, <1>8, <2>4 DEF Stream!EditsOf, Stream!GeminiEdits
  <2> QED
    BY <2>1, <2>2, <2>3, <2>4 DEF Assembled
<1>11. c.there
  BY <1>3, Zenon DEF Assembling, Fragments
<1> QED
  BY <1>2, <1>10, <1>11

LEMMA StreamInit == Stream!Init => StreamInv
<1> SUFFICES ASSUME Stream!Init PROVE StreamInv
  OBVIOUS
<1>1. PICK cs : cs = stcalls /\ cs = [i \in Indexes |-> Stream!Absent]
  BY DEF Stream!Init
<1>2. PICK sg : sg = ststage /\ sg = [i \in Indexes |-> 0]
  BY DEF Stream!Init
<1>3. sg \in [Indexes -> 0..(Parts + 2)] /\ \A i \in Indexes : sg[i] = 0 /\ cs[i] = Stream!Absent
  BY <1>1, <1>2, StreamAssumption
<1>4. cs = [i \in Indexes |-> cs[i]]
  BY <1>1
<1>5. stadapter \in {"anthropic", "codex", "chat", "gemini"} /\ stended = "no" /\ stcaptured = {}
  BY DEF Stream!Init
<1>6. Assembled(stadapter, cs, sg, stsplit)
  BY <1>3, <1>4, <1>5 DEF Assembled
<1>7. Stream!Faithful
  BY <1>5 DEF Stream!Faithful
<1> QED
  BY <1>1, <1>2, <1>5, <1>6, <1>7 DEF StreamInv

LEMMA StreamStep == ASSUME StreamInv, [Stream!Next]_stVars PROVE StreamInv'
<1>0. Parts \in Nat \ {0} /\ Len(<<>>) = 0 /\ <<>> \in Seq(Nat)
  BY StreamAssumption, EmptySeq
<1>1. stended = "no" => Assembled(stadapter, stcalls, ststage, stsplit) /\ stcaptured = {}
  BY DEF StreamInv
<1>2. ASSUME stended = "no", UNCHANGED <<stadapter, stended, stcaptured>>,
             Assembled(stadapter, stcalls', ststage', stsplit')
      PROVE  StreamInv'
  <2>1. stcaptured' = {} /\ stended' = "no"
    BY <1>1, <1>2
  <2>2. Stream!Faithful'
    BY <2>1 DEF Stream!Faithful
  <2> QED
    BY <1>2, <2>1, <2>2 DEF StreamInv
<1>3. ASSUME NEW i \in Indexes, Stream!Start(i) PROVE StreamInv'
  <2>1. /\ stended = "no" /\ stadapter # "gemini" /\ UNCHANGED <<stadapter, stended, stcaptured, stsplit>>
        /\ ststage' = [ststage EXCEPT ![i] = 1] /\ stcalls' = [stcalls EXCEPT ![i] = Stream!Fresh]
    BY <1>3 DEF Stream!Start
  <2>2. PICK c : c = Stream!Fresh
    OBVIOUS
  <2>3. UpTo(0) = <<>>
    <3>1. UpTo(0) \in Seq(Nat) /\ Len(UpTo(0)) = 0
      BY UpToSeq
    <3> QED
      BY <3>1, EmptySeq
  <2>4. Assembling(stadapter, c, 1, i \in stsplit')
    BY <1>0, <2>1, <2>2, <2>3 DEF Assembling, Stream!Fresh, Fragments
  <2>5. 1 \in 1..(Parts + 2)
    BY <1>0
  <2>6. Assembled(stadapter, stcalls', ststage', stsplit')
    BY <1>1, <2>1, <2>2, <2>4, <2>5, CallMoves, Zenon
  <2> QED
    BY <1>2, <2>1, <2>6
<1>4. ASSUME NEW i \in Indexes, Stream!Delta(i) PROVE StreamInv'
  <2>1. PICK n \in 1..Parts : n = ststage[i]
    BY <1>4 DEF Stream!Delta
  <2>2. PICK p \in {n, 0} : /\ stcalls' = [stcalls EXCEPT ![i].parts = Append(@, p)]
                            /\ stsplit' = IF p = 0 THEN stsplit \cup {i} ELSE stsplit
    BY <1>4, <2>1, Zenon DEF Stream!Delta, Stream!Decoded, Stream!Fragment, Stream!Lost
  <2>3. stended = "no" /\ UNCHANGED <<stadapter, stended, stcaptured>> /\ ststage' = [ststage EXCEPT ![i] = n + 1]
    BY <1>4, <2>1 DEF Stream!Delta
  <2>4. PICK f : f = stcalls /\ f = [j \in Indexes |-> f[j]]
    BY <1>1, <2>3 DEF Assembled
  <2>5. PICK c : c = f[i]
    OBVIOUS
  <2>6. Assembling(stadapter, c, n, i \in stsplit)
    BY <1>1, <2>1, <2>3, <2>4, <2>5 DEF Assembled
  <2>7. PICK b : b = [c EXCEPT !.parts = Append(@, p)]
    BY Zenon
  <2>8. stcalls' = [stcalls EXCEPT ![i] = b]
    <3>1. PICK g : g = [f EXCEPT ![i].parts = Append(@, p)]
      BY Zenon
    <3>2. PICK h : h = [f EXCEPT ![i] = b]
      BY Zenon
    <3>3. g = h
      BY <2>4, <2>5, <2>7, <3>1, <3>2
    <3> QED
      BY <2>2, <2>4, <3>1, <3>2, <3>3, Zenon
  <2>9. n <= Parts + 1 /\ n + 1 <= Parts + 1 /\ n + 1 \in 1..(Parts + 2) /\ (n + 1) - 1 = n /\ n - 1 \in Nat
        /\ (n - 1) + 1 = n /\ p \in Nat
    BY <1>0
  <2>10. /\ c \in Fragments /\ c.final = <<>> /\ Len(c.parts) = n - 1 /\ stadapter # "gemini"
         /\ i \notin stsplit => c.parts = UpTo(n - 1)
    BY <2>6, <2>9 DEF Assembling
  <2>11. b \in Fragments /\ b.parts = Append(c.parts, p) /\ Len(b.parts) = n /\ b.final = <<>>
    BY <2>7, <2>9, <2>10, PartAdded
  <2>12. i \notin stsplit' => p = n /\ i \notin stsplit
    BY <2>2
  <2>13. i \notin stsplit' => b.parts = UpTo(n)
    BY <2>9, <2>10, <2>11, <2>12, UpToAppend, Zenon
  <2>15. n + 1 # Parts + 2
    BY <1>0, <2>9
  <2>16. Assembling(stadapter, b, n + 1, i \in stsplit')
    BY <1>0, <2>9, <2>10, <2>11, <2>13, <2>15 DEF Assembling
  <2>17. \A j \in Indexes \ {i} : j \in stsplit' <=> j \in stsplit
    BY <2>2
  <2>18. Assembled(stadapter, stcalls', ststage', stsplit')
    BY <1>1, <2>3, <2>8, <2>9, <2>16, <2>17, CallMoves, Zenon
  <2> QED
    BY <1>2, <2>3, <2>18
<1>5. ASSUME NEW i \in Indexes, Stream!BlockStop(i) PROVE StreamInv'
  <2>1. /\ stended = "no" /\ stadapter = "anthropic" /\ UNCHANGED <<stadapter, stended, stcaptured, stsplit>>
        /\ ststage[i] = Parts + 1 /\ ststage' = [ststage EXCEPT ![i] = Parts + 2]
        /\ stcalls' = [stcalls EXCEPT ![i].final = stcalls[i].parts]
    <3>1. ststage[i] = Parts + 1 /\ (Parts + 1) + 1 = Parts + 2
      BY <1>0, <1>5 DEF Stream!BlockStop
    <3> QED
      BY <1>5, <3>1, Zenon DEF Stream!BlockStop
  <2>2. PICK f : f = stcalls /\ f = [j \in Indexes |-> f[j]]
    BY <1>1, <2>1 DEF Assembled
  <2>3. PICK c : c = f[i]
    OBVIOUS
  <2>4. Parts + 1 # 0 /\ Parts + 2 \in 1..(Parts + 2) /\ (Parts + 1) - 1 = Parts /\ Parts + 1 <= Parts + 1
        /\ ~(Parts + 2 <= Parts + 1)
    BY <1>0
  <2>5. Assembling(stadapter, c, Parts + 1, i \in stsplit)
    BY <1>1, <2>1, <2>2, <2>3, <2>4 DEF Assembled
  <2>6. PICK b : b = [c EXCEPT !.final = c.parts]
    BY Zenon
  <2>7. stcalls' = [stcalls EXCEPT ![i] = b]
    <3>1. PICK g : g = [f EXCEPT ![i].final = f[i].parts]
      BY Zenon
    <3>2. PICK h : h = [f EXCEPT ![i] = b]
      BY Zenon
    <3>3. g = h
      BY <2>2, <2>3, <2>6, <3>1, <3>2
    <3> QED
      BY <2>1, <2>2, <3>1, <3>2, <3>3, Zenon
  <2>8. c \in Fragments /\ Len(c.parts) = Parts /\ (i \notin stsplit => c.parts = UpTo(Parts))
    BY <2>4, <2>5 DEF Assembling
  <2>9. PICK w \in Seq(Nat) : w = c.parts /\ b \in Fragments /\ b.final = w
    <3>1. PICK w \in Seq(Nat) : w = c.parts
      BY <2>8 DEF Fragments
    <3> QED
      BY <1>0, <2>6, <2>8, <3>1, CallEnded
  <2>10. Assembling(stadapter, b, Parts + 2, i \in stsplit')
    BY <2>1, <2>4, <2>8, <2>9 DEF Assembling
  <2>11. stsplit' = stsplit /\ \A j \in Indexes \ {i} : j \in stsplit' <=> j \in stsplit
    BY <2>1
  <2>12. Assembled(stadapter, stcalls, ststage, stsplit) /\ ststage' = [ststage EXCEPT ![i] = Parts + 2]
    BY <1>1, <2>1
  <2>13. Assembled(stadapter, stcalls', ststage', stsplit')
    BY <2>4, <2>7, <2>10, <2>11, <2>12, CallMoves, Zenon
  <2> QED
    BY <1>2, <2>1, <2>13
\* what a call is told as a whole
<1>6. ASSUME NEW p \in {1, 0}, NEW w, w = [Stream!Whole EXCEPT ![1] = p]
      PROVE  w \in Seq(Nat) /\ Len(w) = Parts /\ (p # 0 => w = UpTo(Parts))
  <2>1. PICK u : u = UpTo(Parts) /\ u \in [1..Parts -> Nat] /\ 1 \in 1..Parts /\ u[1] = 1
    <3>1. UpTo(Parts) \in [1..Parts -> Nat]
      BY DEF UpTo
    <3>2. 1 \in 1..Parts
      BY <1>0
    <3> QED
      BY <1>0, <3>1, <3>2, UpToItems
  <2>2. PICK v : v = [u EXCEPT ![1] = p]
    BY Zenon
  <2>3. w = v
    BY <1>6, <2>1, <2>2, WholeIs, Zenon
  <2>4. v \in [1..Parts -> Nat]
    BY <2>1, <2>2
  <2>5. v \in Seq(Nat) /\ Len(v) = Parts
    BY <1>0, <2>4, FunctionSeq
  <2>6. p # 0 => v = u
    BY <2>1, <2>2
  <2> QED
    BY <2>1, <2>3, <2>5, <2>6
<1>7. ASSUME NEW i \in Indexes, Stream!ArgumentsDone(i) PROVE StreamInv'
  <2>1. PICK p \in {1, 0} : /\ stcalls' = [stcalls EXCEPT ![i].final = [Stream!Whole EXCEPT ![1] = p], ![i].parts = <<>>]
                            /\ stsplit' = IF p = 0 THEN stsplit \cup {i} ELSE stsplit \ {i}
    BY <1>7, Zenon DEF Stream!ArgumentsDone, Stream!Decoded
  <2>2. /\ stended = "no" /\ stadapter = "codex" /\ UNCHANGED <<stadapter, stended, stcaptured>>
        /\ ststage[i] = Parts + 1 /\ ststage' = [ststage EXCEPT ![i] = Parts + 2]
    <3>1. ststage[i] = Parts + 1 /\ (Parts + 1) + 1 = Parts + 2
      BY <1>0, <1>7 DEF Stream!ArgumentsDone
    <3> QED
      BY <1>7, <3>1, Zenon DEF Stream!ArgumentsDone
  <2>3. PICK w : w = [Stream!Whole EXCEPT ![1] = p]
    BY Zenon
  <2>4. w \in Seq(Nat) /\ Len(w) = Parts /\ (p # 0 => w = UpTo(Parts))
    BY <1>6, <2>3, Zenon
  <2>5. PICK f : f = stcalls /\ f = [j \in Indexes |-> f[j]]
    BY <1>1, <2>2 DEF Assembled
  <2>6. PICK c : c = f[i]
    OBVIOUS
  <2>7. Parts + 1 # 0 /\ Parts + 2 \in 1..(Parts + 2) /\ ~(Parts + 2 <= Parts + 1)
    BY <1>0
  <2>8. Assembling(stadapter, c, Parts + 1, i \in stsplit)
    BY <1>1, <2>2, <2>5, <2>6, <2>7 DEF Assembled
  <2>9. PICK b : b = [c EXCEPT !.final = w, !.parts = <<>>]
    OBVIOUS
  <2>10. stcalls' = [stcalls EXCEPT ![i] = b]
    <3>1. PICK g : g = [f EXCEPT ![i].final = w, ![i].parts = <<>>]
      BY Zenon
    <3>2. PICK h : h = [f EXCEPT ![i] = b]
      BY Zenon
    <3>3. g = h
      BY <2>5, <2>6, <2>9, <3>1, <3>2, Zenon
    <3> QED
      BY <2>1, <2>3, <2>5, <3>1, <3>2, <3>3, Zenon
  <2>11. i \notin stsplit' => p # 0
    BY <2>1
  <2>12. b \in Fragments /\ b.final = w
    <3>1. c \in Fragments
      BY <2>8 DEF Assembling
    <3> QED
      BY <1>0, <2>4, <2>9, <3>1, CallToldWhole, Zenon
  <2>13. Assembling(stadapter, b, Parts + 2, i \in stsplit')
    BY <1>0, <2>2, <2>4, <2>7, <2>11, <2>12 DEF Assembling
  <2>14. \A j \in Indexes \ {i} : j \in stsplit' <=> j \in stsplit
    BY <2>1
  <2>15. Assembled(stadapter, stcalls', ststage', stsplit')
    BY <1>1, <2>2, <2>7, <2>10, <2>13, <2>14, CallMoves, Zenon
  <2> QED
    BY <1>2, <2>2, <2>15
<1>8. ASSUME NEW i \in Indexes, Stream!WholeCall(i) PROVE StreamInv'
  <2>1. PICK p \in {1, 0} : /\ stcalls' = [stcalls EXCEPT ![i] = [Stream!Fresh EXCEPT !.final = [Stream!Whole EXCEPT ![1] = p]]]
                            /\ stsplit' = IF p = 0 THEN stsplit \cup {i} ELSE stsplit
    BY <1>8, Zenon DEF Stream!WholeCall, Stream!Decoded, Stream!Lost
  <2>2. /\ stended = "no" /\ stadapter = "gemini" /\ UNCHANGED <<stadapter, stended, stcaptured>>
        /\ ststage[i] = 0 /\ ststage' = [ststage EXCEPT ![i] = Parts + 2]
    BY <1>8 DEF Stream!WholeCall
  <2>3. PICK w : w = [Stream!Whole EXCEPT ![1] = p]
    BY Zenon
  <2>4. w \in Seq(Nat) /\ Len(w) = Parts /\ (p # 0 => w = UpTo(Parts))
    BY <1>6, <2>3, Zenon
  <2>5. PICK b : b = [Stream!Fresh EXCEPT !.final = w]
    BY Zenon
  <2>6. b \in Fragments /\ b.final = w
    <3>1. Stream!Fresh \in Fragments
      BY <1>0 DEF Stream!Fresh, Fragments
    <3> QED
      BY <1>0, <2>4, <2>5, <3>1, CallEnded
  <2>7. Parts + 2 \in 1..(Parts + 2) /\ ~(Parts + 2 <= Parts + 1)
    BY <1>0
  <2>8. i \notin stsplit' => p # 0
    BY <2>1
  <2>9. Assembling(stadapter, b, Parts + 2, i \in stsplit')
    BY <1>0, <2>2, <2>4, <2>6, <2>7, <2>8 DEF Assembling
  <2>10. \A j \in Indexes \ {i} : j \in stsplit' <=> j \in stsplit
    BY <2>1
  <2>11. stcalls' = [stcalls EXCEPT ![i] = b]
    BY <2>1, <2>3, <2>5, Zenon
  <2>12. Assembled(stadapter, stcalls', ststage', stsplit')
    BY <1>1, <2>2, <2>7, <2>9, <2>10, <2>11, CallMoves, Zenon
  <2> QED
    BY <1>2, <2>2, <2>12
<1>9. ASSUME stended = "no", Stream!Capture, stended' \in {"whole", "cut"},
             stended' = "whole" => \A i \in Indexes : ststage[i] = 0 \/ Stream!Complete(i),
             UNCHANGED <<stadapter, stcalls, ststage, stsplit>>
      PROVE  StreamInv'
  <2>1. Assembled(stadapter, stcalls, ststage, stsplit)
    BY <1>1, <1>9
  <2>2. stcaptured' = UNION {{[at |-> i, text |-> e] : e \in Stream!EditsOf(i)} :
                             i \in {j \in Indexes : stcalls[j].there}}
    BY <1>9 DEF Stream!Capture
  <2>3. ASSUME NEW x \in stcaptured'
        PROVE  \/ x.text = Stream!Whole
               \/ Len(x.text) = Parts /\ x.at \in stsplit'
               \/ x.text = <<>> /\ stadapter' = "anthropic" /\ stended' = "cut" /\ ~Stream!Complete(x.at)'
    <3>0. PICK i \in Indexes : stcalls[i].there /\ x \in {[at |-> i, text |-> e] : e \in Stream!EditsOf(i)}
      BY <2>2
    <3>1. PICK e \in Stream!EditsOf(i) : stcalls[i].there /\ x = [at |-> i, text |-> e]
      BY <3>0
    <3>2. Told(stadapter, ststage[i], i \in stsplit, e)
      BY <2>1, <3>1, EditsTold
    <3>3. x.at = i /\ x.text = e
      BY <3>1
    <3>4. ASSUME ststage[i] # Parts + 2, stadapter = "anthropic"
          PROVE  stended' = "cut" /\ ~Stream!Complete(i)
      <4>1. ~Stream!Complete(i)
        BY <3>4 DEF Stream!Complete
      <4>2. ststage[i] # 0
        BY <2>1, <3>1 DEF Assembled, Stream!Absent
      <4> QED
        BY <1>9, <4>1, <4>2
    <3>5. Stream!Complete(i)' = Stream!Complete(i)
      BY <1>9 DEF Stream!Complete
    <3> QED
      BY <1>9, <3>2, <3>3, <3>4, <3>5 DEF Told
  <2>4. ASSUME stended' = "whole", NEW i \in Indexes, ststage'[i] > 0, Tools[i] \in {"edit", "multi"}
        PROVE  \E x \in stcaptured' : x.at = i
    <3>1. ststage[i] > 0 /\ ststage[i] # 0
      BY <1>9, <2>1, <2>4 DEF Assembled
    <3>2. Stream!Complete(i)
      BY <1>9, <2>4, <3>1
    <3>3. PICK e : e \in Stream!EditsOf(i) /\ stcalls[i].there
      BY <2>1, <2>4, <3>1, <3>2, CompleteYields
    <3>4. [at |-> i, text |-> e] \in stcaptured' /\ [at |-> i, text |-> e].at = i
      BY <2>2, <3>3
    <3> QED
      BY <3>4
  <2>5. Stream!Faithful'
    BY <2>3, <2>4 DEF Stream!Faithful
  <2>6. stended' # "no"
    BY <1>9
  <2> QED
    BY <2>5, <2>6 DEF StreamInv
<1>10. CASE Stream!End
  BY <1>9, <1>10 DEF Stream!End
<1>11. CASE Stream!Cut
  BY <1>9, <1>11 DEF Stream!Cut
<1>12. CASE UNCHANGED stVars
  BY <1>12 DEF stVars, StreamInv, Stream!Faithful, Stream!Complete
<1> QED
  BY <1>3, <1>4, <1>5, <1>7, <1>8, <1>10, <1>11, <1>12 DEF Stream!Next

LEMMA StreamMoves == [Next]_vars => [Stream!Next]_stVars
  BY DEF Next, vars, PatchKeeps, GatewayKeeps, StoreKeeps, FileKeeps, MatchKeeps, LegacyKeeps, AuthKeeps,
         ChannelKeeps, SerialKeeps

-------------------------------------------------------------------------------
(* Patches as text.  What the parser has read of a patch is what was written of *)
(* it, the last file still open; an empty file of a diff is left out when it is  *)
(* closed.                                                                      *)

Marks == {"+", "-", " "}
Verbs == {"add", "update", "delete"}
Patched == [path : Files, verb : Verbs, old : Seq(Texts), new : Seq(Texts)]
NonEmpty == {f \in Patched : f.old # <<>> \/ f.new # <<>>}
Parsers == [files : Seq(Patched), cur : Patched \cup {Patch!NoFile}]

\* the files before the last, as they were closed
Closed(f, w, p) ==
  IF f = "dsl" THEN w = Append(p.files, p.cur)
  ELSE p.cur = w[Len(w)] /\ \E K : Keeps(K, w, NonEmpty, Len(w)) /\ p.files = K[Len(w) - 1]

ReadBack(f, w, p) ==
  /\ p \in Parsers
  /\ w = <<>> => p.files = <<>> /\ p.cur = Patch!NoFile
  /\ w # <<>> => p.cur \in Patched /\ Closed(f, w, p)

PatchInv ==
  /\ ptformat \in {"dsl", "diff"} /\ ptalso \subseteq {"aider", "fence"} /\ ptwritten \in Seq(Patched)
  /\ ~ptdone => ptedits = <<>> /\ (~Patch!Misread => ReadBack(ptformat, ptwritten, ptparser))
  /\ Patch!RoundTrip

LEMMA NoneIsPatched == Patch!NoFile \notin Patched
  BY PatchAssumption, Zenon DEF Patched, Patch!NoFile

LEMMA HeaderIs ==
  ASSUME NEW path \in Files, NEW verb \in Verbs, NEW h, h = [Patch!NoFile EXCEPT !.path = path, !.verb = verb]
  PROVE  h \in Patched /\ h.old = <<>> /\ h.new = <<>>
<1>1. PICK B : B = [path : Files \cup {""}, verb : Verbs \cup {"none"}, old : Seq(Texts), new : Seq(Texts)]
  BY Zenon
<1>2. Patch!NoFile \in B /\ Patch!NoFile.old = <<>> /\ Patch!NoFile.new = <<>>
  BY <1>1, EmptySeq, Zenon DEF Patch!NoFile
<1>3. PICK b : b \in B /\ b = Patch!NoFile
  BY <1>2
<1>4. h = [b EXCEPT !.path = path, !.verb = verb]
  BY <1>3
<1>5. h \in Patched /\ h.old = b.old /\ h.new = b.new
  BY <1>1, <1>3, <1>4, Zenon DEF Patched
<1> QED
  BY <1>2, <1>3, <1>5

LEMMA MarkedIs ==
  ASSUME NEW f \in Patched, NEW mark \in Marks, NEW text \in Texts, NEW g, g = Patch!Marked(f, mark, text)
  PROVE  /\ g \in Patched /\ Items(f.old) \subseteq Items(g.old) /\ Items(f.new) \subseteq Items(g.new)
         /\ text \in Items(g.old) \cup Items(g.new)
<1>1. PICK o \in Seq(Texts), n \in Seq(Texts) : o = f.old /\ n = f.new
  BY DEF Patched
<1>2. PICK p : p = (IF mark # "+" THEN Append(o, text) ELSE o)
  BY Zenon
<1>3. PICK q : q = (IF mark # "-" THEN Append(n, text) ELSE n)
  BY Zenon
<1>4. p \in Seq(Texts) /\ Items(o) \subseteq Items(p) /\ (mark # "+" => text \in Items(p))
  <2>1. Append(o, text) \in Seq(Texts) /\ Items(Append(o, text)) = Items(o) \cup {text}
    BY ItemsAppend
  <2> QED
    BY <1>2, <2>1
<1>5. q \in Seq(Texts) /\ Items(n) \subseteq Items(q) /\ (mark # "-" => text \in Items(q))
  <2>1. Append(n, text) \in Seq(Texts) /\ Items(Append(n, text)) = Items(n) \cup {text}
    BY ItemsAppend
  <2> QED
    BY <1>3, <2>1
<1>6. g = [f EXCEPT !.old = p, !.new = q]
  BY <1>1, <1>2, <1>3 DEF Patch!Marked
<1>7. g \in Patched /\ g.old = p /\ g.new = q
  BY <1>4, <1>5, <1>6, Zenon DEF Patched
<1> QED
  BY <1>1, <1>4, <1>5, <1>7

\* v is w with g in the place of its last file
LastIs(w, g, v) ==
  /\ v \in Seq(Patched) /\ Len(v) = Len(w) /\ v[Len(w)] = g /\ \A i \in 1..(Len(w) - 1) : v[i] = w[i]

LEMMA LengthIs ==
  ASSUME NEW w \in Seq(Patched), w # <<>>
  PROVE  \E n \in Nat : n = Len(w) /\ n # 0 /\ n - 1 \in Nat /\ n \in 1..n /\ DOMAIN w = 1..n /\ w \in [1..n -> Patched]
<1>1. PICK n \in Nat : n = Len(w) /\ DOMAIN w = 1..n /\ w \in [1..n -> Patched]
  OBVIOUS
<1>2. n # 0
  BY <1>1, EmptySeq
<1>3. n - 1 \in Nat /\ n \in 1..n
  BY <1>2
<1> QED
  BY <1>1, <1>2, <1>3, Zenon

LEMMA LastWritten ==
  ASSUME NEW w \in Seq(Patched), w # <<>>, NEW g \in Patched, NEW v, v = [w EXCEPT ![Len(w)] = g]
  PROVE  LastIs(w, g, v)
<1>1. PICK n \in Nat : n = Len(w) /\ n # 0 /\ n \in 1..n /\ w \in [1..n -> Patched]
  BY LengthIs
<1>2. v \in [1..n -> Patched] /\ v[n] = g
  BY <1>1, Zenon
<1>3. \A i \in 1..(n - 1) : i \in 1..n /\ i # n
  OBVIOUS
<1>4. \A i \in 1..(n - 1) : v[i] = w[i]
  BY <1>1, <1>3, Zenon
<1>5. v \in Seq(Patched) /\ Len(v) = n
  BY <1>2, FunctionSeq
<1> QED
  BY <1>1, <1>2, <1>4, <1>5, Zenon DEF LastIs

\* closing the last file
LEMMA FlushedIs ==
  ASSUME ptformat \in {"dsl", "diff"}, NEW w \in Seq(Patched), NEW p, ReadBack(ptformat, w, p), NEW q, q = Patch!Flush(p)
  PROVE  /\ q \in Parsers /\ q.cur = Patch!NoFile
         /\ q.files = IF ptformat = "dsl" THEN w ELSE Kept(w, NonEmpty)
<1>1. PICK s \in Seq(Patched), c \in Patched \cup {Patch!NoFile} : s = p.files /\ c = p.cur
  BY DEF ReadBack, Parsers
<1>2. PICK r : q = [files |-> r, cur |-> Patch!NoFile]
               /\ r = IF ptformat = "dsl" THEN IF c # Patch!NoFile THEN Append(s, c) ELSE s
                      ELSE IF c.old # <<>> \/ c.new # <<>> THEN Append(s, c) ELSE s
  BY <1>1 DEF Patch!Flush, Patch!FlushDsl, Patch!FlushDiff
<1>3. Patch!NoFile.old = <<>> /\ Patch!NoFile.new = <<>>
  BY Zenon DEF Patch!NoFile
<1>4. Kept(<<>>, NonEmpty) = <<>>
  <2>1. <<>> \in Seq(Patched) /\ \A i \in DOMAIN <<>> : <<>>[i] \notin NonEmpty
    BY EmptySeq
  <2> QED
    BY <2>1, LastKept, Zenon
<1>5. r = IF ptformat = "dsl" THEN w ELSE Kept(w, NonEmpty)
  <2>1. CASE w = <<>>
    BY <1>1, <1>2, <1>3, <1>4, <2>1 DEF ReadBack
  <2>2. CASE w # <<>> /\ ptformat = "dsl"
    BY <1>1, <1>2, <2>2, NoneIsPatched DEF ReadBack, Closed
  <2>3. CASE w # <<>> /\ ptformat # "dsl"
    <3>1. PICK n \in Nat : n = Len(w) /\ n # 0
      BY <2>3, EmptySeq
    <3>2. c \in Patched /\ c = w[n] /\ \E K : Keeps(K, w, NonEmpty, n) /\ s = K[n - 1]
      BY <1>1, <2>3, <3>1 DEF ReadBack, Closed
    <3>3. PICK K : Keeps(K, w, NonEmpty, n) /\ s = K[n - 1]
      BY <3>2
    <3>4. PICK L : Keeps(L, w, NonEmpty, n) /\ Kept(w, NonEmpty) = L[n]
      BY <3>1, KeptSteps
    <3>5. K[n] = L[n]
      <4>1. n <= n /\ Alongside(w, NonEmpty, w, NonEmpty, n)
        BY DEF Alongside
      <4> QED
        BY <3>1, <3>3, <3>4, <4>1, KeepsAgree
    <3>6. n \in 1..n
      BY <3>1
    <3>7. K[n] = IF c \in NonEmpty THEN Append(s, c) ELSE s
      BY <3>2, <3>3, <3>6 DEF Keeps
    <3>8. c \in NonEmpty <=> c.old # <<>> \/ c.new # <<>>
      BY <3>2 DEF NonEmpty
    <3> QED
      BY <1>2, <2>3, <3>4, <3>5, <3>7, <3>8
  <2> QED
    BY <2>1, <2>2, <2>3
<1>6. r \in Seq(Patched)
  BY <1>5, ItemsKept
<1>7. PICK z : z = [files |-> r, cur |-> Patch!NoFile]
  BY Zenon
<1>8. z \in Parsers /\ z.cur = Patch!NoFile /\ z.files = r
  BY <1>6, <1>7 DEF Parsers
<1> QED
  BY <1>2, <1>5, <1>7, <1>8, Zenon

\* the next file begins
LEMMA HeaderReads ==
  ASSUME ptformat \in {"dsl", "diff"}, NEW w \in Seq(Patched), NEW p, ReadBack(ptformat, w, p),
         NEW path \in Files, NEW verb \in Verbs, NEW h, h = [Patch!NoFile EXCEPT !.path = path, !.verb = verb],
         NEW q, q = Patch!Header(p, path, verb), NEW v, v = Append(w, h)
  PROVE  ReadBack(ptformat, v, q)
<1>1. PICK a : a = Patch!Flush(p)
  OBVIOUS
<1>2. a \in Parsers /\ a.files = IF ptformat = "dsl" THEN w ELSE Kept(w, NonEmpty)
  BY <1>1, FlushedIs
<1>3. h \in Patched
  BY HeaderIs, Zenon
<1>4. q = [a EXCEPT !.cur = h]
  BY <1>1 DEF Patch!Header
<1>5. q \in Parsers /\ q.cur = h /\ q.files = a.files
  BY <1>2, <1>3, <1>4 DEF Parsers
<1>6. PICK n \in Nat : n = Len(w) /\ v \in Seq(Patched) /\ Len(v) = n + 1 /\ v[n + 1] = h /\ \A i \in 1..n : v[i] = w[i]
  BY <1>3, AppendProperties
<1>7. v # <<>> /\ n + 1 \in Nat /\ (n + 1) - 1 = n
  BY <1>6, EmptySeq
<1>8. Closed(ptformat, v, q)
  <2>1. CASE ptformat = "dsl"
    BY <1>2, <1>5, <2>1 DEF Closed
  <2>2. CASE ptformat # "dsl"
    <3>1. PICK K : Keeps(K, v, NonEmpty, n + 1)
      BY <1>6, <1>7, KeptSteps, Zenon
    <3>2. PICK L : Keeps(L, w, NonEmpty, n) /\ Kept(w, NonEmpty) = L[n]
      BY <1>6, KeptSteps
    <3>3. Alongside(w, NonEmpty, v, NonEmpty, n)
      BY <1>6 DEF Alongside
    <3>4. n <= n /\ n <= n + 1
      OBVIOUS
    <3>5. L[n] = K[n]
      BY <1>7, <3>1, <3>2, <3>3, <3>4, KeepsAgree
    <3>6. q.cur = v[Len(v)] /\ q.files = K[Len(v) - 1]
      BY <1>2, <1>5, <1>6, <1>7, <2>2, <3>2, <3>5
    <3> QED
      BY <1>6, <2>2, <3>1, <3>6 DEF Closed
  <2> QED
    BY <2>1, <2>2
<1> QED
  BY <1>3, <1>5, <1>7, <1>8 DEF ReadBack

\* a line that does not look like a header is added to the last file
LEMMA LineReads ==
  ASSUME ptformat \in {"dsl", "diff"}, NEW w \in Seq(Patched), w # <<>>, NEW p, ReadBack(ptformat, w, p),
         NEW mark \in Marks, NEW text \in Texts, ptformat = "dsl" \/ text \notin Alike,
         NEW q, q = Patch!BodyLine(p, mark, text), NEW g, g = Patch!Marked(w[Len(w)], mark, text),
         NEW v, LastIs(w, g, v)
  PROVE  ReadBack(ptformat, v, q)
<1>1. PICK n \in Nat : n = Len(w) /\ n # 0 /\ n - 1 \in Nat /\ n \in 1..n /\ w \in [1..n -> Patched]
  BY LengthIs
<1>2. PICK l \in Patched : l = w[n]
  BY <1>1
<1>3. g \in Patched /\ g = Patch!Marked(l, mark, text)
  BY <1>1, <1>2, MarkedIs
<1>4. v \in Seq(Patched) /\ Len(v) = n /\ v[n] = g /\ \A i \in 1..(n - 1) : v[i] = w[i]
  BY <1>1 DEF LastIs
<1>5. v # <<>>
  BY <1>1, <1>4, EmptySeq
<1>6. p \in Parsers /\ Closed(ptformat, w, p) /\ p.cur \in Patched
  BY DEF ReadBack
<1>7. ASSUME ptformat = "dsl"
      PROVE  \E s \in Seq(Patched) : s = p.files /\ w = Append(s, l) /\ Len(s) = n - 1 /\ p.cur = l
                                     /\ \A i \in 1..(n - 1) : s[i] = w[i]
  <2>1. PICK s \in Seq(Patched), c \in Patched : s = p.files /\ c = p.cur
    BY <1>6 DEF Parsers
  <2>2. w = Append(s, c)
    BY <1>6, <1>7, <2>1 DEF Closed
  <2>3. PICK k \in Nat : k = Len(s)
    BY <2>1
  <2>4. Len(w) = k + 1 /\ w[k + 1] = c /\ \A i \in 1..k : w[i] = s[i]
    BY <2>1, <2>2, <2>3, AppendProperties
  <2>5. k = n - 1 /\ k + 1 = n
    BY <1>1, <2>4
  <2> QED
    BY <1>2, <2>1, <2>2, <2>3, <2>4, <2>5
<1>8. p.cur = l
  BY <1>1, <1>2, <1>6, <1>7, Zenon DEF Closed
<1>9. q \in Parsers /\ q.cur = g /\ q.files = p.files
  <2>1. PICK a : a \in Parsers /\ a = p
    BY <1>6
  <2>2. q = [a EXCEPT !.cur = Patch!Marked(@, mark, text)]
    BY <2>1 DEF Patch!BodyLine, Patch!DslLine, Patch!DiffLine
  <2>3. q = [a EXCEPT !.cur = g]
    BY <1>3, <1>8, <2>1, <2>2
  <2> QED
    BY <1>3, <2>1, <2>3 DEF Parsers
<1>10. CASE ptformat = "dsl"
  <2>1. PICK s \in Seq(Patched) : s = p.files /\ Len(s) = n - 1 /\ \A i \in 1..(n - 1) : s[i] = w[i]
    BY <1>7, <1>10
  <2>2. PICK b : b = Append(s, g)
    BY Zenon
  <2>3. b \in Seq(Patched) /\ Len(b) = Len(s) + 1 /\ b[Len(s) + 1] = g /\ \A i \in 1..Len(s) : b[i] = s[i]
    BY <1>3, <2>2, AppendProperties
  <2>4. (n - 1) + 1 = n /\ \A i \in 1..n : i \in 1..(n - 1) \/ i = n
    OBVIOUS
  <2>5. \A i \in 1..n : v[i] = b[i]
    BY <1>4, <2>1, <2>3, <2>4
  <2>6. v = b
    BY <1>4, <2>1, <2>3, <2>4, <2>5, SeqEqual
  <2>7. Closed(ptformat, v, q)
    BY <1>9, <1>10, <2>1, <2>2, <2>6 DEF Closed
  <2> QED
    BY <1>3, <1>5, <1>9, <2>7 DEF ReadBack
<1>11. CASE ptformat # "dsl"
  <2>1. PICK K : Keeps(K, w, NonEmpty, n) /\ p.files = K[n - 1]
    BY <1>1, <1>6, <1>11 DEF Closed
  <2>2. PICK L : Keeps(L, v, NonEmpty, n)
    BY <1>4, KeptSteps, Zenon
  <2>3. Alongside(w, NonEmpty, v, NonEmpty, n - 1)
    BY <1>4 DEF Alongside
  <2>4. n - 1 <= n
    OBVIOUS
  <2>5. K[n - 1] = L[n - 1]
    BY <1>1, <2>1, <2>2, <2>3, <2>4, KeepsAgree
  <2>6. q.cur = v[Len(v)] /\ q.files = L[Len(v) - 1] /\ Keeps(L, v, NonEmpty, Len(v))
    BY <1>4, <1>9, <2>1, <2>2, <2>5
  <2>7. Closed(ptformat, v, q)
    BY <1>11, <2>6 DEF Closed
  <2> QED
    BY <1>3, <1>5, <1>9, <2>7 DEF ReadBack
<1> QED
  BY <1>10, <1>11

\* the edits of a text are of one parser, and if it is that of the format they are the files
LEMMA TextEditsAre ==
  ASSUME ptformat \in {"dsl", "diff"}, ptalso \subseteq {"aider", "fence"}, NEW f, NEW e, e = Patch!TextEdits(f)
  PROVE  /\ \A i, j \in DOMAIN e : e[i].by = e[j].by
         /\ f \in Seq(Patched) /\ f # <<>> /\ (ptformat = "diff" => "aider" \notin ptalso) => [i \in DOMAIN e |-> e[i].file] = f
<1>1. ASSUME NEW name, NEW b, b = Patch!By(name, f)
      PROVE  (\A i, j \in DOMAIN b : b[i].by = b[j].by) /\ (f \in Seq(Patched) => [i \in DOMAIN b |-> b[i].file] = f)
  <2>1. PICK D : D = DOMAIN f
    OBVIOUS
  <2>2. b = [i \in D |-> [by |-> name, file |-> f[i]]]
    BY <1>1, <2>1 DEF Patch!By
  <2>3. DOMAIN b = D /\ \A i \in D : b[i].by = name /\ b[i].file = f[i]
    BY <2>2
  <2>4. f \in Seq(Patched) => f = [i \in D |-> f[i]]
    BY <2>1
  <2> QED
    BY <2>3, <2>4
<1>2. ASSUME NEW name, NEW b, b = <<[by |-> name, file |-> Patch!NoFile]>> PROVE \A i, j \in DOMAIN b : b[i].by = b[j].by
  BY <1>2
<1>3. CASE ptformat = "dsl" /\ f # <<>>
  <2>1. e = Patch!By("dsl", f)
    BY <1>3 DEF Patch!TextEdits
  <2> QED
    BY <1>1, <2>1
<1>4. CASE (ptformat = "diff" \/ f = <<>>) /\ "aider" \in ptalso
  <2>1. e = <<[by |-> "aider", file |-> Patch!NoFile]>>
    BY <1>4 DEF Patch!TextEdits
  <2> QED
    BY <1>2, <1>4, <2>1
<1>5. CASE ptformat = "diff" /\ f # <<>> /\ "aider" \notin ptalso
  <2>1. e = Patch!By("diff", f)
    BY <1>5 DEF Patch!TextEdits
  <2> QED
    BY <1>1, <2>1
<1>6. CASE f = <<>> /\ "aider" \notin ptalso /\ "fence" \in ptalso
  <2>1. ptalso = {"fence"}
    BY <1>6, Zenon
  <2>2. e = <<[by |-> "fence", file |-> Patch!NoFile]>>
    BY <1>6, <2>1 DEF Patch!TextEdits
  <2> QED
    BY <1>2, <1>6, <2>2
<1>7. CASE f = <<>> /\ "aider" \notin ptalso /\ "fence" \notin ptalso
  <2>1. ptalso = {}
    BY <1>7
  <2>2. e = <<>>
    BY <1>7, <2>1 DEF Patch!TextEdits
  <2>3. DOMAIN e = {}
    BY <2>2
  <2> QED
    BY <1>7, <2>3
<1> QED
  BY <1>3, <1>4, <1>5, <1>6, <1>7

LEMMA ExpectedIs ==
  ASSUME ptwritten \in Seq(Patched)
  PROVE  Patch!Expected = IF ptformat = "dsl" THEN ptwritten ELSE Kept(ptwritten, NonEmpty)
<1>1. PICK T : T = {f \in Items(ptwritten) : f.old # <<>> \/ f.new # <<>>}
  BY Zenon
<1>2. Patch!Expected = IF ptformat = "dsl" THEN ptwritten ELSE Kept(ptwritten, T)
  <2>1. Patch!Range(ptwritten) = Items(ptwritten)
    BY DEF Patch!Range, Items
  <2>2. Patch!Kept(ptwritten, T) = Kept(ptwritten, T)
    BY DEF Patch!Kept, Kept
  <2> QED
    BY <1>1, <2>1, <2>2 DEF Patch!Expected
<1>3. PICK n \in Nat : n = Len(ptwritten)
  OBVIOUS
<1>4. PICK K : Keeps(K, ptwritten, T, n) /\ Kept(ptwritten, T) = K[n]
  BY <1>3, KeptSteps
<1>5. PICK L : Keeps(L, ptwritten, NonEmpty, n) /\ Kept(ptwritten, NonEmpty) = L[n]
  BY <1>3, KeptSteps
<1>6. Alongside(ptwritten, T, ptwritten, NonEmpty, n)
  BY <1>1, <1>3 DEF NonEmpty, Items, Alongside
<1>7. n <= n
  OBVIOUS
<1>8. K[n] = L[n]
  BY <1>4, <1>5, <1>6, <1>7, KeepsAgree
<1> QED
  BY <1>2, <1>4, <1>5, <1>8

LEMMA PatchInit == Patch!Init => PatchInv
<1> SUFFICES ASSUME Patch!Init PROVE PatchInv
  OBVIOUS
<1>1. /\ ptformat \in {"dsl", "diff"} /\ ptalso \subseteq {"aider", "fence"} /\ ptwritten = <<>> /\ ptedits = <<>> /\ ~ptdone
      /\ ptparser = [files |-> <<>>, cur |-> Patch!NoFile]
  BY DEF Patch!Init
<1>2. PICK p : p = ptparser /\ p = [files |-> <<>>, cur |-> Patch!NoFile]
  BY <1>1
<1>3. p \in Parsers /\ p.files = <<>> /\ p.cur = Patch!NoFile
  BY <1>2, EmptySeq DEF Parsers
<1>4. ReadBack(ptformat, <<>>, p)
  BY <1>3 DEF ReadBack
<1>5. DOMAIN ptedits = {}
  BY <1>1
<1>6. Patch!RoundTrip
  BY <1>1, <1>5 DEF Patch!RoundTrip
<1> QED
  BY <1>1, <1>2, <1>4, <1>6, EmptySeq DEF PatchInv

\* a patch that is read otherwise
Misreads(f, w) == f = "diff" /\ \E i \in DOMAIN w : \E t \in Alike : t \in Items(w[i].old) \cup Items(w[i].new)

LEMMA MisreadIs == Patch!Misread <=> Misreads(ptformat, ptwritten)
  BY DEF Patch!Misread, Misreads, Patch!Range, Items

LEMMA StillMisread ==
  ASSUME NEW f, NEW w \in Seq(Patched), NEW v \in Seq(Patched), Len(w) <= Len(v), Misreads(f, w),
         \A i \in DOMAIN w : Items(w[i].old) \cup Items(w[i].new) \subseteq Items(v[i].old) \cup Items(v[i].new)
  PROVE  Misreads(f, v)
<1>1. PICK i \in DOMAIN w, t \in Alike : t \in Items(w[i].old) \cup Items(w[i].new)
  BY DEF Misreads
<1>2. PICK m, n \in Nat : m = Len(w) /\ n = Len(v) /\ DOMAIN w = 1..m /\ DOMAIN v = 1..n
  OBVIOUS
<1>3. i \in DOMAIN v
  BY <1>1, <1>2
<1>4. t \in Items(v[i].old) \cup Items(v[i].new)
  BY <1>1
<1> QED
  BY <1>1, <1>3, <1>4 DEF Misreads

LEMMA PatchStep == ASSUME PatchInv, [Patch!Next]_ptVars PROVE PatchInv'
<1>0. /\ ptformat \in {"dsl", "diff"} /\ ptalso \subseteq {"aider", "fence"} /\ ptwritten \in Seq(Patched)
      /\ ~ptdone => ptedits = <<>> /\ (~Misreads(ptformat, ptwritten) => ReadBack(ptformat, ptwritten, ptparser))
  BY MisreadIs DEF PatchInv
<1>1. Patch!Misread' <=> Misreads(ptformat', ptwritten')
  BY DEF Patch!Misread, Misreads, Patch!Range, Items
<1>2. ASSUME ~ptdone, UNCHANGED <<ptformat, ptalso, ptedits, ptdone>>, ptwritten' \in Seq(Patched),
             ~Misreads(ptformat, ptwritten') => ReadBack(ptformat, ptwritten', ptparser')
      PROVE  PatchInv'
  <2>1. ptedits' = <<>> /\ ~ptdone' /\ DOMAIN ptedits' = {}
    BY <1>0, <1>2
  <2>2. Patch!RoundTrip'
    BY <2>1 DEF Patch!RoundTrip
  <2> QED
    BY <1>0, <1>1, <1>2, <2>1, <2>2 DEF PatchInv
<1>3. ASSUME NEW path \in Files, NEW verb \in Verbs, Patch!WriteHeader(path, verb) PROVE PatchInv'
  <2>1. PICK h : h = [Patch!NoFile EXCEPT !.path = path, !.verb = verb]
    OBVIOUS
  <2>2. h \in Patched
    BY <2>1, HeaderIs, Zenon
  <2>3. /\ ~ptdone /\ UNCHANGED <<ptformat, ptalso, ptedits, ptdone>>
        /\ ptwritten' = Append(ptwritten, h) /\ ptparser' = Patch!Header(ptparser, path, verb)
    BY <1>3, <2>1 DEF Patch!WriteHeader
  <2>4. PICK w \in Seq(Patched) : w = ptwritten
    BY <1>0
  <2>5. PICK v : v = ptwritten' /\ v = Append(w, h)
    BY <2>3, <2>4
  <2>6. v \in Seq(Patched) /\ Len(v) = Len(w) + 1 /\ \A i \in 1..Len(w) : v[i] = w[i]
    BY <2>2, <2>5, AppendProperties
  <2>7. Len(w) <= Len(v) /\ \A i \in DOMAIN w : Items(w[i].old) \cup Items(w[i].new) \subseteq Items(v[i].old) \cup Items(v[i].new)
    BY <2>6
  <2>8. ASSUME ~Misreads(ptformat, v) PROVE ReadBack(ptformat, v, ptparser')
    <3>1. ~Misreads(ptformat, w)
      BY <2>6, <2>7, <2>8, StillMisread
    <3> QED
      BY <1>0, <2>1, <2>3, <2>4, <2>5, <3>1, HeaderReads, Zenon
  <2> QED
    BY <1>2, <2>3, <2>5, <2>6, <2>8
<1>4. ASSUME NEW mark \in Marks, NEW text \in Texts, Patch!WriteLine(mark, text) PROVE PatchInv'
  <2>1. /\ ~ptdone /\ UNCHANGED <<ptformat, ptalso, ptedits, ptdone>> /\ ptwritten # <<>>
        /\ ptparser' = Patch!BodyLine(ptparser, mark, text)
    BY <1>4 DEF Patch!WriteLine
  <2>2. PICK w \in Seq(Patched) : w = ptwritten /\ w # <<>>
    BY <1>0, <2>1
  <2>3. PICK n \in Nat : n = Len(w) /\ n \in 1..n /\ DOMAIN w = 1..n /\ w \in [1..n -> Patched]
    BY <2>2, LengthIs
  <2>4. PICK l \in Patched : l = w[n]
    BY <2>3
  <2>5. PICK g : g = Patch!Marked(l, mark, text)
    OBVIOUS
  <2>6. /\ g \in Patched /\ Items(l.old) \subseteq Items(g.old) /\ Items(l.new) \subseteq Items(g.new)
        /\ text \in Items(g.old) \cup Items(g.new)
    BY <2>5, MarkedIs, Zenon
  <2>7. PICK v : v = ptwritten' /\ LastIs(w, g, v)
    <3>1. ptwritten' = [w EXCEPT ![Len(w)] = Patch!Marked(@, mark, text)]
      BY <1>4, <2>2 DEF Patch!WriteLine
    <3>2. ptwritten' = [w EXCEPT ![Len(w)] = g]
      BY <2>3, <2>4, <2>5, <3>1, Zenon
    <3> QED
      BY <2>2, <2>6, <3>2, LastWritten
  <2>8. v \in Seq(Patched) /\ Len(v) = n /\ v[n] = g /\ \A i \in 1..(n - 1) : v[i] = w[i]
    BY <2>3, <2>7 DEF LastIs
  <2>9. \A i \in 1..n : i = n \/ i \in 1..(n - 1)
    OBVIOUS
  <2>10. \A i \in DOMAIN w : Items(w[i].old) \cup Items(w[i].new) \subseteq Items(v[i].old) \cup Items(v[i].new)
    BY <2>3, <2>4, <2>6, <2>8, <2>9, Zenon
  <2>11. ASSUME ~Misreads(ptformat, v) PROVE ReadBack(ptformat, v, ptparser')
    <3>1. ~Misreads(ptformat, w)
      <4>1. Len(w) <= Len(v)
        BY <2>3, <2>8
      <4> QED
        BY <2>8, <2>10, <2>11, <4>1, StillMisread
    <3>2. ptformat = "dsl" \/ text \notin Alike
      <4>1. n \in DOMAIN v
        BY <2>3, <2>8
      <4> QED
        BY <1>0, <2>6, <2>8, <2>11, <4>1 DEF Misreads
    <3>3. ReadBack(ptformat, w, ptparser)
      BY <1>0, <2>1, <2>2, <3>1
    <3>4. g = Patch!Marked(w[Len(w)], mark, text)
      BY <2>3, <2>4, <2>5
    <3> QED
      BY <1>0, <2>1, <2>2, <2>7, <3>2, <3>3, <3>4, LineReads
  <2> QED
    BY <1>2, <2>1, <2>7, <2>8, <2>11
<1>5. CASE Patch!Finish
  <2>1. /\ ~ptdone /\ ptdone' /\ ptparser' = Patch!Flush(ptparser) /\ UNCHANGED <<ptformat, ptwritten, ptalso>>
    BY <1>5 DEF Patch!Finish
  <2>2. PICK f : f = ptparser'.files
    OBVIOUS
  <2>3. PICK e : e = ptedits' /\ e = Patch!TextEdits(f)
    BY <1>5, <2>2 DEF Patch!Finish
  <2>4. \A i, j \in DOMAIN e : e[i].by = e[j].by
    BY <1>0, <2>3, TextEditsAre
  <2>5. Patch!Expected' = Patch!Expected
    BY <2>1 DEF Patch!Expected
  <2>6. ASSUME ~Patch!Misread', Patch!Expected # <<>>, ptformat = "diff" => "aider" \notin ptalso
        PROVE  [i \in DOMAIN e |-> e[i].file] = Patch!Expected
    <3>1. ReadBack(ptformat, ptwritten, ptparser)
      BY <1>0, <1>1, <2>1, <2>6
    <3>2. PICK q : q = ptparser' /\ q = Patch!Flush(ptparser)
      BY <2>1
    <3>3. q \in Parsers /\ q.files = Patch!Expected
      BY <1>0, <3>1, <3>2, FlushedIs, ExpectedIs
    <3>4. f \in Seq(Patched) /\ f = Patch!Expected
      BY <2>2, <3>2, <3>3 DEF Parsers
    <3> QED
      BY <1>0, <2>3, <2>6, <3>4, TextEditsAre
  <2>7. Patch!RoundTrip'
    BY <2>1, <2>3, <2>4, <2>5, <2>6 DEF Patch!RoundTrip
  <2> QED
    BY <1>0, <2>1, <2>7 DEF PatchInv
<1>6. CASE UNCHANGED ptVars
  BY <1>6 DEF ptVars, PatchInv, Patch!RoundTrip, Patch!Misread, Patch!Expected
<1> QED
  BY <1>3, <1>4, <1>5, <1>6, Zenon DEF Patch!Next, Verbs, Marks

LEMMA PatchMoves == [Next]_vars => [Patch!Next]_ptVars
  BY DEF Next, vars, StreamKeeps, GatewayKeeps, StoreKeeps, FileKeeps, MatchKeeps, LegacyKeeps, AuthKeeps,
         ChannelKeeps, SerialKeeps

\* Whatever an answer interleaves, wherever it is cut, and whichever characters are lost between chunks: no
\* edit is captured in part or with fragments of another call, and an answer that ended by itself yields
\* all.  And whatever is written into a patch, it is read back line by line, unless lines of a unified diff
\* look like headers, and its edits are those of one parser.
THEOREM EditsAreFaithful == Spec => []EditsFaithful
<1>1. Init => StreamInv /\ PatchInv
  BY StreamInit, PatchInit DEF Init
<1>2. StreamInv /\ [Next]_vars => StreamInv'
  BY StreamStep, StreamMoves
<1>3. PatchInv /\ [Next]_vars => PatchInv'
  BY PatchStep, PatchMoves
<1>4. StreamInv /\ PatchInv => EditsFaithful
  BY DEF StreamInv, PatchInv, EditsFaithful
<1> QED
  BY <1>1, <1>2, <1>3, <1>4, PTL DEF Spec
===============================================================================
