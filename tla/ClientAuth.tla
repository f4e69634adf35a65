----------------------------- MODULE ClientAuth -----------------------------
(* The tokens of the full editor extension (backendAuth.ts).  They are four     *)
(* secrets of the editor, each read and written by an await of its own, shared  *)
(* by every call that needs a token.  The backend keeps one refresh token per   *)
(* user and replaces it at every refresh and login; a client that presents an  *)
(* older one is refused and forgets all it has.                                 *)
EXTENDS Naturals, FiniteSets

CONSTANTS
  Calls,   \* calls that obtain a token
  MaxGen   \* bound on the tokens the backend issues

VARIABLES
  server,    \* the refresh token the backend expects; 0 after a logout
  issued,
  access, refresh,  \* the secrets; 0 when missing
  legacy,    \* the secret of an older version is still there
  key,       \* an API key is stored
  expiring,  \* access tokens that are about to expire
  call,
  causes     \* what happened that may cost the client its session

vars == <<server, issued, access, refresh, legacy, key, expiring, call, causes>>

LegacyToken == MaxGen + 1
Tokens == 0..LegacyToken
Idle == [stage |-> "idle", kind |-> "none", holds |-> 0, new |-> 0]
Active(c) == call[c].stage # "idle"

Init == /\ server = 1 /\ issued = 1
        /\ \/ access = 1 /\ refresh = 1 /\ legacy = FALSE
           \/ access = 0 /\ refresh = 0 /\ legacy = TRUE
        /\ key \in BOOLEAN /\ expiring = {} /\ causes = {}
        /\ call = [c \in Calls |-> Idle]

To(c, stage) == call' = [call EXCEPT ![c].stage = stage]
Ends(c) == call' = [call EXCEPT ![c] = Idle]
Overlaps(kinds, cause) == IF \E d \in Calls : Active(d) /\ call[d].kind \in kinds THEN {cause} ELSE {}

(* ensureAccessToken, with migrateLegacyTokenIfNeeded before it: a token that is
   not about to expire is used unless the caller forces a refresh *)
Ensure(c) ==
  /\ ~Active(c)
  /\ LET migrates == access = 0 /\ legacy
         have == IF migrates THEN LegacyToken ELSE access
     IN  /\ access' = have /\ legacy' = (legacy /\ ~migrates)
         /\ \/ have # 0 /\ have \notin expiring /\ UNCHANGED call
            \/ call' = [call EXCEPT ![c] = [Idle EXCEPT !.stage = "reading", !.kind = "refresh"]]
  /\ UNCHANGED <<server, issued, refresh, key, expiring, causes>>

(* tryRefreshAccessToken: the refresh token is read; without one there is nothing to do *)
ReadRefresh(c) ==
  /\ call[c].stage = "reading"
  /\ IF refresh = 0 THEN Ends(c) /\ UNCHANGED causes
     ELSE /\ call' = [call EXCEPT ![c].stage = "posting", ![c].holds = refresh]
          /\ causes' = causes \cup (IF \E d \in Calls \ {c} : call[d].holds = refresh THEN {"overlap"} ELSE {})
                              \cup Overlaps({"login"}, "race")
  /\ UNCHANGED <<server, issued, access, refresh, legacy, key, expiring>>

(* the backend rotates its token, or refuses one it does not expect *)
Rotates(c) ==
  /\ call[c].stage = "posting" /\ call[c].holds = server /\ issued < MaxGen
  /\ issued' = issued + 1 /\ server' = issued'
  /\ \/ /\ call' = [call EXCEPT ![c].stage = "answered", ![c].new = issued']
        /\ UNCHANGED causes
     \/ Ends(c) /\ causes' = causes \cup {"lost"}
  /\ UNCHANGED <<access, refresh, legacy, key, expiring>>
Refuses(c) ==
  /\ call[c].stage = "posting" /\ call[c].holds # server
  /\ To(c, "refused")
  /\ UNCHANGED <<server, issued, access, refresh, legacy, key, expiring, causes>>
Unreachable(c) ==
  /\ call[c].stage = "posting"
  /\ Ends(c)
  /\ UNCHANGED <<server, issued, access, refresh, legacy, key, expiring, causes>>

(* loginWithCredentials, registerWithCredentials: the answer has both tokens *)
Login(c) ==
  /\ ~Active(c) /\ issued < MaxGen
  /\ issued' = issued + 1 /\ server' = issued'
  /\ call' = [call EXCEPT ![c] = [stage |-> "answered", kind |-> "login", holds |-> 0, new |-> issued']]
  /\ causes' = (causes \ {"lost", "elsewhere"}) \cup Overlaps({"refresh", "login"}, "race")
  /\ UNCHANGED <<access, refresh, legacy, key, expiring>>

(* storeTokens: one secret after the other *)
StoreAccess(c) ==
  /\ call[c].stage = "answered"
  /\ access' = call[c].new /\ To(c, "storing")
  /\ UNCHANGED <<server, issued, refresh, legacy, key, expiring, causes>>
Stored(c, token) ==
  /\ call[c].stage = "storing"
  /\ refresh' = token /\ Ends(c)
  /\ UNCHANGED <<server, issued, access, legacy, key, expiring, causes>>
(* the answer of a refresh is taken to carry an access token only *)
StoreRefreshKept(c) == Stored(c, IF call[c].kind = "refresh" THEN refresh ELSE call[c].new)
StoreRefresh(c) == Stored(c, call[c].new)

(* clearStoredTokens: access token, refresh token, then API key and workspace *)
ClearAccess(c) ==
  /\ call[c].stage = "refused"
  /\ access' = 0 /\ To(c, "clearing")
  /\ UNCHANGED <<server, issued, refresh, legacy, key, expiring, causes>>
ClearRefresh(c) ==
  /\ call[c].stage = "clearing"
  /\ refresh' = 0 /\ To(c, "cleared")
  /\ UNCHANGED <<server, issued, access, legacy, key, expiring, causes>>
ClearKey(c) ==
  /\ call[c].stage = "cleared"
  /\ key' = FALSE /\ Ends(c)
  /\ UNCHANGED <<server, issued, access, refresh, legacy, expiring, causes>>

(* pasteTokensManually: the access token alone; the refresh token is forgotten *)
Paste ==
  /\ \A c \in Calls : ~Active(c)
  /\ access' = issued /\ refresh' = 0 /\ causes' = causes \cup {"pasted"}
  /\ UNCHANGED <<server, issued, legacy, key, expiring, call>>

SetApiKey == ~key /\ key' = TRUE /\ UNCHANGED <<server, issued, access, refresh, legacy, expiring, call, causes>>

(* the access token comes near its expiry *)
Ages == /\ access # 0 /\ expiring' = expiring \cup {access}
        /\ UNCHANGED <<server, issued, access, refresh, legacy, key, call, causes>>

(* the user signs in or out, or changes the password, in another client *)
Elsewhere ==
  /\ \/ server' = 0 /\ UNCHANGED issued
     \/ issued < MaxGen /\ issued' = issued + 1 /\ server' = issued'
  /\ causes' = causes \cup {"elsewhere"}
  /\ UNCHANGED <<access, refresh, legacy, key, expiring, call>>

Next == \/ \E c \in Calls : \/ Ensure(c) \/ ReadRefresh(c) \/ Rotates(c) \/ Refuses(c) \/ Unreachable(c)
                            \/ Login(c) \/ StoreAccess(c) \/ StoreRefresh(c)
                            \/ ClearAccess(c) \/ ClearRefresh(c) \/ ClearKey(c)
        \/ Paste \/ SetApiKey \/ Ages \/ Elsewhere

Spec == Init /\ [][Next]_vars

-----------------------------------------------------------------------------
TypeOK == /\ server \in 0..MaxGen /\ issued \in 1..MaxGen
          /\ access \in Tokens /\ refresh \in 0..MaxGen /\ expiring \subseteq Tokens
          /\ \A c \in Calls : call[c].holds \in Tokens /\ call[c].new \in Tokens

\* The client never gets stuck or signed out by itself: between calls its refresh
\* token is the one the backend expects, and it gave up its tokens or its API key
\* only if two refreshes used one token, a login raced a refresh, an answer was
\* lost, or the session was replaced elsewhere.
SessionSurvives ==
  /\ (\A c \in Calls : ~Active(c)) /\ causes \cap {"lost", "elsewhere", "race"} = {} => refresh \in {0, server}
  /\ (\E c \in Calls : call[c].stage \in {"refused", "clearing", "cleared"}) => causes \ {"pasted"} # {}
=============================================================================
