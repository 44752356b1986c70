---------------------------- MODULE GoogleTokens ----------------------------
(****************************************************************************)
(* backend/googleauth/manager.go: the access tokens of one Google            *)
(* connection.  Sync workers and the web server ask for a token at any time. *)
(* It comes from the cache in memory, from the connection's row, or from a   *)
(* refresh at Google, of which one runs at a time while the others wait for  *)
(* its result.  The user may reconnect or disconnect the account, and Google *)
(* may stop honouring a grant, between any two steps.                        *)
(*                                                                          *)
(* A step is a critical section of tokenMu or refreshMu, a statement of the  *)
(* store, or an answer of Google.  Tokens are numbered in the order Google   *)
(* issues them; 0 is none.  A row that is deleted stays deleted: its id is   *)
(* an identity column, and a later consent makes another connection.         *)
(****************************************************************************)
EXTENDS Integers, Sequences, FiniteSets

CONSTANTS
    Callers,     \* goroutines that ask for tokens, reconnect or disconnect
    MaxCalls,    \* bound: calls of them all
    MaxTrouble   \* bound: failed statements, failed requests, callers that give
                 \* up waiting, tokens that lapse and grants that Google drops

ASSUME TokensAssumption == {MaxCalls, MaxTrouble} \subseteq Nat

VARIABLES
    row,      \* the google_connections row: its status, grant and access token
    cache,    \* Manager.tokens: the token held in memory
    flight,   \* Manager.refreshes: the caller whose refresh runs, in a set
    caller,   \* of each caller: where it is, what for, what it holds
    issued,   \* at Google: the grant of each token it issued
    dropped,  \* at Google: grants it no longer honours
    grants,   \* at Google: consents so far
    lapsed,   \* tokens past their expiry less refreshSkew
    calls, trouble

google     == <<issued, dropped, grants, lapsed>>
tokensVars == <<row, cache, flight, caller, google, calls, trouble>>

Modes    == {"get", "test", "force", "connect", "disconnect"}
Inside   == {"reread", "asking", "persist", "flag", "publish"}
CallType == [pc : Inside \cup {"idle", "read", "queue", "wait", "keep",
                               "upsert", "revoke", "delete", "forget"},
             mode : Modes, token : Nat, grant : Nat, since : Nat]

TokensTypeOK ==
    /\ row \in [status : {"ok", "reauth", "deleted"}, grant : Nat, token : Nat]
    /\ row.grant <= grants /\ row.token <= Len(issued)
    /\ cache \in 0 .. Len(issued)
    /\ caller \in [Callers -> CallType]
    /\ flight = {c \in Callers : caller[c].pc \in Inside}
    /\ (\E c \in Callers : caller[c].pc = "wait") => flight # {}
    /\ \A c \in Callers : caller[c].token <= Len(issued) /\ caller[c].grant <= grants
    /\ issued \in Seq(1 .. grants) /\ grants \in Nat
    /\ dropped \subseteq 1 .. grants /\ lapsed \subseteq DOMAIN issued
    /\ calls \in 0 .. MaxCalls /\ trouble \in 0 .. MaxTrouble

AtEase == [pc |-> "idle", mode |-> "get", token |-> 0, grant |-> 0, since |-> 0]

(* The account was connected with the first grant and its first token. *)
TokensInit ==
    /\ row = [status |-> "ok", grant |-> 1, token |-> 1]
    /\ cache = 0 /\ flight = {} /\ caller = [c \in Callers |-> AtEase]
    /\ issued = <<1>> /\ dropped = {} /\ grants = 1 /\ lapsed = {}
    /\ calls = 0 /\ trouble = 0

-----------------------------------------------------------------------------
(* cachedToken, usableStoredToken: held, and comfortably valid. *)
Usable(token) == token # 0 /\ token \notin lapsed

(* forgetToken *)
Forgotten == 0

Goes(c, pc)   == caller' = [caller EXCEPT ![c].pc = pc]
Returns(c)    == caller' = [caller EXCEPT ![c] = AtEase]
MayTrouble    == trouble < MaxTrouble /\ trouble' = trouble + 1
StoreLeft     == UNCHANGED <<google, calls>>

(* A call ends with an error: a statement or a request fails. *)
Fails(c) == MayTrouble /\ Returns(c)

-----------------------------------------------------------------------------
Called(c, mode, pc) ==
    /\ caller[c].pc = "idle" /\ calls < MaxCalls /\ calls' = calls + 1
    /\ caller' = [caller EXCEPT ![c] =
           [AtEase EXCEPT !.pc = pc, !.mode = mode, !.since = Len(issued)]]

(* AccessToken with a token in memory returns it at once; without one, and    *)
(* AccessTokenAndConnection always, it reads the row.                         *)
Get(c) ==
    /\ ~Usable(cache) /\ Called(c, "get", "read")
    /\ UNCHANGED <<row, cache, flight, google, trouble>>

Test(c) ==
    /\ Called(c, "test", "read")
    /\ UNCHANGED <<row, cache, flight, google, trouble>>

Read(c) ==
    /\ caller[c].pc = "read"
    /\ \/ /\ row.status = "ok" /\ Usable(row.token)
          /\ IF caller[c].mode = "get"
             THEN caller' = [caller EXCEPT ![c].pc = "keep", ![c].token = row.token]
             ELSE Returns(c)
          /\ UNCHANGED trouble
       \/ row.status = "ok" /\ ~Usable(row.token) /\ Goes(c, "queue") /\ UNCHANGED trouble
       \/ row.status # "ok" /\ Returns(c) /\ UNCHANGED trouble
       \/ Fails(c)
    /\ UNCHANGED <<row, cache, flight, google, calls>>

(* ForceRefresh: a server rejected the token, which must not be served again. *)
ForceRefresh(c) ==
    /\ Called(c, "force", "queue") /\ cache' = Forgotten
    /\ UNCHANGED <<row, flight, google, trouble>>

-----------------------------------------------------------------------------
(* Mutated: a refresh does not wait for the one that runs. *)
SlotFreeMutant == TRUE

(* refresh: claim the slot, or wait for the call that has it. *)
SlotFree == flight = {}

Claim(c) ==
    /\ caller[c].pc = "queue" /\ SlotFree
    /\ flight' = flight \cup {c} /\ Goes(c, "reread")
    /\ UNCHANGED <<row, cache, google, calls, trouble>>

Wait(c) ==
    /\ caller[c].pc = "queue" /\ ~SlotFree /\ Goes(c, "wait")
    /\ UNCHANGED <<row, cache, flight, google, calls, trouble>>

(* The waiter's context ends; the refresh goes on without it. *)
GiveUp(c) ==
    /\ caller[c].pc = "wait" /\ Fails(c)
    /\ UNCHANGED <<row, cache, flight, google, calls>>

(* doRefresh reads the row again, and adopts a token another call stored      *)
(* unless its caller forces a new one.                                        *)
Reread(c) ==
    /\ caller[c].pc = "reread"
    /\ \/ row.status = "deleted" /\ Goes(c, "publish") /\ UNCHANGED trouble
       \/ /\ row.status # "deleted" /\ caller[c].mode # "force" /\ Usable(row.token)
          /\ caller' = [caller EXCEPT ![c].pc = "publish", ![c].token = row.token]
          /\ UNCHANGED trouble
       \/ /\ row.status # "deleted" /\ (caller[c].mode = "force" \/ ~Usable(row.token))
          /\ caller' = [caller EXCEPT ![c].pc = "asking", ![c].grant = row.grant]
          /\ UNCHANGED trouble
       \/ MayTrouble /\ Goes(c, "publish")
    /\ UNCHANGED <<row, cache, flight, google, calls>>

(* Google issues a token of the grant, or the request fails. *)
Issue(c) ==
    /\ caller[c].pc = "asking" /\ caller[c].grant \notin dropped
    /\ issued' = Append(issued, caller[c].grant)
    /\ caller' = [caller EXCEPT ![c].pc = "persist", ![c].token = Len(issued')]
    /\ UNCHANGED <<row, cache, flight, dropped, grants, lapsed, calls, trouble>>

RequestFails(c) ==
    /\ caller[c].pc = "asking" /\ MayTrouble /\ Goes(c, "publish")
    /\ UNCHANGED <<row, cache, flight, google, calls>>

(* Google rejects the grant: the cache is dropped, then the row is flagged. *)
Reject(c) ==
    /\ caller[c].pc = "asking" /\ caller[c].grant \in dropped
    /\ cache' = Forgotten /\ Goes(c, "flag")
    /\ UNCHANGED <<row, flight, google, calls, trouble>>

(* MarkGoogleConnectionReauthRequired, best effort. *)
Flag(c) ==
    /\ caller[c].pc = "flag" /\ Goes(c, "publish")
    /\ \/ /\ row' = IF row.status = "deleted" THEN row
                    ELSE [row EXCEPT !.status = "reauth", !.token = 0]
          /\ UNCHANGED trouble
       \/ MayTrouble /\ UNCHANGED row
    /\ UNCHANGED <<cache, flight, google, calls>>

(* UpdateGoogleAccessToken; a refresh token Google rotated replaces the       *)
(* stored one, whichever consent that came from.                              *)
Persist(c) ==
    /\ caller[c].pc = "persist"
    /\ \/ /\ row.status # "deleted" /\ Goes(c, "publish")
          /\ \E grant \in {row.grant, caller[c].grant} :
                 row' = [status |-> "ok", grant |-> grant, token |-> caller[c].token]
          /\ UNCHANGED trouble
       \/ /\ caller' = [caller EXCEPT ![c].pc = "publish", ![c].token = 0]
          /\ UNCHANGED row
          /\ \/ row.status = "deleted" /\ UNCHANGED trouble
             \/ MayTrouble
    /\ UNCHANGED <<cache, flight, google, calls>>

(* What becomes of a caller that is handed the result of a refresh: AccessToken *)
(* and ForceRefresh put a token in the cache, an error ends the call.           *)
Handed(d, token) ==
    IF token # 0 /\ d.mode # "test" THEN [d EXCEPT !.pc = "keep", !.token = token]
    ELSE AtEase

(* Mutated: a waiter that forces a refresh takes the result of another. *)
WokenMutant(d, token) == Handed(d, token)

(* A waiter takes the result, unless it has to have one of its own. *)
Woken(d, token) == IF d.mode = "force" THEN [d EXCEPT !.pc = "queue"] ELSE Handed(d, token)

(* Mutated: the waiters are not woken. *)
PublishMutant(c) ==
    /\ caller[c].pc = "publish" /\ flight' = flight \ {c}
    /\ caller' = [caller EXCEPT ![c] = Handed(caller[c], caller[c].token)]
    /\ UNCHANGED <<row, cache, google, calls, trouble>>

(* The slot is cleared and the result published in one critical section. *)
Publish(c) ==
    /\ caller[c].pc = "publish" /\ flight' = flight \ {c}
    /\ caller' = [d \in Callers |->
           CASE d = c -> Handed(caller[c], caller[c].token)
             [] caller[d].pc = "wait" -> Woken(caller[d], caller[c].token)
             [] OTHER -> caller[d]]
    /\ UNCHANGED <<row, cache, google, calls, trouble>>

(* cacheToken: AccessToken and ForceRefresh keep what they return. *)
Keep(c) ==
    /\ caller[c].pc = "keep" /\ cache' = caller[c].token /\ Returns(c)
    /\ UNCHANGED <<row, flight, google, calls, trouble>>

-----------------------------------------------------------------------------
(* CompleteConnect: the code is exchanged for a new grant and its token, the  *)
(* row is overwritten, and what memory holds is forgotten.                    *)
Exchange(c) ==
    /\ caller[c].pc = "idle" /\ calls < MaxCalls /\ calls' = calls + 1
    /\ grants' = grants + 1 /\ issued' = Append(issued, grants')
    /\ caller' = [caller EXCEPT ![c] = [AtEase EXCEPT !.pc = "upsert", !.mode = "connect",
                                        !.grant = grants', !.token = Len(issued')]]
    /\ UNCHANGED <<row, cache, flight, dropped, lapsed, trouble>>

Upsert(c) ==
    /\ caller[c].pc = "upsert"
    /\ \/ /\ row.status # "deleted" /\ Goes(c, "forget") /\ UNCHANGED trouble
          /\ row' = [status |-> "ok", grant |-> caller[c].grant, token |-> caller[c].token]
       \/ row.status = "deleted" /\ Returns(c) /\ UNCHANGED <<row, trouble>>
       \/ Fails(c) /\ UNCHANGED row
    /\ UNCHANGED <<cache, flight, google, calls>>

(* Disconnect: revoke the grant at Google, if it answers, delete, forget. *)
Disconnect(c) ==
    /\ row.status # "deleted" /\ caller[c].pc = "idle" /\ calls < MaxCalls
    /\ calls' = calls + 1
    /\ caller' = [caller EXCEPT ![c] = [AtEase EXCEPT !.pc = "revoke", !.mode = "disconnect",
                                        !.grant = row.grant]]
    /\ UNCHANGED <<row, cache, flight, google, trouble>>

Revoke(c) ==
    /\ caller[c].pc = "revoke" /\ Goes(c, "delete")
    /\ \/ dropped' = dropped \cup {caller[c].grant} /\ UNCHANGED trouble
       \/ MayTrouble /\ UNCHANGED dropped
    /\ UNCHANGED <<row, cache, flight, issued, grants, lapsed, calls>>

Delete(c) ==
    /\ caller[c].pc = "delete"
    /\ \/ /\ row.status # "deleted" /\ Goes(c, "forget") /\ UNCHANGED trouble
          /\ row' = [row EXCEPT !.status = "deleted"]
       \/ row.status = "deleted" /\ Returns(c) /\ UNCHANGED <<row, trouble>>
       \/ Fails(c) /\ UNCHANGED row
    /\ UNCHANGED <<cache, flight, google, calls>>

Forget(c) ==
    /\ caller[c].pc = "forget" /\ cache' = Forgotten /\ Returns(c)
    /\ UNCHANGED <<row, flight, google, calls, trouble>>

-----------------------------------------------------------------------------
(* The clock and Google. *)
Lapse ==
    /\ \E token \in DOMAIN issued \ lapsed : lapsed' = lapsed \cup {token}
    /\ MayTrouble
    /\ UNCHANGED <<row, cache, flight, caller, issued, dropped, grants, calls>>

DropGrant ==
    /\ \E grant \in 1 .. grants \ dropped : dropped' = dropped \cup {grant}
    /\ MayTrouble
    /\ UNCHANGED <<row, cache, flight, caller, issued, grants, lapsed, calls>>

Serves(c) ==
    \/ Read(c) \/ Claim(c) \/ Wait(c) \/ Reread(c) \/ Issue(c) \/ Reject(c) \/ Flag(c)
    \/ Persist(c) \/ Publish(c) \/ Keep(c) \/ Upsert(c) \/ Revoke(c) \/ Delete(c) \/ Forget(c)

TokensNext ==
    \/ \E c \in Callers :
           \/ Get(c) \/ Test(c) \/ ForceRefresh(c) \/ Exchange(c) \/ Disconnect(c)
           \/ Serves(c) \/ GiveUp(c) \/ RequestFails(c)
    \/ Lapse \/ DropGrant

TokensFairness == \A c \in Callers : WF_tokensVars(Serves(c))
TokensSpec == TokensInit /\ [][TokensNext]_tokensVars /\ TokensFairness

-----------------------------------------------------------------------------
(* Sync workers of one account that find its token expired do not race for    *)
(* which of their refreshes is stored last: one of them is inside doRefresh   *)
(* at a time, although the slot is taken, waited for and cleared by others.   *)
OneRefresh == Cardinality({c \in Callers : caller[c].pc \in Inside}) <= 1

(* Who asks for a refresh because a server rejected the token is never given  *)
(* one that was issued before it asked: not the result of the refresh it had  *)
(* to wait for, and not one that another caller stored meanwhile.             *)
ForcedIsFresh ==
    \A c \in Callers : caller[c].pc = "keep" /\ caller[c].mode = "force" =>
        caller[c].token > caller[c].since

(* Every call returns, whoever it has to wait for. *)
CallsReturn == \A c \in Callers : caller[c].pc # "idle" ~> caller[c].pc = "idle"

(* "A connection flagged for reauthorization serves nothing" (manager.go:450): *)
(* once all calls have returned, memory holds no valid token for it.          *)
FlaggedServesNothing ==
    row.status = "reauth" /\ (\A c \in Callers : caller[c].pc = "idle") => ~Usable(cache)
=============================================================================
