------------------------- MODULE GoogleTokens_proofs -------------------------
(****************************************************************************)
(* Proofs about GoogleTokens, for any number of callers, calls and troubles: *)
(* one refresh at a time, and a forced one is never answered with a token    *)
(* from before it was asked for.                                             *)
(****************************************************************************)
EXTENDS GoogleTokens, SequenceTheorems, FiniteSetTheorems, TLAPS

-----------------------------------------------------------------------------
(* What a caller holds, n tokens and g grants having been issued. *)

Places == Inside \cup {"idle", "read", "queue", "wait", "keep",
                       "upsert", "revoke", "delete", "forget"}

(* Who asks Google, or writes a row, has a grant. *)
HasGrant(d) == d.pc \in {"asking", "persist", "upsert", "revoke"} => d.grant > 0

(* A forced refresh holds no token until Google has issued one for it. *)
Unanswered == {"read", "queue", "wait", "reread", "asking", "flag"}
Answered   == {"persist", "publish", "keep"}

FreshAt(d, p, t) == d.mode = "force" => /\ p \in Unanswered => t = 0
                                        /\ p \in Answered => t = 0 \/ t > d.since
Fresh(d) == FreshAt(d, d.pc, d.token)

Sane(d, n, g) ==
    /\ d \in CallType /\ d.token <= n /\ d.grant <= g /\ d.since <= n
    /\ d.pc = "keep" => d.token > 0
    /\ HasGrant(d) /\ Fresh(d)

LEMMA CallFields ==
    ASSUME NEW d \in CallType
    PROVE  d.pc \in Places /\ d.mode \in Modes /\ d.token \in Nat /\ d.grant \in Nat /\ d.since \in Nat
BY DEF CallType, Places

LEMMA SaneLater ==
    ASSUME NEW n \in Nat, NEW g \in Nat, NEW m \in Nat, NEW h \in Nat, n <= m, g <= h,
           NEW d, Sane(d, n, g)
    PROVE  Sane(d, m, h)
<1>1. d.token \in Nat /\ d.grant \in Nat /\ d.since \in Nat
  BY CallFields DEF Sane
<1> QED  BY <1>1 DEF Sane

LEMMA SaneAtEase ==
    ASSUME NEW n \in Nat, NEW g \in Nat
    PROVE  Sane(AtEase, n, g) /\ AtEase.pc = "idle"
BY DEF Sane, AtEase, CallType, Modes, Inside, HasGrant, Fresh, FreshAt

(* A caller goes on to p with token t and grant r. *)
Onward(d, p, t, r) == [d EXCEPT !.pc = p, !.token = t, !.grant = r]

LEMMA OnwardFields ==
    ASSUME NEW d \in CallType, NEW p \in Places, NEW t \in Nat, NEW r \in Nat
    PROVE  /\ Onward(d, p, t, r) \in CallType /\ Onward(d, p, t, r).pc = p
           /\ Onward(d, p, t, r).mode = d.mode /\ Onward(d, p, t, r).since = d.since
           /\ Onward(d, p, t, r).token = t /\ Onward(d, p, t, r).grant = r
BY DEF Onward, CallType, Places

LEMMA OnwardSame ==
    ASSUME NEW d \in CallType, NEW p \in Places
    PROVE  /\ [d EXCEPT !.pc = p] = Onward(d, p, d.token, d.grant)
           /\ \A t \in Nat : [d EXCEPT !.pc = p, !.token = t] = Onward(d, p, t, d.grant)
           /\ \A r \in Nat : [d EXCEPT !.pc = p, !.grant = r] = Onward(d, p, d.token, r)
BY DEF Onward, CallType

LEMMA OnwardSane ==
    ASSUME NEW n \in Nat, NEW g \in Nat, NEW d \in CallType, d.since <= n,
           NEW p \in Places, NEW t \in Nat, NEW r \in Nat, t <= n, r <= g,
           p = "keep" => t > 0,
           p \in {"asking", "persist", "upsert", "revoke"} => r > 0,
           FreshAt(d, p, t)
    PROVE  Sane(Onward(d, p, t, r), n, g)
<1> DEFINE q == Onward(d, p, t, r)
<1>1. /\ q \in CallType /\ q.pc = p /\ q.mode = d.mode /\ q.since = d.since
      /\ q.token = t /\ q.grant = r
  BY OnwardFields
<1> HIDE DEF q
<1>2. Sane(q, n, g)
  BY <1>1 DEF Sane, HasGrant, Fresh, FreshAt, Unanswered, Answered
<1> QED  BY <1>2 DEF q

-----------------------------------------------------------------------------
(* The inductive invariant. *)

Rest ==
    /\ row \in [status : {"ok", "reauth", "deleted"}, grant : Nat, token : Nat]
    /\ row.grant \in 1 .. grants /\ row.token <= Len(issued)
    /\ cache \in 0 .. Len(issued)
    /\ issued \in Seq(1 .. grants) /\ grants \in Nat
    /\ dropped \subseteq 1 .. grants /\ lapsed \subseteq DOMAIN issued
    /\ calls \in 0 .. MaxCalls /\ trouble \in 0 .. MaxTrouble

CallersSane == /\ caller \in [Callers -> CallType]
               /\ \A c \in Callers : Sane(caller[c], Len(issued), grants)

(* The slot belongs to the one caller that is inside doRefresh; who waits,   *)
(* waits for it.                                                             *)
OneFlight ==
    /\ flight = {c \in Callers : caller[c].pc \in Inside}
    /\ \A c, d \in flight : c = d
    /\ (\E c \in Callers : caller[c].pc = "wait") => flight # {}

TokensInv == Rest /\ CallersSane /\ OneFlight

LEMMA Counts ==
    ASSUME Rest
    PROVE  Len(issued) \in Nat /\ grants \in Nat /\ DOMAIN issued = 1 .. Len(issued)
BY LenProperties DEF Rest

LEMMA InvTypes == TokensInv => TokensTypeOK
<1> SUFFICES ASSUME TokensInv PROVE TokensTypeOK
  OBVIOUS
<1>1. \A c \in Callers : caller[c].token <= Len(issued) /\ caller[c].grant <= grants
  BY DEF TokensInv, CallersSane, Sane
<1> QED  BY <1>1 DEF TokensInv, Rest, CallersSane, OneFlight, TokensTypeOK

(* What Google and the clock add: nothing is taken back. *)
Adds == Rest' /\ Len(issued) <= Len(issued') /\ grants <= grants'

LEMMA CountsGrow ==
    ASSUME TokensInv, Adds
    PROVE  Len(issued) \in Nat /\ grants \in Nat /\ Len(issued') \in Nat /\ grants' \in Nat
<1>1. issued \in Seq(1 .. grants) /\ grants \in Nat
  BY DEF TokensInv, Rest
<1>2. issued' \in Seq(1 .. grants') /\ grants' \in Nat
  BY DEF Adds, Rest
<1> QED  BY <1>1, <1>2, LenProperties

(* One caller moves, and neither enters doRefresh nor leaves it. *)
LEMMA Moves ==
    ASSUME TokensInv, Adds, NEW c \in Callers, NEW q, caller' = [caller EXCEPT ![c] = q],
           Sane(q, Len(issued'), grants'), flight' = flight,
           q.pc \in Inside <=> caller[c].pc \in Inside,
           q.pc = "wait" => flight # {}
    PROVE  TokensInv'
<1>1. caller \in [Callers -> CallType] /\ q \in CallType
  BY DEF TokensInv, CallersSane, Sane
<1>2. caller' \in [Callers -> CallType] /\ caller'[c] = q
      /\ \A d \in Callers : d # c => caller'[d] = caller[d]
  BY <1>1
<1>3. ASSUME NEW d \in Callers PROVE Sane(caller'[d], Len(issued'), grants')
  <2>1. CASE d = c
    BY <1>2, <2>1
  <2>2. CASE d # c
    <3>1. Sane(caller[d], Len(issued), grants)
      BY DEF TokensInv, CallersSane
    <3>2. Len(issued) \in Nat /\ grants \in Nat /\ Len(issued') \in Nat /\ grants' \in Nat
      BY CountsGrow
    <3> QED  BY <1>2, <2>2, <3>1, <3>2, SaneLater DEF Adds
  <2> QED  BY <2>1, <2>2
<1>4. \A d \in Callers : caller'[d].pc \in Inside <=> caller[d].pc \in Inside
  BY <1>2
<1>5. OneFlight'
  BY <1>2, <1>4 DEF TokensInv, OneFlight
<1> QED  BY <1>2, <1>3, <1>5 DEF TokensInv, CallersSane, Adds

(* Nobody moves. *)
LEMMA Stays ==
    ASSUME TokensInv, Adds, UNCHANGED <<caller, flight>>
    PROVE  TokensInv'
<1>1. Len(issued) \in Nat /\ grants \in Nat /\ Len(issued') \in Nat /\ grants' \in Nat
  BY CountsGrow
<1>2. \A c \in Callers : Sane(caller[c], Len(issued'), grants')
  BY <1>1, SaneLater DEF TokensInv, CallersSane, Adds
<1> QED  BY <1>2 DEF TokensInv, CallersSane, OneFlight, Adds

(* The row, the cache and the counters change; what Google issued does not. *)
RowOK(r) == /\ r \in [status : {"ok", "reauth", "deleted"}, grant : Nat, token : Nat]
            /\ r.grant \in 1 .. grants /\ r.token <= Len(issued)

LEMMA StoreAdds ==
    ASSUME TokensInv, UNCHANGED google, RowOK(row'), cache' \in 0 .. Len(issued),
           calls' \in 0 .. MaxCalls, trouble' \in 0 .. MaxTrouble
    PROVE  Adds
<1>1. Rest /\ Len(issued) \in Nat /\ grants \in Nat
  BY Counts DEF TokensInv
<1>2. issued' = issued /\ dropped' = dropped /\ grants' = grants /\ lapsed' = lapsed
  BY DEF google
<1> QED  BY <1>1, <1>2 DEF Adds, Rest, RowOK

LEMMA TokenFacts ==
    ASSUME TokensInv
    PROVE  /\ RowOK(row) /\ cache \in 0 .. Len(issued) /\ Forgotten \in 0 .. Len(issued)
           /\ calls \in 0 .. MaxCalls /\ trouble \in 0 .. MaxTrouble
           /\ MayTrouble => trouble' \in 0 .. MaxTrouble
           /\ calls < MaxCalls /\ calls' = calls + 1 => calls' \in 0 .. MaxCalls
           /\ row.grant \in Nat /\ row.grant > 0 /\ row.token \in Nat
           /\ row.grant <= grants /\ row.token <= Len(issued)
           /\ Len(issued) \in Nat /\ grants \in Nat
<1>1. Rest /\ Len(issued) \in Nat /\ grants \in Nat
  BY Counts DEF TokensInv
<1>2. MaxCalls \in Nat /\ MaxTrouble \in Nat
  BY TokensAssumption
<1> QED  BY <1>1, <1>2 DEF Rest, RowOK, Forgotten, MayTrouble

LEMMA Caller ==
    ASSUME TokensInv, NEW c \in Callers
    PROVE  /\ caller[c] \in CallType /\ Sane(caller[c], Len(issued), grants)
           /\ caller[c].token \in Nat /\ caller[c].grant \in Nat /\ caller[c].since \in Nat
           /\ caller[c].token <= Len(issued) /\ caller[c].grant <= grants /\ caller[c].since <= Len(issued)
           /\ HasGrant(caller[c]) /\ Fresh(caller[c])
BY CallFields DEF TokensInv, CallersSane, Sane

(* The caller goes on to p with token t and grant r, *)
LEMMA GoesOn ==
    ASSUME TokensInv, Adds, NEW c \in Callers, NEW p \in Places, NEW t \in Nat, NEW r \in Nat,
           caller' = [caller EXCEPT ![c] = Onward(caller[c], p, t, r)], flight' = flight,
           t <= Len(issued'), r <= grants',
           p \in Inside <=> caller[c].pc \in Inside,
           p = "wait" => flight # {},
           p = "keep" => t > 0,
           p \in {"asking", "persist", "upsert", "revoke"} => r > 0,
           FreshAt(caller[c], p, t)
    PROVE  TokensInv'
<1>1. Len(issued') \in Nat /\ grants' \in Nat /\ Len(issued) \in Nat
  BY CountsGrow
<1>2. caller[c] \in CallType /\ caller[c].since <= Len(issued')
  BY <1>1, Caller DEF Adds
<1> DEFINE q == Onward(caller[c], p, t, r)
<1>3. q.pc = p
  BY <1>2, OnwardFields
<1>4. Sane(q, Len(issued'), grants')
  BY <1>1, <1>2, OnwardSane
<1>5. caller' = [caller EXCEPT ![c] = q]
  OBVIOUS
<1> HIDE DEF q
<1> QED  BY <1>3, <1>4, <1>5, Moves

(* with what it has, *)
LEMMA GoesTo ==
    ASSUME TokensInv, Adds, NEW c \in Callers, NEW p \in Places, Goes(c, p), flight' = flight,
           p \in Inside <=> caller[c].pc \in Inside,
           p = "wait" => flight # {},
           p = "keep" => caller[c].token > 0,
           p \in {"asking", "persist", "upsert", "revoke"} => caller[c].grant > 0,
           FreshAt(caller[c], p, caller[c].token)
    PROVE  TokensInv'
<1>1. /\ caller[c] \in CallType /\ caller[c].token \in Nat /\ caller[c].grant \in Nat
      /\ caller[c].token <= Len(issued) /\ caller[c].grant <= grants
  BY Caller
<1> Len(issued) \in Nat /\ grants \in Nat /\ Len(issued') \in Nat /\ grants' \in Nat
  BY CountsGrow
<1>2. caller[c].token <= Len(issued') /\ caller[c].grant <= grants'
  BY <1>1 DEF Adds
<1>3. caller' = [caller EXCEPT ![c] = [caller[c] EXCEPT !.pc = p]]
  BY DEF Goes
<1>4. caller' = [caller EXCEPT ![c] = Onward(caller[c], p, caller[c].token, caller[c].grant)]
  BY <1>1, <1>3, OnwardSame
<1> QED  BY <1>1, <1>2, <1>4, GoesOn

(* or returns. *)
LEMMA ReturnsSafely ==
    ASSUME TokensInv, Adds, NEW c \in Callers, Returns(c), flight' = flight, caller[c].pc \notin Inside
    PROVE  TokensInv'
<1>1. Len(issued') \in Nat /\ grants' \in Nat
  BY Counts DEF Adds, Rest
<1>2. Sane(AtEase, Len(issued'), grants') /\ AtEase.pc = "idle"
  BY <1>1, SaneAtEase
<1>3. caller' = [caller EXCEPT ![c] = AtEase]
  BY DEF Returns
<1>4. "idle" \notin Inside /\ "idle" # "wait"
  BY DEF Inside
<1> QED  BY <1>2, <1>3, <1>4, Moves

-----------------------------------------------------------------------------
(* A call begins, *)
LEMMA Begins ==
    ASSUME TokensInv, NEW c \in Callers, NEW mode \in Modes, NEW pc \in {"read", "queue"},
           Called(c, mode, pc), flight' = flight, UNCHANGED google, RowOK(row'),
           cache' \in 0 .. Len(issued), trouble' = trouble
    PROVE  TokensInv'
<1>1. Adds
  BY StoreAdds, TokenFacts DEF Called
<1> DEFINE q == [AtEase EXCEPT !.pc = pc, !.mode = mode, !.since = Len(issued)]
<1>2. Len(issued) \in Nat /\ grants \in Nat /\ issued' = issued /\ grants' = grants
  BY TokenFacts DEF google
<1>3. /\ q.pc = pc /\ q.mode = mode /\ q.since = Len(issued) /\ q.token = 0 /\ q.grant = 0
      /\ q \in CallType
  BY <1>2 DEF AtEase, CallType, Modes, Inside
<1>4. caller' = [caller EXCEPT ![c] = q] /\ caller[c].pc = "idle"
  BY DEF Called
<1> HIDE DEF q
<1>5. Sane(q, Len(issued'), grants')
  BY <1>2, <1>3 DEF Sane, HasGrant, Fresh, FreshAt, Unanswered, Answered
<1>6. pc \notin Inside /\ "idle" \notin Inside /\ pc # "wait"
  BY DEF Inside
<1> QED  BY <1>1, <1>3, <1>4, <1>5, <1>6, Moves

LEMMA BeginStep ==
    ASSUME TokensInv, NEW c \in Callers, Get(c) \/ Test(c) \/ ForceRefresh(c)
    PROVE  TokensInv'
<1>1. RowOK(row) /\ cache \in 0 .. Len(issued) /\ Forgotten \in 0 .. Len(issued)
  BY TokenFacts
<1>2. CASE Get(c)
  BY <1>1, <1>2, Begins DEF Get, Modes, google, RowOK
<1>3. CASE Test(c)
  BY <1>1, <1>3, Begins DEF Test, Modes, google, RowOK
<1>4. CASE ForceRefresh(c)
  BY <1>1, <1>4, Begins DEF ForceRefresh, Modes, google, RowOK
<1> QED  BY <1>2, <1>3, <1>4

(* A critical section of a call that leaves the grants alone. *)
LEMMA Store ==
    ASSUME TokensInv, UNCHANGED <<google, calls>>, RowOK(row'), cache' \in 0 .. Len(issued),
           trouble' = trouble \/ MayTrouble
    PROVE  Adds
<1>1. calls' \in 0 .. MaxCalls /\ trouble' \in 0 .. MaxTrouble
  BY TokenFacts
<1> QED  BY <1>1, StoreAdds

LEMMA SameRow == ASSUME TokensInv, row' = row PROVE RowOK(row')
BY TokenFacts DEF RowOK

LEMMA SameCache == ASSUME TokensInv, cache' = cache PROVE cache' \in 0 .. Len(issued)
BY TokenFacts

LEMMA AssignedToken ==
    ASSUME TokensInv, NEW c \in Callers, NEW p \in Places, NEW t \in Nat,
           caller' = [caller EXCEPT ![c].pc = p, ![c].token = t]
    PROVE  caller' = [caller EXCEPT ![c] = Onward(caller[c], p, t, caller[c].grant)]
<1>1. caller \in [Callers -> CallType] /\ caller[c] \in CallType
  BY Caller DEF TokensInv, CallersSane
<1>2. caller' = [caller EXCEPT ![c] = [caller[c] EXCEPT !.pc = p, !.token = t]]
  BY <1>1 DEF CallType
<1>3. [caller[c] EXCEPT !.pc = p, !.token = t] = Onward(caller[c], p, t, caller[c].grant)
  BY <1>1, OnwardSame
<1> QED  BY ONLY <1>2, <1>3

LEMMA AssignedGrant ==
    ASSUME TokensInv, NEW c \in Callers, NEW p \in Places, NEW r \in Nat,
           caller' = [caller EXCEPT ![c].pc = p, ![c].grant = r]
    PROVE  caller' = [caller EXCEPT ![c] = Onward(caller[c], p, caller[c].token, r)]
<1>1. caller \in [Callers -> CallType] /\ caller[c] \in CallType
  BY Caller DEF TokensInv, CallersSane
<1>2. caller' = [caller EXCEPT ![c] = [caller[c] EXCEPT !.pc = p, !.grant = r]]
  BY <1>1 DEF CallType
<1>3. [caller[c] EXCEPT !.pc = p, !.grant = r] = Onward(caller[c], p, caller[c].token, r)
  BY <1>1 DEF Onward, CallType
<1> QED  BY ONLY <1>2, <1>3

LEMMA ReadStep ==
    ASSUME TokensInv, NEW c \in Callers, Read(c)
    PROVE  TokensInv'
<1>1. /\ caller[c].pc = "read" /\ flight' = flight
      /\ "read" \notin Inside /\ "keep" \notin Inside /\ "queue" \notin Inside
      /\ "keep" \in Places /\ "queue" \in Places /\ "read" \in Unanswered
  BY DEF Read, Inside, Places, Unanswered
<1>2. Adds
  BY Store, SameRow, SameCache DEF Read, Fails
<1>3. CASE Returns(c) \/ Fails(c)
  BY <1>1, <1>2, <1>3, ReturnsSafely DEF Fails
<1>4. CASE Goes(c, "queue")
  <2>1. FreshAt(caller[c], "queue", caller[c].token)
    BY <1>1, Caller DEF Fresh, FreshAt, Answered
  <2> QED  BY <1>1, <1>2, <1>4, <2>1, GoesTo
<1>5. CASE /\ Usable(row.token) /\ caller[c].mode = "get"
           /\ caller' = [caller EXCEPT ![c].pc = "keep", ![c].token = row.token]
  <2>1. row.token \in Nat /\ row.token > 0 /\ row.token <= Len(issued) /\ issued' = issued /\ grants' = grants
    BY <1>5, TokenFacts DEF Usable, Read, google
  <2>2. FreshAt(caller[c], "keep", row.token)
    BY <1>5 DEF FreshAt
  <2>3. caller' = [caller EXCEPT ![c] = Onward(caller[c], "keep", row.token, caller[c].grant)]
    BY <1>1, <1>5, <2>1, AssignedToken
  <2>4. caller[c].grant \in Nat /\ caller[c].grant <= grants
    BY Caller
  <2> QED  BY <1>1, <1>2, <2>1, <2>2, <2>3, <2>4, GoesOn
<1> QED  BY <1>3, <1>4, <1>5 DEF Read

-----------------------------------------------------------------------------
(* A caller takes the slot when nobody has it. *)
LEMMA ClaimStep ==
    ASSUME TokensInv, NEW c \in Callers, Claim(c)
    PROVE  TokensInv'
<1>1. Adds
  BY Store, SameRow, SameCache DEF Claim
<1>2. /\ caller[c].pc = "queue" /\ flight = {} /\ flight' = {c} /\ Goes(c, "reread")
      /\ issued' = issued /\ grants' = grants
      /\ "reread" \in Places /\ "reread" \in Inside /\ "queue" \notin Inside
      /\ "reread" # "wait" /\ "queue" \in Unanswered
  BY DEF Claim, SlotFree, google, Places, Inside, Unanswered
<1>3. /\ caller[c] \in CallType /\ caller[c].token \in Nat /\ caller[c].grant \in Nat
      /\ caller[c].token <= Len(issued) /\ caller[c].grant <= grants
      /\ caller[c].since <= Len(issued) /\ Len(issued) \in Nat /\ grants \in Nat
  BY Caller, TokenFacts
<1>4. FreshAt(caller[c], "reread", caller[c].token)
  BY <1>2, Caller DEF Fresh, FreshAt, Answered
<1> DEFINE q == Onward(caller[c], "reread", caller[c].token, caller[c].grant)
<1>5. q.pc = "reread" /\ Sane(q, Len(issued'), grants') /\ [caller[c] EXCEPT !.pc = "reread"] = q
  <2>1. q.pc = "reread"
    BY <1>3 DEF Onward, CallType
  <2>2. Sane(q, Len(issued'), grants')
    BY <1>2, <1>3, <1>4, OnwardSane
  <2>3. [caller[c] EXCEPT !.pc = "reread"] = q
    BY <1>2, <1>3, OnwardSame
  <2> QED  BY <2>1, <2>2, <2>3
<1> HIDE DEF q
<1>6. caller' = [caller EXCEPT ![c] = q]
  BY <1>2, <1>5 DEF Goes
<1>7. /\ caller' \in [Callers -> CallType] /\ caller'[c] = q
      /\ \A d \in Callers : d # c => caller'[d] = caller[d]
  BY <1>5, <1>6 DEF TokensInv, CallersSane, Sane
<1>8. \A d \in Callers : Sane(caller'[d], Len(issued'), grants')
  BY <1>2, <1>5, <1>7 DEF TokensInv, CallersSane
<1>9. \A d \in Callers : caller'[d].pc \in Inside <=> d = c
  BY <1>2, <1>5, <1>7 DEF TokensInv, OneFlight
<1> QED  BY <1>1, <1>2, <1>7, <1>8, <1>9 DEF TokensInv, CallersSane, OneFlight, Adds

(* The caller in the slot publishes and leaves it; nobody waits any more. *)
LEMMA HandedSane ==
    ASSUME NEW n \in Nat, NEW g \in Nat, NEW d, Sane(d, n, g), NEW t \in Nat, t <= n,
           d.mode = "force" => t = 0 \/ t > d.since
    PROVE  Sane(Handed(d, t), n, g) /\ Handed(d, t).pc \in {"idle", "keep"}
<1>1. CASE t # 0 /\ d.mode # "test"
  <2>1. d \in CallType /\ d.grant \in Nat /\ d.grant <= g /\ d.since <= n /\ "keep" \in Places
    BY CallFields DEF Sane, Places
  <2>2. Handed(d, t) = Onward(d, "keep", t, d.grant)
    BY <1>1, <2>1, OnwardSame DEF Handed
  <2>3. FreshAt(d, "keep", t)
    BY DEF FreshAt, Unanswered
  <2>4. Sane(Onward(d, "keep", t, d.grant), n, g)
    BY <1>1, <2>1, <2>3, OnwardSane
  <2>5. Onward(d, "keep", t, d.grant).pc = "keep"
    BY <2>1 DEF Onward, CallType
  <2> QED  BY <2>2, <2>4, <2>5
<1>2. CASE ~(t # 0 /\ d.mode # "test")
  BY <1>2, SaneAtEase DEF Handed
<1> QED  BY <1>1, <1>2

LEMMA WokenSane ==
    ASSUME NEW n \in Nat, NEW g \in Nat, NEW d, Sane(d, n, g), d.pc = "wait", NEW t \in Nat, t <= n
    PROVE  Sane(Woken(d, t), n, g) /\ Woken(d, t).pc \in {"idle", "keep", "queue"}
<1>1. CASE d.mode # "force"
  BY <1>1, HandedSane DEF Woken
<1>2. CASE d.mode = "force"
  <2>1. /\ d \in CallType /\ d.grant \in Nat /\ d.grant <= g /\ d.since <= n /\ "queue" \in Places
        /\ d.token = 0
    BY <1>2, CallFields DEF Sane, Places, Fresh, FreshAt, Unanswered
  <2>2. Woken(d, t) = Onward(d, "queue", d.token, d.grant)
    BY <1>2, <2>1, OnwardSame DEF Woken
  <2>3. FreshAt(d, "queue", d.token)
    BY <2>1 DEF FreshAt, Answered
  <2>4. d.token \in Nat /\ d.token <= n
    BY CallFields DEF Sane
  <2>5. Sane(Onward(d, "queue", d.token, d.grant), n, g)
    BY <2>1, <2>3, <2>4, OnwardSane
  <2>6. Onward(d, "queue", d.token, d.grant).pc = "queue"
    BY <2>1 DEF Onward, CallType
  <2> QED  BY <2>2, <2>5, <2>6
<1> QED  BY <1>1, <1>2

LEMMA PublishStep ==
    ASSUME TokensInv, NEW c \in Callers, Publish(c)
    PROVE  TokensInv'
<1>1. Adds
  BY Store, SameRow, SameCache DEF Publish
<1>2. /\ caller[c].pc = "publish" /\ flight' = flight \ {c} /\ issued' = issued /\ grants' = grants
      /\ Len(issued) \in Nat /\ grants \in Nat
  BY TokenFacts DEF Publish, google
<1>3. flight' = {} /\ \A d \in Callers : caller[d].pc \in Inside => d = c
  BY <1>2 DEF TokensInv, OneFlight, Inside
<1> DEFINE t == caller[c].token
<1>4. t \in Nat /\ t <= Len(issued) /\ (caller[c].mode = "force" => t = 0 \/ t > caller[c].since)
  BY <1>2, Caller DEF Fresh, FreshAt, Answered
<1> HIDE DEF t
<1>5. caller' = [d \in Callers |->
           CASE d = c -> Handed(caller[c], t)
             [] caller[d].pc = "wait" -> Woken(caller[d], t)
             [] OTHER -> caller[d]]
  BY DEF Publish, t
<1>6. ASSUME NEW d \in Callers
      PROVE  Sane(caller'[d], Len(issued'), grants') /\ caller'[d].pc \notin Inside \cup {"wait"}
  <2>1. Sane(caller[d], Len(issued), grants)
    BY Caller
  <2>2. CASE d = c
    <3>1. caller'[d] = Handed(caller[c], t)
      BY <1>2, <1>5, <2>2
    <3>2. Sane(Handed(caller[d], t), Len(issued), grants) /\ Handed(caller[d], t).pc \in {"idle", "keep"}
      BY <1>2, <1>4, <2>1, <2>2, HandedSane
    <3> QED  BY <1>2, <2>2, <3>1, <3>2 DEF Inside
  <2>3. CASE d # c /\ caller[d].pc = "wait"
    <3>1. caller'[d] = Woken(caller[d], t)
      BY <1>5, <2>3
    <3>2. Sane(Woken(caller[d], t), Len(issued), grants) /\ Woken(caller[d], t).pc \in {"idle", "keep", "queue"}
      BY <1>2, <1>4, <2>1, <2>3, WokenSane
    <3> QED  BY <1>2, <3>1, <3>2 DEF Inside
  <2>4. CASE d # c /\ caller[d].pc # "wait"
    <3>1. caller'[d] = caller[d]
      BY <1>5, <2>4
    <3> QED  BY <1>2, <1>3, <2>1, <2>4, <3>1
  <2> QED  BY <2>2, <2>3, <2>4
<1>7. caller' \in [Callers -> CallType]
  BY <1>5, <1>6 DEF Sane
<1> QED  BY <1>1, <1>3, <1>6, <1>7 DEF TokensInv, CallersSane, OneFlight, Adds

LEMMA WaitStep ==
    ASSUME TokensInv, NEW c \in Callers, Wait(c) \/ GiveUp(c)
    PROVE  TokensInv'
<1>1. Adds /\ flight' = flight
  BY Store, SameRow, SameCache DEF Wait, GiveUp, Fails
<1>2. CASE Wait(c)
  <2>1. /\ caller[c].pc = "queue" /\ Goes(c, "wait") /\ flight # {}
        /\ "wait" \in Places /\ "wait" \notin Inside /\ "queue" \notin Inside /\ "queue" \in Unanswered
    BY <1>2 DEF Wait, SlotFree, Places, Inside, Unanswered
  <2>2. FreshAt(caller[c], "wait", caller[c].token)
    BY <2>1, Caller DEF Fresh, FreshAt, Answered
  <2> QED  BY <1>1, <2>1, <2>2, GoesTo
<1>3. CASE GiveUp(c)
  BY <1>1, <1>3, ReturnsSafely DEF GiveUp, Fails, Inside
<1> QED  BY <1>2, <1>3

-----------------------------------------------------------------------------
(* Inside doRefresh. *)
LEMMA RereadStep ==
    ASSUME TokensInv, NEW c \in Callers, Reread(c)
    PROVE  TokensInv'
<1>1. /\ caller[c].pc = "reread" /\ flight' = flight /\ issued' = issued /\ grants' = grants
      /\ {"reread", "publish", "asking"} \subseteq Inside
      /\ "publish" \in Places /\ "asking" \in Places /\ "reread" \in Unanswered
  BY DEF Reread, Inside, Places, Unanswered, google
<1>2. Adds
  BY Store, SameRow, SameCache DEF Reread
<1>3. /\ caller[c].token \in Nat /\ caller[c].grant \in Nat
      /\ caller[c].token <= Len(issued) /\ caller[c].grant <= grants
      /\ caller[c].mode = "force" => caller[c].token = 0
  BY <1>1, Caller DEF Fresh, FreshAt
<1>4. row.token \in Nat /\ row.token <= Len(issued) /\ row.grant \in Nat /\ row.grant > 0 /\ row.grant <= grants
  BY TokenFacts
<1>5. CASE Goes(c, "publish")
  <2>1. FreshAt(caller[c], "publish", caller[c].token)
    BY <1>3 DEF FreshAt
  <2> QED  BY <1>1, <1>2, <1>5, <2>1, GoesTo
<1>6. CASE /\ caller[c].mode # "force"
           /\ caller' = [caller EXCEPT ![c].pc = "publish", ![c].token = row.token]
  <2>1. FreshAt(caller[c], "publish", row.token)
    BY <1>6 DEF FreshAt
  <2>2. caller' = [caller EXCEPT ![c] = Onward(caller[c], "publish", row.token, caller[c].grant)]
    BY <1>1, <1>4, <1>6, AssignedToken
  <2> QED  BY <1>1, <1>2, <1>3, <1>4, <2>1, <2>2, GoesOn
<1>7. CASE caller' = [caller EXCEPT ![c].pc = "asking", ![c].grant = row.grant]
  <2>1. FreshAt(caller[c], "asking", caller[c].token)
    BY <1>3 DEF FreshAt, Answered
  <2> DEFINE p == "asking"
  <2>3. p \in Places /\ row.grant \in Nat /\ caller' = [caller EXCEPT ![c].pc = p, ![c].grant = row.grant]
    BY <1>1, <1>4, <1>7
  <2> HIDE DEF p
  <2>4. caller' = [caller EXCEPT ![c] = Onward(caller[c], p, caller[c].token, row.grant)]
    BY <2>3, AssignedGrant
  <2>2. caller' = [caller EXCEPT ![c] = Onward(caller[c], "asking", caller[c].token, row.grant)]
    BY <2>4 DEF p
  <2> QED  BY <1>1, <1>2, <1>3, <1>4, <2>1, <2>2, GoesOn
<1> QED  BY <1>5, <1>6, <1>7 DEF Reread

(* Google numbers one more token. *)
LEMMA Issued ==
    ASSUME TokensInv, NEW r \in 1 .. grants', issued' = Append(issued, r), grants' \in Nat, grants <= grants',
           UNCHANGED <<row, cache, dropped, lapsed, trouble>>, calls' \in 0 .. MaxCalls
    PROVE  Adds /\ Len(issued') = Len(issued) + 1
<1>1. Rest /\ Len(issued) \in Nat /\ grants \in Nat /\ DOMAIN issued = 1 .. Len(issued)
  BY Counts DEF TokensInv
<1>2. issued \in Seq(1 .. grants')
  <2>1. issued \in [1 .. Len(issued) -> 1 .. grants]
    BY <1>1, LenProperties DEF Rest
  <2>2. 1 .. grants \subseteq 1 .. grants'
    BY <1>1
  <2>3. issued \in [1 .. Len(issued) -> 1 .. grants']
    BY <2>1, <2>2
  <2> QED  BY <1>1, <2>3, SeqDef
<1>3. issued' \in Seq(1 .. grants') /\ Len(issued') = Len(issued) + 1
  BY <1>2, AppendProperties
<1>4. DOMAIN issued' = 1 .. Len(issued) + 1
  BY <1>3, LenProperties
<1>5. dropped' \subseteq 1 .. grants' /\ lapsed' \subseteq DOMAIN issued'
  BY <1>1, <1>4 DEF Rest
<1>6. row'.grant \in 1 .. grants' /\ row'.token <= Len(issued') /\ cache' \in 0 .. Len(issued')
  BY <1>1, <1>3 DEF Rest
<1> QED  BY <1>1, <1>3, <1>5, <1>6 DEF Adds, Rest

LEMMA IssueStep ==
    ASSUME TokensInv, NEW c \in Callers, Issue(c)
    PROVE  TokensInv'
<1>1. /\ caller[c].pc = "asking" /\ flight' = flight /\ grants' = grants
      /\ {"asking", "persist"} \subseteq Inside /\ "persist" \in Places
      /\ grants \in Nat /\ Len(issued) \in Nat
  BY TokenFacts DEF Issue, Inside, Places
<1>2. caller[c].grant \in 1 .. grants' /\ caller[c].since \in Nat /\ caller[c].since <= Len(issued)
  BY <1>1, Caller DEF HasGrant
<1>3. Adds /\ Len(issued') = Len(issued) + 1
  BY <1>1, <1>2, Issued, TokenFacts DEF Issue
<1>4. FreshAt(caller[c], "persist", Len(issued'))
  BY <1>1, <1>2, <1>3 DEF FreshAt, Unanswered
<1>5. Len(issued') \in Nat
  BY <1>1, <1>3
<1> DEFINE t == Len(issued')
           p == "persist"
<1>6. caller' = [caller EXCEPT ![c] = Onward(caller[c], p, t, caller[c].grant)]
  BY <1>1, <1>5, AssignedToken DEF Issue
<1>7. /\ p \in Places /\ p \in Inside /\ p # "wait" /\ p # "keep"
      /\ t \in Nat /\ t <= Len(issued') /\ FreshAt(caller[c], p, t)
  BY <1>1, <1>4, <1>5
<1>8. caller[c].grant \in Nat /\ caller[c].grant > 0 /\ caller[c].grant <= grants' /\ caller[c].pc \in Inside
  BY <1>1, <1>2
<1> HIDE DEF t, p
<1> QED  BY <1>1, <1>3, <1>6, <1>7, <1>8, GoesOn

(* The request is refused or lost, and the result is an error. *)
LEMMA RefusedStep ==
    ASSUME TokensInv, NEW c \in Callers, RequestFails(c) \/ Reject(c) \/ Flag(c)
    PROVE  TokensInv'
<1>1. /\ caller[c].pc \in {"asking", "flag"} /\ flight' = flight
      /\ Goes(c, "publish") \/ Goes(c, "flag")
      /\ {"asking", "flag", "publish"} \subseteq Inside
      /\ {"flag", "publish"} \subseteq Places /\ {"asking", "flag"} \subseteq Unanswered
  BY DEF RequestFails, Reject, Flag, Inside, Places, Unanswered
<1>2. RowOK(row')
  <2>1. RowOK(row)
    BY TokenFacts
  <2>2. row' = row \/ row' = [row EXCEPT !.status = "reauth", !.token = 0]
    BY DEF RequestFails, Reject, Flag
  <2>3. Len(issued) \in Nat
    BY TokenFacts
  <2>4. CASE row' = row
    BY <2>4, SameRow
  <2>5. CASE row' = [row EXCEPT !.status = "reauth", !.token = 0]
    <3>1. /\ row' \in [status : {"ok", "reauth", "deleted"}, grant : Nat, token : Nat]
          /\ row'.grant = row.grant /\ row'.token = 0
      BY <2>1, <2>5 DEF RowOK
    <3>2. grants' = grants /\ issued' = issued
      BY DEF RequestFails, Reject, Flag, google
    <3> QED  BY <2>1, <2>3, <3>1, <3>2 DEF RowOK
  <2> QED  BY <2>2, <2>4, <2>5
<1>3. cache' \in 0 .. Len(issued)
  BY SameCache, TokenFacts DEF RequestFails, Reject, Flag
<1>4. Adds
  BY <1>2, <1>3, Store DEF RequestFails, Reject, Flag
<1>5. /\ FreshAt(caller[c], "publish", caller[c].token)
      /\ FreshAt(caller[c], "flag", caller[c].token)
  BY <1>1, Caller DEF Fresh, FreshAt, Answered
<1> QED  BY <1>1, <1>4, <1>5, GoesTo

LEMMA PersistStep ==
    ASSUME TokensInv, NEW c \in Callers, Persist(c)
    PROVE  TokensInv'
<1>1. /\ caller[c].pc = "persist" /\ flight' = flight /\ issued' = issued /\ grants' = grants
      /\ {"persist", "publish"} \subseteq Inside /\ "publish" \in Places /\ "persist" \in Answered
  BY DEF Persist, Inside, Places, Answered, google
<1>2. /\ caller[c].token \in Nat /\ caller[c].grant \in Nat /\ caller[c].grant > 0
      /\ caller[c].token <= Len(issued) /\ caller[c].grant <= grants /\ grants \in Nat /\ Len(issued) \in Nat
  BY <1>1, Caller, TokenFacts DEF HasGrant
<1>3. RowOK(row')
  <2>1. CASE row' = row
    BY <2>1, SameRow
  <2>2. ASSUME NEW grant \in {row.grant, caller[c].grant},
               row' = [status |-> "ok", grant |-> grant, token |-> caller[c].token]
        PROVE  RowOK(row')
    BY <1>1, <1>2, <2>2, TokenFacts DEF RowOK
  <2>3. row' = row \/ \E grant \in {row.grant, caller[c].grant} :
                          row' = [status |-> "ok", grant |-> grant, token |-> caller[c].token]
    BY DEF Persist
  <2> QED  BY <2>1, <2>2, <2>3
<1>4. Adds
  BY <1>3, Store, SameCache DEF Persist
<1>5. CASE Goes(c, "publish")
  <2>1. FreshAt(caller[c], "publish", caller[c].token)
    BY <1>1, Caller DEF Fresh, FreshAt, Unanswered
  <2> QED  BY <1>1, <1>4, <1>5, <2>1, GoesTo
<1>6. CASE caller' = [caller EXCEPT ![c].pc = "publish", ![c].token = 0]
  <2>1. FreshAt(caller[c], "publish", 0)
    BY DEF FreshAt
  <2>2. caller' = [caller EXCEPT ![c] = Onward(caller[c], "publish", 0, caller[c].grant)]
    BY <1>1, <1>6, AssignedToken
  <2> DEFINE t == 0
  <2>3. /\ caller' = [caller EXCEPT ![c] = Onward(caller[c], "publish", t, caller[c].grant)]
        /\ FreshAt(caller[c], "publish", t) /\ t \in Nat /\ t <= Len(issued')
    BY <1>1, <1>2, <2>1, <2>2
  <2> HIDE DEF t
  <2> QED  BY <1>1, <1>2, <1>4, <2>3, GoesOn
<1> QED  BY <1>5, <1>6 DEF Persist

-----------------------------------------------------------------------------
(* Around it: what is kept, a consent, a disconnection. *)
LEMMA KeepStep ==
    ASSUME TokensInv, NEW c \in Callers, Keep(c) \/ Forget(c)
    PROVE  TokensInv'
<1>1. caller[c].token \in Nat /\ caller[c].token <= Len(issued) /\ Len(issued) \in Nat
  BY Caller, TokenFacts
<1>2. cache' \in 0 .. Len(issued)
  BY <1>1 DEF Keep, Forget, Forgotten
<1>3. Adds
  BY <1>2, Store, SameRow DEF Keep, Forget
<1>4. caller[c].pc \notin Inside /\ Returns(c) /\ flight' = flight
  BY DEF Keep, Forget, Inside
<1> QED  BY <1>3, <1>4, ReturnsSafely

LEMMA ExchangeStep ==
    ASSUME TokensInv, NEW c \in Callers, Exchange(c)
    PROVE  TokensInv'
<1>1. /\ Len(issued) \in Nat /\ grants \in Nat /\ grants' = grants + 1
      /\ issued' = Append(issued, grants') /\ caller[c].pc = "idle" /\ flight' = flight
      /\ calls' \in 0 .. MaxCalls
  BY TokenFacts DEF Exchange
<1>2. grants' \in Nat /\ grants' \in 1 .. grants' /\ grants <= grants' /\ grants' > 0
  BY <1>1
<1>3. Adds /\ Len(issued') = Len(issued) + 1
  BY <1>1, <1>2, Issued DEF Exchange
<1> DEFINE q == [AtEase EXCEPT !.pc = "upsert", !.mode = "connect", !.grant = grants', !.token = Len(issued')]
<1>4. Len(issued') \in Nat
  BY <1>1, <1>3
<1>5. /\ q.pc = "upsert" /\ q.mode = "connect" /\ q.since = 0 /\ q.token = Len(issued')
      /\ q.grant = grants' /\ q \in CallType
  BY <1>2, <1>4 DEF AtEase, CallType, Modes, Inside
<1>6. caller' = [caller EXCEPT ![c] = q]
  BY DEF Exchange
<1> HIDE DEF q
<1>7. Sane(q, Len(issued'), grants')
  BY <1>2, <1>4, <1>5 DEF Sane, HasGrant, Fresh, FreshAt
<1>8. q.pc \notin Inside /\ caller[c].pc \notin Inside /\ q.pc # "wait"
  BY <1>1, <1>5 DEF Inside
<1> QED  BY <1>1, <1>3, <1>6, <1>7, <1>8, Moves

LEMMA UpsertStep ==
    ASSUME TokensInv, NEW c \in Callers, Upsert(c) \/ Delete(c)
    PROVE  TokensInv'
<1>1. /\ caller[c].pc \in {"upsert", "delete"} /\ flight' = flight /\ grants' = grants /\ issued' = issued
      /\ Goes(c, "forget") \/ Returns(c)
      /\ caller[c].pc \notin Inside /\ "forget" \in Places /\ "forget" \notin Inside
  BY DEF Upsert, Delete, Fails, google, Inside, Places
<1>2. RowOK(row)
  BY TokenFacts
<1>3. RowOK(row')
  <2>1. CASE row' = row
    BY <2>1, SameRow
  <2>2. CASE row' = [row EXCEPT !.status = "deleted"]
    <3>1. /\ row' \in [status : {"ok", "reauth", "deleted"}, grant : Nat, token : Nat]
          /\ row'.grant = row.grant /\ row'.token = row.token
      BY <1>2, <2>2 DEF RowOK
    <3> QED  BY <1>1, <1>2, <3>1 DEF RowOK
  <2>3. CASE /\ caller[c].pc = "upsert"
             /\ row' = [status |-> "ok", grant |-> caller[c].grant, token |-> caller[c].token]
    <3>1. /\ caller[c].token \in Nat /\ caller[c].token <= Len(issued)
          /\ caller[c].grant \in Nat /\ caller[c].grant > 0 /\ caller[c].grant <= grants /\ grants \in Nat
      BY <2>3, Caller, TokenFacts DEF HasGrant
    <3> QED  BY <1>1, <2>3, <3>1 DEF RowOK
  <2> QED  BY <2>1, <2>2, <2>3 DEF Upsert, Delete
<1>4. Adds
  BY <1>3, Store, SameCache DEF Upsert, Delete, Fails
<1>5. FreshAt(caller[c], "forget", caller[c].token)
  BY DEF FreshAt, Unanswered, Answered
<1> QED  BY <1>1, <1>4, <1>5, GoesTo, ReturnsSafely

LEMMA DisconnectStep ==
    ASSUME TokensInv, NEW c \in Callers, Disconnect(c)
    PROVE  TokensInv'
<1>1. /\ issued' = issued /\ grants' = grants /\ caller[c].pc = "idle" /\ flight' = flight
      /\ Len(issued) \in Nat /\ grants \in Nat
      /\ row.grant \in Nat /\ row.grant > 0 /\ row.grant <= grants
  BY TokenFacts DEF Disconnect, google
<1>2. Adds
  BY StoreAdds, TokenFacts, SameRow, SameCache DEF Disconnect
<1> DEFINE q == [AtEase EXCEPT !.pc = "revoke", !.mode = "disconnect", !.grant = row.grant]
<1>3. /\ q.pc = "revoke" /\ q.mode = "disconnect" /\ q.since = 0 /\ q.token = 0
      /\ q.grant = row.grant /\ q \in CallType
  BY <1>1 DEF AtEase, CallType, Modes, Inside
<1>4. caller' = [caller EXCEPT ![c] = q]
  BY DEF Disconnect
<1> HIDE DEF q
<1>5. Sane(q, Len(issued'), grants')
  BY <1>1, <1>3 DEF Sane, HasGrant, Fresh, FreshAt
<1>6. q.pc \notin Inside /\ caller[c].pc \notin Inside /\ q.pc # "wait"
  BY <1>1, <1>3 DEF Inside
<1> QED  BY <1>1, <1>2, <1>4, <1>5, <1>6, Moves

(* Google stops honouring grants it gave; tokens it gave lapse. *)
LEMMA Drops ==
    ASSUME TokensInv, UNCHANGED <<row, cache, issued, grants, calls>>, dropped' \subseteq 1 .. grants,
           lapsed' \subseteq DOMAIN issued, trouble' = trouble \/ MayTrouble
    PROVE  Adds
<1>1. Rest /\ Len(issued) \in Nat /\ grants \in Nat /\ trouble' \in 0 .. MaxTrouble
  BY Counts, TokenFacts DEF TokensInv
<1> QED  BY <1>1 DEF Adds, Rest

LEMMA RevokeStep ==
    ASSUME TokensInv, NEW c \in Callers, Revoke(c)
    PROVE  TokensInv'
<1>1. /\ caller[c].pc = "revoke" /\ flight' = flight /\ Goes(c, "delete")
      /\ "delete" \in Places /\ "delete" \notin Inside /\ "revoke" \notin Inside
  BY DEF Revoke, Inside, Places
<1>2. caller[c].grant \in 1 .. grants
  BY <1>1, Caller, TokenFacts DEF HasGrant
<1>3. dropped' \subseteq 1 .. grants /\ lapsed' \subseteq DOMAIN issued
  BY <1>2 DEF Revoke, TokensInv, Rest
<1>4. Adds
  BY <1>3, Drops DEF Revoke
<1>5. FreshAt(caller[c], "delete", caller[c].token)
  BY DEF FreshAt, Unanswered, Answered
<1> QED  BY <1>1, <1>4, <1>5, GoesTo

LEMMA TimeStep ==
    ASSUME TokensInv, Lapse \/ DropGrant
    PROVE  TokensInv'
<1>1. dropped' \subseteq 1 .. grants /\ lapsed' \subseteq DOMAIN issued
  BY DEF TokensInv, Rest, Lapse, DropGrant
<1>2. Adds
  BY <1>1, Drops DEF Lapse, DropGrant
<1> QED  BY <1>2, Stays DEF Lapse, DropGrant

-----------------------------------------------------------------------------
LEMMA TokensInitInv == TokensInit => TokensInv
<1> SUFFICES ASSUME TokensInit PROVE TokensInv
  OBVIOUS
<1>1. Len(issued) = 1 /\ issued \in Seq(1 .. 1) /\ DOMAIN issued = 1 .. 1
  BY DEF TokensInit
<1>2. Rest
  BY <1>1, TokensAssumption DEF Rest, TokensInit
<1>3. ASSUME NEW c \in Callers
      PROVE  Sane(caller[c], Len(issued), grants) /\ caller[c].pc = "idle"
  <2>1. caller[c] = AtEase /\ grants = 1
    BY DEF TokensInit
  <2>2. Sane(AtEase, Len(issued), grants) /\ AtEase.pc = "idle"
    BY <1>1, <2>1, SaneAtEase
  <2> QED  BY <2>1, <2>2
<1>4. CallersSane
  BY <1>3 DEF CallersSane, TokensInit, Sane
<1>5. OneFlight
  <2>1. "idle" \notin Inside /\ "idle" # "wait"
    BY DEF Inside
  <2>2. flight = {}
    BY DEF TokensInit
  <2> QED  BY <1>3, <2>1, <2>2 DEF OneFlight
<1> QED  BY <1>2, <1>4, <1>5 DEF TokensInv

LEMMA TokensStepInv == TokensInv /\ [TokensNext]_tokensVars => TokensInv'
<1> SUFFICES ASSUME TokensInv, [TokensNext]_tokensVars PROVE TokensInv'
  OBVIOUS
<1>1. ASSUME NEW c \in Callers,
             \/ Get(c) \/ Test(c) \/ ForceRefresh(c) \/ Exchange(c) \/ Disconnect(c)
             \/ Serves(c) \/ GiveUp(c) \/ RequestFails(c)
      PROVE  TokensInv'
  <2>1. CASE Get(c) \/ Test(c) \/ ForceRefresh(c)
    BY <2>1, BeginStep
  <2>2. CASE Exchange(c) \/ Disconnect(c)
    BY <2>2, ExchangeStep, DisconnectStep
  <2>3. CASE GiveUp(c) \/ RequestFails(c)
    BY <2>3, WaitStep, RefusedStep
  <2>4. CASE Serves(c)
    <3>1. CASE Read(c) \/ Claim(c) \/ Wait(c)
      BY <3>1, ReadStep, ClaimStep, WaitStep
    <3>2. CASE Reread(c) \/ Issue(c) \/ Reject(c) \/ Flag(c) \/ Persist(c)
      BY <3>2, RereadStep, IssueStep, RefusedStep, PersistStep
    <3>3. CASE Publish(c) \/ Keep(c) \/ Forget(c)
      BY <3>3, PublishStep, KeepStep
    <3>4. CASE Upsert(c) \/ Revoke(c) \/ Delete(c)
      BY <3>4, UpsertStep, RevokeStep
    <3> QED  BY <2>4, <3>1, <3>2, <3>3, <3>4 DEF Serves
  <2> QED  BY <1>1, <2>1, <2>2, <2>3, <2>4
<1>2. CASE Lapse \/ DropGrant
  BY <1>2, TimeStep
<1>3. CASE UNCHANGED tokensVars
  <2>1. /\ row' = row /\ cache' = cache /\ flight' = flight /\ caller' = caller /\ UNCHANGED google
        /\ calls' = calls /\ trouble' = trouble
    BY <1>3 DEF tokensVars
  <2>2. Adds
    BY <2>1, Store, SameRow, SameCache
  <2> QED  BY <2>1, <2>2, Stays
<1> QED  BY <1>1, <1>2, <1>3 DEF TokensNext

LEMMA TokensInvHolds == TokensSpec => []TokensInv
BY TokensInitInv, TokensStepInv, PTL DEF TokensSpec

-----------------------------------------------------------------------------
(* Type correctness, and the bookkeeping of the slot: Manager.refreshes names *)
(* whoever is inside doRefresh, and nobody waits for a refresh that is over.  *)
THEOREM TokensTyped == TokensSpec => []TokensTypeOK
BY InvTypes, TokensInvHolds, PTL

(* However many sync workers find the token expired at once, and whoever      *)
(* gives up waiting, one of them at most is inside doRefresh.                 *)
THEOREM RefreshesOneAtATime == TokensSpec => []OneRefresh
<1>1. TokensInv => OneRefresh
  <2> SUFFICES ASSUME TokensInv PROVE OneRefresh
    OBVIOUS
  <2>1. flight = {c \in Callers : caller[c].pc \in Inside} /\ \A c, d \in flight : c = d
    BY DEF TokensInv, OneFlight
  <2>2. CASE flight = {}
    BY <2>1, <2>2, FS_EmptySet DEF OneRefresh
  <2>3. CASE flight # {}
    <3>1. PICK c \in flight : flight = {c}
      BY <2>1, <2>3
    <3>2. Cardinality(flight) = 1
      BY ONLY <3>1, FS_Singleton
    <3>3. Cardinality({d \in Callers : caller[d].pc \in Inside}) = 1
      BY ONLY <2>1, <3>2
    <3> QED  BY <3>3 DEF OneRefresh
  <2> QED  BY <2>2, <2>3
<1> QED  BY <1>1, TokensInvHolds, PTL

(* A caller that reports a rejected token gets one issued after its report:   *)
(* neither the result of the refresh it found running nor a token the row     *)
(* already holds can reach it.                                                *)
THEOREM ForcedTokensFresh == TokensSpec => []ForcedIsFresh
<1>1. TokensInv => ForcedIsFresh
  <2> SUFFICES ASSUME TokensInv, NEW c \in Callers, caller[c].pc = "keep", caller[c].mode = "force"
               PROVE  caller[c].token > caller[c].since
    BY DEF ForcedIsFresh
  <2>1. Sane(caller[c], Len(issued), grants)
    BY Caller
  <2> QED  BY <2>1 DEF Sane, Fresh, FreshAt, Answered
<1> QED  BY <1>1, TokensInvHolds, PTL
=============================================================================
