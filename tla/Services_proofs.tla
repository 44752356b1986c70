---------------------------- MODULE Services_proofs ----------------------------
(****************************************************************************)
(* The five services composed: a behaviour of the composition is one of each *)
(* of them, so what is proved of a service alone holds beside the others.    *)
(****************************************************************************)
EXTENDS MCServices, GoogleTokens_proofs, Store_proofs, Reminders_proofs

(* A step of the composition is a step of each service, or none of its own. *)
LEMMA ServicesStep ==
    [ServicesNext]_services =>
        /\ [TokensNext]_tokensVars /\ [BlobsNext]_blobsVars /\ [ServersNext]_serverVars
        /\ [SnoozesNext]_snoozeVars /\ [CalendarNext]_calendarVars
BY DEF ServicesNext, services

(* Every service of a composition runs as it does alone; of the servers this  *)
(* is so but for fairness, for a deployment is only started in its own part.  *)
THEOREM ServicesCompose ==
    ServicesSpec =>
        /\ TokensSpec /\ BlobsSpec /\ SnoozesSpec /\ CalendarSpec
        /\ ServersInit /\ [][ServersNext]_serverVars
<1>1. ServicesInit => TokensInit /\ BlobsInit /\ ServersInit /\ SnoozesInit /\ CalendarInit
  BY DEF ServicesInit
<1> QED
  BY <1>1, ServicesStep, PTL
     DEF ServicesSpec, ServicesFairness, TokensSpec, BlobsSpec, SnoozesSpec, CalendarSpec

(* Every service keeps its types, whichever of them run: what ServicesTypeOK  *)
(* says of the lock, the tokens, the queue and both loops always holds.       *)
THEOREM ServicesTyped == ServicesSpec => []ServicesTypeOK
<1>1. ServicesSpec => []ServersTypeOK
  BY ServicesCompose, ServersInvHolds, ServersInvTypes, PTL
<1> QED
  BY <1>1, ServicesCompose, TokensTyped, BlobsTyped, SnoozesTyped, CalendarTyped, PTL
     DEF ServicesTypeOK

(* Beside the others too, refreshes run one at a time and a forced one is     *)
(* answered with a later token, references are kept, one server at most is    *)
(* guarded, no decided run changes, and neither loop sleeps past a reminder.  *)
THEOREM ServicesSafe ==
    ServicesSpec =>
        /\ []OneRefresh /\ []ForcedIsFresh /\ []ReferencesKept /\ []OneServer
        /\ DecidedForGood /\ SnoozesOnTime /\ RemindedOnTime
<1>1. ServicesSpec => []OneServer
  BY ServicesCompose, ServersInvHolds, ServersInvOne, PTL
<1> QED
  BY <1>1, ServicesCompose, ServersDecide, RefreshesOneAtATime, ForcedTokensFresh,
     ReferencesAlwaysKept, SnoozesRemindedOnTime, RemindersOnTime, PTL
=============================================================================
