------------------------------ MODULE MCServices ------------------------------
(****************************************************************************)
(* Five services of the backend that share no state: each is checked alone,  *)
(* and a behaviour belongs to one of them, its part.  Together they would    *)
(* only multiply the states.                                                 *)
(****************************************************************************)
EXTENDS GoogleTokens, BlobCleanup, SingleServer, Snoozes, CalendarReminders

VARIABLE part

services == <<tokensVars, blobsVars, serverVars, snoozeVars, calendarVars, part>>

(* Every part is of its types, whichever it is.                              *)
ServicesTypeOK ==
    /\ TokensTypeOK /\ BlobsTypeOK /\ ServersTypeOK
    /\ SnoozesTypeOK /\ CalendarTypeOK

ServicesInit ==
    /\ part \in {"tokens", "blobs", "servers", "snoozes", "calendars"}
    /\ TokensInit /\ BlobsInit /\ ServersInit /\ SnoozesInit /\ CalendarInit
    /\ part # "servers" => ~shared

ServicesNext ==
    \/ /\ part = "tokens" /\ TokensNext
       /\ UNCHANGED <<blobsVars, serverVars, snoozeVars, calendarVars, part>>
    \/ /\ part = "blobs" /\ BlobsNext
       /\ UNCHANGED <<tokensVars, serverVars, snoozeVars, calendarVars, part>>
    \/ /\ part = "servers" /\ ServersNext
       /\ UNCHANGED <<tokensVars, blobsVars, snoozeVars, calendarVars, part>>
    \/ /\ part = "snoozes" /\ SnoozesNext
       /\ UNCHANGED <<tokensVars, blobsVars, serverVars, calendarVars, part>>
    \/ /\ part = "calendars" /\ CalendarNext
       /\ UNCHANGED <<tokensVars, blobsVars, serverVars, snoozeVars, part>>

(* That of each service; a deployment is started again in its own part only.  *)
ServicesFairness ==
    /\ TokensFairness /\ BlobsFairness
    /\ \A s \in Servers :
           WF_serverVars(part = "servers" /\ Start(s)) /\ WF_serverVars(Claims(s))
    /\ WF_serverVars(Tick)
    /\ \A r \in Runs : WF_serverVars(Sweep(r))

ServicesSpec == ServicesInit /\ [][ServicesNext]_services /\ ServicesFairness
===============================================================================
