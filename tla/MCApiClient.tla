------------------------------ MODULE MCApiClient ------------------------------
(* One tab with two gated calls of different actions and one mint.            *)
EXTENDS ApiClient, TLC

CONSTANTS t1, r1, r2, m1, viewPii, exportData

MCTabOf == r1 :> t1 @@ r2 :> t1 @@ m1 :> t1
MCActionOf == r1 :> viewPii @@ r2 :> exportData
================================================================================
