---- MODULE MCDdnsClient ----
(* Two A records with another record between them, two overlapping runs, *)
(* addresses of different lengths.                                       *)
EXTENDS DdnsClient, TLC

CONSTANTS x, y

MCLength == (NoIP :> 0 @@ x :> 7 @@ y :> 9)
MCRecords == <<"www", "mail", "home">>
MCRecordType == <<"A", "MX", "A">>
====
