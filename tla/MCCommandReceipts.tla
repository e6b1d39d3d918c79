------------------------- MODULE MCCommandReceipts -------------------------
(* Small instances of CommandReceipts for TLC.                              *)
EXTENDS CommandReceipts, TLC

CONSTANTS first, retry, third, other, web, cli, send, edited

Calls == {first, retry, third, other}
Hosts == {web, cli}
CallHome == first :> web @@ retry :> web @@ third :> cli @@ other :> cli
CallRequest == first :> send @@ retry :> send @@ third :> send @@ other :> edited
=============================================================================
