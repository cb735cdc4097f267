------------------------------- MODULE MC_Udp -------------------------------
(* Udp with two NetIDs, an empty and a one-letter string, a success and an *)
(* ADS error status ("target port not found", 0x702).                      *)
EXTENDS Udp

MCNetIds == {<<5, 1, 2, 3, 1, 1>>, <<10, 0, 0, 7, 1, 1>>}
MCStrs == {<<>>, <<104>>}
MCStatusCodes == {0, 1794}

=============================================================================
