------------------------------ MODULE MCP3pIdc ------------------------------
(* P3pIdc with the functions 6 and 7 of both adapters: nobody is late, or    *)
(* somebody in one of the ways there are.                                    *)
EXTENDS P3pIdc

MCFcoe == {6, 7}
FaultsInTime == AllFaults \ Late
MCFaultSets == {FaultsInTime} \cup {{kind, "hang", "user", "start_fails"} : kind \in Late}

\* A third function and a late acknowledgement: OneStarter fails with them.
MCThreeFcoe == {5, 6, 7}
MCLateAck == {{"ack_timeout", "hang"}}

==========================================================================
