---------------------------- MODULE MCIpcClient ----------------------------
(***************************************************************************)
(* A small instance of IpcClient: one request on the wire and two more that *)
(* differ in priority, size and scope, with three bytes of queue.           *)
(***************************************************************************)
EXTENDS IpcClient, TLC

CONSTANTS r1, r2, r3

MCRequests == {r1, r2, r3}
MCPriorityOf == r1 :> 2 @@ r2 :> 0 @@ r3 :> 2
MCFrameBytes == r1 :> 3 @@ r2 :> 1 @@ r3 :> 1
MCScoped == {r1, r2}
=============================================================================
