---------------------------- MODULE MCServerQueue ----------------------------
(* A small instance of ServerQueue: request a has three prompts, the prompt of *)
(* request b asks for slot 1.  The Claim constants are three requests with    *)
(* one prompt each.                                                           *)
EXTENDS ServerQueue, TLC

MCTasksOf == ("a" :> {1, 2, 3}) @@ ("b" :> {4})
MCPinnedTo == [t \in 1 .. 3 |-> AnySlot] @@ (4 :> 1)

ClaimTasksOf == ("a" :> {1}) @@ ("b" :> {2}) @@ ("c" :> {3})
ClaimPinnedTo == [t \in 1 .. 3 |-> AnySlot]

=============================================================================
