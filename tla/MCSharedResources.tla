-------------------------- MODULE MCSharedResources --------------------------
(* Instances of SharedResources for TLC. *)
EXTENDS SharedResources, TLC

CONSTANTS w1, w2, w3, server, license, upload, sign, publish

(* Two nodes start from either end of the same two resources, a third uses *)
(* one of them.                                                            *)
McUses == (upload :> <<server, license>>) @@ (sign :> <<license, server>>)
            @@ (publish :> <<server>>)
============================================================================
