--------------------------- MODULE MCStreamUnordered ---------------------------
(***************************************************************************)
(* One session, two stages without ordering that work on two sequences at  *)
(* a time and share a resource group; inputs come in any order.            *)
(***************************************************************************)
EXTENDS StreamSchedulerProps, TLC

CONSTANTS s1, image, control, latent, frames, gpu

MCEdges ==
    {[artifact |-> image, source |-> External, target |-> 1, capacity |-> 2],
     [artifact |-> latent, source |-> 1, target |-> 2, capacity |-> 2],
     [artifact |-> control, source |-> External, target |-> 2, capacity |-> 2]}
MCConsumes == <<{image}, {latent, control}>>
MCProduces == <<{latent}, {frames}>>
MCTwo == <<2, 2>>
MCGroupOf == <<gpu, gpu>>
MCGroupLimit == [g \in {gpu} |-> 2]
MCRank == <<1, 2>>
MCFinals == {Open}
================================================================================
