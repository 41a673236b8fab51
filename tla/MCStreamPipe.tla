----------------------------- MODULE MCStreamPipe -----------------------------
(***************************************************************************)
(* Two sessions share a pipeline of two strict stages, encode and decode,  *)
(* that hold one resource group (the same GPU).                            *)
(***************************************************************************)
EXTENDS StreamSchedulerProps, TLC

CONSTANTS s1, s2, image, latent, frames, gpu

MCEdges ==
    {[artifact |-> image, source |-> External, target |-> 1, capacity |-> 1],
     [artifact |-> latent, source |-> 1, target |-> 2, capacity |-> 1]}
MCConsumes == <<{image}, {latent}>>
MCProduces == <<{latent}, {frames}>>
MCOne == <<1, 1>>
MCGroupOf == <<gpu, gpu>>
MCGroupLimit == [g \in {gpu} |-> 1]
MCRank == <<1, 2>>
MCFinals == {Open}
Symmetry == Permutations({s1, s2})
================================================================================
