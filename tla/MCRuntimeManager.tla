-------------------------- MODULE MCRuntimeManager --------------------------
(***************************************************************************)
(* RuntimeManager on small instances.                                      *)
(***************************************************************************)
EXTENDS RuntimeManagerProps, TLC

\* Noise with a clear winner, a seven that wins by exactly the margin, and one
\* that wins by less, each with the best score at another place.
MCResults ==
    {[sample |-> "noise", scores |-> <<100, 900, 200>>],
     [sample |-> "clean7", scores |-> <<200, 300, 800>>],
     [sample |-> "weak7", scores |-> <<700, 100, 201>>]}

\* The first version of the manifest, with and without optimisation, and a
\* profile that fits it.
MCOffered ==
    {f \in Files : f.trust.version = 1}
=============================================================================
