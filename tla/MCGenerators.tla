----------------------------- MODULE MCGenerators -----------------------------
(* The generators on words of six bits, with shifts of the longest period. *)
EXTENDS Generators

MCShifts == <<1, 3, 2>>

\* Every seed, zero included.
MCSeeds == U64

\* Clusters within a width and across powers of two.
MCClusters == <<<<2, 4>>, <<7, 17>>, <<32, 34>>>>
MCMixture == <<<<0, 3>>, <<8, 15>>, <<16, 19>>, <<32, 39>>>>
===============================================================================
