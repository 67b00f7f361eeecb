---------------------- MODULE MCOrderedTaskPreparation -----------------------
(* Instances of OrderedTaskPreparation for TLC. *)
EXTENDS OrderedTaskPreparation, TLC

CONSTANTS g, a, b, c, f, outside, w1, w2

\* A chain g <- a <- b <- c with a fork f at a
ForkDep == g :> outside @@ a :> g @@ b :> a @@ c :> b @@ f :> a
=============================================================================
