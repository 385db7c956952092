---------------------------------- MODULE MC_Tails ----------------------------------
(* Tails on a small instance: values in the .cfg.                                    *)
EXTENDS Tails
================================================================================
