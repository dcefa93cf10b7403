------------------------------- MODULE MCFront -------------------------------
(* Sources behind one proxy.  They differ in nothing.                      *)
EXTENDS Front, TLC

Sources == Permutations(Source)
=============================================================================
