----------------------------- MODULE MCCompose -----------------------------
(* Two incidents, which are alike, and the filing form.                    *)
EXTENDS Compose, TLC

Alike == Permutations(Timelines)
=============================================================================
