---------------------------- MODULE MCExperiment ----------------------------
(* Instances of Experiment for TLC.                                        *)
EXTENDS Experiment

CONSTANTS a, b, c, d

(* A small alphabet first, and then all.                                   *)
TwoAlphabets == <<{a}, {a, b, c, d}>>
OneAlphabet  == <<{a, b}>>

=============================================================================
