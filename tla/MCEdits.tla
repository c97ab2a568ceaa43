------------------------------- MODULE MCEdits -------------------------------
(* An instance of Edits for TLC.                                            *)
EXTENDS Edits, TLC

EditorSymmetry == Permutations(Editors)
=============================================================================
