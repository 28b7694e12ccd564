-------------------------- MODULE MCGracefulFinalize --------------------------
(* Model-checking instances of GracefulFinalize: attempts with a page, or a  *)
(* Markdown page, under a self-check policy, and attempts of an inline       *)
(* profile, which have no review files at all.                               *)
EXTENDS GracefulFinalize, TLC

SlotSymmetry == Permutations(Slots)

Artifact(policy, md) ==
  [mode |-> "artifact", policy |-> policy, expected |-> {"page"}, md |-> md]
Inline == [mode |-> "inline", policy |-> "none", expected |-> {}, md |-> {}]

ScriptOrInline == {Artifact("script", {}), Artifact("script", {"page"}), Inline}
ChecklistOnly  == {Artifact("checklist", {})}
=============================================================================
