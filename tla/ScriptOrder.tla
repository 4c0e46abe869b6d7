----------------------------- MODULE ScriptOrder ------------------------------
(***************************************************************************)
(* The order in which hardhat-deploy runs the scripts of a directory: the  *)
(* order of the file names, but each after the scripts that carry a tag it *)
(* depends on.  Given tags (deployments.fixture of a test), the scripts    *)
(* that carry one of them, with what those depend on.  A tag that no       *)
(* script carries is passed over without a word.                           *)
(***************************************************************************)
EXTENDS Naturals, Sequences, SequencesExt

Carrying(directory, tag) == SelectSeq([i \in DOMAIN directory |-> i], LAMBDA i : tag \in directory[i].tags)

\* order, with script i and all that it depends on at its end.
RECURSIVE WithScript(_, _, _)
WithScript(directory, order, i) ==
  IF Contains(order, i) THEN order
  ELSE LET needed == FlattenSeq([d \in DOMAIN directory[i].dependencies |->
                                   Carrying(directory, directory[i].dependencies[d])])
           before == FoldLeft(LAMBDA o, j : WithScript(directory, o, j), order, needed)
       IN Append(before, i)

Planned(directory, wanted) ==
  LET order[n \in 0..Len(wanted)] ==
        IF n = 0 THEN << >> ELSE WithScript(directory, order[n - 1], wanted[n])
  IN [k \in DOMAIN order[Len(wanted)] |-> directory[order[Len(wanted)][k]]]

\* Without tags all scripts run; where each follows what it depends on, this
\* is the order of the directory.
DependenciesComeFirst(directory) ==
  \A i \in DOMAIN directory : \A tag \in ToSet(directory[i].dependencies) :
    \A j \in i..Len(directory) : tag \notin directory[j].tags
PlanOfTags(directory, tags) ==
  Planned(directory, SelectSeq([i \in DOMAIN directory |-> i], LAMBDA i : directory[i].tags \cap tags # {}))
==============================================================================
