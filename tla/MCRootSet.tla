------------------------------- MODULE MCRootSet -------------------------------
EXTENDS RootSet, TLC

(* Roots are alike, and so are scanners. *)
Symmetry == Permutations(Root) \cup Permutations(Scanner)

(* What the code overwrites before reading does not tell states apart. *)
DeadOr(dead, v) == IF dead THEN NULL ELSE v
View ==
  <<static, static_frontier_ptr, spc, [m \in Mutator |-> DeadOr(spc[m] = "run", class[m])],
    [m \in Mutator |-> DeadOr(spc[m] = "run", size[m])], statics, wpc,
    DeadOr(wpc = "idle", <<next, end, before \ visited>>),
    DeadOr(wpc \in {"idle", "header", "lost"}, <<low, length>>),
    free, white, exposed, regs, tpc, args, child, rpc, reg, global_roots,
    total_global_roots, registered, root, root_scanner, total_root_scanners, offered, hidden,
    registered_word, no_write_barrier_state, DeadOr(gcpc \notin {"signal", "halt", "threads"}, saved),
    DeadOr(registered_word /\ gcpc \notin {"halt", "threads"}, saved_no_write_barrier_state),
    signalled, gcpc, index, status>>

(* Behaviours are followed with at most two places outside stacks and args *)
(* in use: roots, scanners, the static space, the word without a barrier.  *)
InUse ==
  Cardinality({i \in 1..MAX_GLOBAL_ROOTS : global_roots[i] # NULL})
  + Cardinality(offered)
  + (IF static_frontier_ptr > 0 THEN 1 ELSE 0)
  + (IF registered_word THEN 1 ELSE 0)
TwoPlaces == InUse <= 2
=============================================================================
