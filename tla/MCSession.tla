----------------------------- MODULE MCSession -----------------------------
(* Small instances for TLC of the runtime and of root's registry.  In a
   behaviour one of them moves, and the other stays as it begins. *)
EXTENDS Session, Registry, TLC

CONSTANTS caller, callee, root,
          t1, t2, t3,   \* coroutines
          token,
          timer, logger, other    \* an exclusive service and names of root's registry

VARIABLE which

Pair(p, q) == (caller :> p) @@ (callee :> q)
Various ==
  {Pair({"call", "fork"}, {"wait", "wakeup", "quit"}),
   Pair({"call", "fork"}, {"no_response", "raise", "quit"}),
   Pair({"call", "sleep", "fork"}, {"raise", "unknown"}),
   Pair({"select"}, {"raise", "quit"}),
   Pair({"select", "fork", "quit"}, {}),
   Pair({"send", "call", "timeout", "sleep_ti"}, {"raise", "sleep"})}
CalledBy == Pair({callee}, {})
Selected2 == Pair(<<callee, callee>>, <<>>)

-----------------------------------------------------------------------------
RuntimeInit == /\ which \in {"runtime", "root"} /\ Init /\ RootInit
               /\ which = "root" => can = Pair({"select"}, {"raise", "quit"})
RuntimeNext == /\ UNCHANGED which
               /\ \/ which = "runtime" /\ Next /\ UNCHANGED rootVars
                  \/ which = "root" /\ RootNext /\ UNCHANGED vars
RuntimeSpec == RuntimeInit /\ [][RuntimeNext]_<<which, vars, rootVars>>

(* A free coroutine is like any other, so that the choice of one does no harm. *)
Symmetry == Permutations({t1, t2, t3})

=============================================================================
