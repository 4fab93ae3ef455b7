---------------------------- MODULE MCToolHooks ----------------------------
(* A small instance of ToolHooks for TLC.  The bounds are in the .cfg file.  *)
EXTENDS ToolHooks

\* The operator denies one tool, or has no rules.
Policies ==
    {[state |-> "unset", rules |-> <<>>],
     [state |-> "set",
      rules |-> <<[effect |-> "deny", tools |-> {"t"}, when |-> {},
                   scoped |-> FALSE, valid |-> TRUE]>>]}
=============================================================================
