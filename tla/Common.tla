------------------------------- MODULE Common -------------------------------
(* Constants that components of both CapsuleInstances and ReplyInstances have. *)
CONSTANTS
    None,       \* the absent value of every component
    Sessions,   \* session ids
    Plugins     \* capsules that answer hooks
=============================================================================
