------------------------------ MODULE Lifecycle ------------------------------
(***************************************************************************)
(* What every hand-written reconciler promises about one managed resource  *)
(* and the external resource that it records: an identifier, once          *)
(* recorded, is neither forgotten nor replaced while what it names exists, *)
(* and the object is released only once that is gone, as far as deleting   *)
(* it is allowed.  How the reconciler finds, creates, changes and deletes, *)
(* and what crashes, stale copies and lost answers do to it, is hidden.    *)
(***************************************************************************)
CONSTANTS
    Ids,    \* the identifiers of external resources
    None    \* no identifier

VARIABLES
    stage,      \* of the object: "present", "deleting" or "gone"
    id,         \* the identifier it records
    mayDelete,  \* whether deleting the external resource is allowed
    born,       \* the identifiers handed out so far
    live        \* those whose external resource exists

vars == <<stage, id, mayDelete, born, live>>

Init ==
    /\ stage = "present"
    /\ id = None
    /\ mayDelete \in BOOLEAN
    /\ born \subseteq Ids
    /\ live \subseteq born

-----------------------------------------------------------------------------
\* Someone creates or deletes external resources; identifiers are never reused.
ExternalChange ==
    /\ born \subseteq born' /\ born' \subseteq Ids
    /\ live' \subseteq live \cup (born' \ born)
    /\ UNCHANGED <<stage, id, mayDelete>>

\* The identifier of something that exists, or did, takes the place of none, or
\* of that of something that does not exist any more.
Record ==
    /\ stage # "gone"
    /\ id \notin live
    /\ id' \in born
    /\ UNCHANGED <<stage, mayDelete, born, live>>

\* The user changes what is allowed.
Allow ==
    /\ stage # "gone"
    /\ mayDelete' \in BOOLEAN
    /\ UNCHANGED <<stage, id, born, live>>

\* The user deletes the object.
Delete ==
    /\ stage = "present"
    /\ stage' = "deleting"
    /\ UNCHANGED <<id, mayDelete, born, live>>

\* The object is released and disappears.
Release ==
    /\ stage # "gone"
    /\ mayDelete => id \notin live
    /\ stage' = "gone"
    /\ id' = None
    /\ mayDelete' \in BOOLEAN
    /\ UNCHANGED <<born, live>>

Next == ExternalChange \/ Record \/ Allow \/ Delete \/ Release

Spec == Init /\ [][Next]_vars
=============================================================================
