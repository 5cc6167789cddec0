--------------------------- MODULE MCDraftAutosave ---------------------------
(* Values for the runs of DraftAutosave: two modes that take applications, *)
(* one that does not, and one question besides the one a form starts with. *)
EXTENDS DraftAutosave

MCSettings == {"open", "invite", "roster"}
MCRecruiting == {"open", "invite"}
MCKeys == {"k"}
MCLabels == {"a", "b"}
=============================================================================
