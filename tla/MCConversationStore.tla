------------------------ MODULE MCConversationStore ------------------------
(* Small instances of ConversationStore. *)
EXTENDS ConversationStore, TLC

\* Without blank questions the requests are interchangeable.
Interchangeable == Permutations(Request)
=============================================================================
