----------------------------- MODULE MCUserland -----------------------------
(***************************************************************************)
(* The programs of userland, each checked on its own: "part" picks the one *)
(* a behaviour runs and the others stay at an initial state.               *)
(***************************************************************************)
EXTENDS Shell, LineEdit, Edit

VARIABLE part

\* The prompt, the commands completion knows and the directories it lists.
MCPrompt == <<"$">>
MCCommands == <<[name |-> <<"a", "b">>, dir |-> FALSE], [name |-> <<"a", "a">>, dir |-> FALSE]>>
MCListing == << >> :> <<[name |-> <<"b">>, dir |-> TRUE]>>
             @@ <<"b", "/">> :> <<[name |-> <<"a">>, dir |-> FALSE]>>

\* What the editor searches for.
MCPatterns == {<<"a">>}

Init ==
    /\ part \in {"shell", "line", "edit"}
    /\ ShellInit /\ LineInit
    /\ EditInit /\ (part # "edit" => text = << >>)

Next ==
    /\ UNCHANGED part
    /\ \/ part = "shell" /\ ShellNext /\ UNCHANGED <<lineVars, editVars>>
       \/ part = "line" /\ LineNext /\ UNCHANGED <<shellVars, editVars>>
       \/ part = "edit" /\ EditNext /\ UNCHANGED <<shellVars, lineVars>>

Spec == Init /\ [][Next]_<<part, shellVars, lineVars, editVars>>
=============================================================================
