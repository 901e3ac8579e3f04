---------------------------- MODULE MCAdmission ----------------------------
(***************************************************************************)
(* Small instances of Admission.  In each one a client repeats, mixes up   *)
(* or abandons calls with few request ids.                                 *)
(***************************************************************************)
EXTENDS Admission, TLC

CONSTANTS i1, i2, c1, c2, c3

TwoIncarnations == {1, 2}

Input(i, p, n, f) == [id |-> i, prompt |-> p, incarnation |-> n, final |-> f]

\* One id, sent one way, asking for the final, and with another prompt to
\* the agent that replaced the first.
OneId == {Input(i1, "p", 1, FALSE), Input(i1, "p", 1, TRUE),
          Input(i1, "q", 2, FALSE)}

Claude == [n \in Incarnations |-> "claude"]

\* agy replaces a managed Codex in the pane.
CodexThenAgy == [n \in Incarnations |-> IF n = 1 THEN "managed_codex" ELSE "agy"]

\* Two prompts for the same agent, one of which asks for the final.
TwoIds == {Input(i1, "p", 1, TRUE), Input(i2, "q", 1, FALSE)}

Symmetry == Permutations({c1, c2, c3} \cap Calls)

=============================================================================
