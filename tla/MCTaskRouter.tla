---------------------------- MODULE MCTaskRouter ----------------------------
(***************************************************************************)
(* Texts that tell the rules apart: one or two signals each.               *)
(***************************************************************************)
EXTENDS TaskRouter

Plain ==
  [tech |-> "none", cue |-> "none", veto |-> FALSE, github |-> FALSE, codeSoft |-> FALSE,
   experience |-> FALSE, problems |-> FALSE, trouble |-> FALSE, anchor |-> FALSE]

MCText ==
  {Plain, [Plain EXCEPT !.experience = TRUE], [Plain EXCEPT !.github = TRUE],
   [Plain EXCEPT !.trouble = TRUE, !.anchor = TRUE],
   [Plain EXCEPT !.tech = "weak", !.cue = "generic"],
   [Plain EXCEPT !.tech = "strong", !.cue = "generic"],
   [Plain EXCEPT !.tech = "strong", !.cue = "specific", !.veto = TRUE]}

MCQuestion ==
  {Plain, [Plain EXCEPT !.experience = TRUE],
   [Plain EXCEPT !.tech = "weak", !.cue = "specific"],
   [Plain EXCEPT !.tech = "strong", !.cue = "generic"],
   [Plain EXCEPT !.tech = "strong", !.codeSoft = TRUE, !.veto = TRUE],
   [Plain EXCEPT !.tech = "strong", !.problems = TRUE],
   [Plain EXCEPT !.trouble = TRUE, !.anchor = TRUE]}

MCSuggestions ==
  {{}, {"podcast", DOCS}, {GITHUB, WEB}, {DOCS, GITHUB, REDDIT}}

MCSettings ==
  {[router |-> TRUE, docs |-> TRUE], [router |-> TRUE, docs |-> FALSE], [router |-> FALSE, docs |-> TRUE]}
=============================================================================
