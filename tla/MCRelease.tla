----------------------------- MODULE MCRelease ------------------------------
(* Instances of Release for TLC. *)
EXTENDS Release

CONSTANTS ann, bob

\* A repository set up well, with one reviewer; one where a reviewer to be has made the
\* token and nothing else is done; one that was changed since and has lost its token.
Good ==
  [token |-> "installation", features |-> {"alerts", "reporting", "scanning"}, fixes |-> "on",
   env |-> [reviewers |-> {ann}, guarded |-> TRUE], policies |-> {"tag"},
   rules |-> [n \in {"main", "tag"} |-> "right"]]
Fresh ==
  [token |-> ann, features |-> {}, fixes |-> "off", env |-> None, policies |-> {"branch"},
   rules |-> [n \in {"main", "tag"} |-> "missing"]]
Paused == [Good EXCEPT !.token = "missing", !.fixes = "paused", !.rules["main"] = "wrong"]

SomeSetups == {Good, Fresh, Paused}
SomeWanted == {{}, {ann}, {ann, bob}}
=============================================================================
