---------------------------- MODULE MCNarrative ----------------------------
(***************************************************************************)
(* TLC instance of the narrative: the viewer, a report with something to   *)
(* describe, its successor, and one with nothing.  The model writes any    *)
(* draft of up to MaxSectionChars + 1 lexemes in one section, or in two at *)
(* once, or an answer without a known section.                             *)
(***************************************************************************)
EXTENDS Narrative

CONSTANTS u1, s1, s2

MCSectionNames == {"risk", "behavior"}
MCReports == {[hash |-> "h1", computed |-> {"risk"}], [hash |-> "h2", computed |-> {"risk"}],
              [hash |-> "h0", computed |-> {}]}

MCLexemes == {"prose", "space", "digit", "left", "right", "risk"}
AllDrafts(n) == UNION {[1..k -> MCLexemes] : k \in 0..n}
MCRawDrafts ==
  {"risk" :> d : d \in AllDrafts(MaxSectionChars + 1)}
  \cup {"risk" :> d @@ "behavior" :> <<"prose", "prose", "prose">> : d \in AllDrafts(2)}
  \cup {"summary" :> <<"prose">>, <<>>}
=============================================================================
