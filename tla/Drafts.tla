------------------------------- MODULE Drafts -------------------------------
(***************************************************************************)
(* The contract between ai-insights and the language model.  A draft is    *)
(* prose in which every figure is a placeholder, {token}, from a           *)
(* vocabulary built from the report; it is checked, and only a draft that  *)
(* passes is rendered.                                                     *)
(*                                                                         *)
(* A draft is a sequence of lexemes: "prose", "space", "digit" (a numeral, *)
(* a unit symbol or a spelled-out number), "left" and "right" for the two  *)
(* braces, and the names of tokens.  A rendered draft has "figure" for     *)
(* every token.                                                            *)
(***************************************************************************)
EXTENDS Integers, Sequences, FiniteSets, SequencesExt

CONSTANTS MaxSectionChars, MaxTotalChars,   \* in lexemes
          SectionNames,
          Lexemes

\* What Render answers for its error, which is no text.
RenderError == <<"error">>

ASSUME DraftsAssumption ==
  /\ MaxSectionChars \in Nat \ {0} /\ MaxTotalChars \in Nat \ {0}
  /\ RenderError[1] \notin Lexemes

Braces == {"left", "right"}
Count(draft, lexeme) == Cardinality({k \in DOMAIN draft : draft[k] = lexeme})

\* The kinds of value that format knows how to write: every number is the one, and a
\* date is written as the report carries it.
Kinds == {"number", "date"}

\* Placeholders: the tokens of a report, by the sections it computed, each with the
\* kind of its value.  A section that was not computed offers none, and nothing
\* computed is no vocabulary.
Placeholders(r) ==
  [token \in IF r.computed = {} THEN {} ELSE {<<s>> : s \in r.computed \cup {"window"}} |->
     IF token = <<"window">> THEN "date" ELSE "number"]

\* The matches of \{([^{}]*)\}, as the places of their braces.
Tokens(draft) ==
  {m \in (DOMAIN draft) \X (DOMAIN draft) :
     /\ m[1] < m[2] /\ draft[m[1]] = "left" /\ draft[m[2]] = "right"
     /\ \A k \in (m[1] + 1)..(m[2] - 1) : draft[k] \notin Braces}

\* Mutant: matching counts of braces are taken for matching braces.
ValidateCountsOnly(draft, vocab) ==
  /\ \E k \in DOMAIN draft : draft[k] # "space"
  /\ Len(draft) <= MaxSectionChars
  /\ Count(draft, "digit") = 0
  /\ Count(draft, "left") = Count(draft, "right")
  /\ \A m \in Tokens(draft) : SubSeq(draft, m[1] + 1, m[2] - 1) \in DOMAIN vocab

Validate(draft, vocab) ==
  /\ \E k \in DOMAIN draft : draft[k] # "space"
  /\ Len(draft) <= MaxSectionChars
  /\ Count(draft, "digit") = 0
  /\ Count(draft, "left") = Count(draft, "right")
  /\ \A m \in Tokens(draft) : SubSeq(draft, m[1] + 1, m[2] - 1) \in DOMAIN vocab
  /\ \A k \in DOMAIN draft :
       draft[k] \in Braces => \E m \in Tokens(draft) : k \in {m[1], m[2]}

\* Render: left to right, a brace and the next closing one are a token.
Opens(draft, p) == {k \in p..Len(draft) : draft[k] = "left"}
Closes(draft, open) == {k \in (open + 1)..Len(draft) : draft[k] = "right"}

\* from: what there is to render from each later place on.
RenderStep(draft, vocab, from, p) ==
  LET open == Min(Opens(draft, p))
      close == Min(Closes(draft, open))
      token == SubSeq(draft, open + 1, close - 1)
  IN IF Opens(draft, p) = {} THEN SubSeq(draft, p, Len(draft))
     ELSE IF Closes(draft, open) = {} THEN RenderError
     ELSE IF token \notin DOMAIN vocab THEN RenderError
     ELSE IF vocab[token] \notin Kinds THEN RenderError
     ELSE IF from[close + 1] = RenderError THEN RenderError
     ELSE SubSeq(draft, p, open - 1) \o <<"figure">> \o from[close + 1]

RenderFrom(draft, vocab) ==
  LET from[p \in 1..(Len(draft) + 1)] == RenderStep(draft, vocab, from, p) IN from

Render(draft, vocab) == RenderFrom(draft, vocab)[1]

\* parseDraft: the known sections of a draft that is a JSON object; <<>> if it
\* is none, or has none of them.
parseDraft(raw) == Restrict(raw, SectionNames \cap DOMAIN raw)

ValidateSections(sections, vocab) ==
  /\ \A s \in DOMAIN sections : Validate(sections[s], vocab)
  /\ FoldFunction(LAMBDA draft, total : total + Len(draft), 0, sections) <= MaxTotalChars

renderSections(sections, vocab) ==
  [s \in DOMAIN sections |-> Render(sections[s], vocab)]

Usable(raw, vocab) ==
  LET sections == parseDraft(raw)
  IN DOMAIN sections # {} /\ ValidateSections(sections, vocab)

Renders(raw, vocab) ==
  \A s \in DOMAIN parseDraft(raw) : renderSections(parseDraft(raw), vocab)[s] # RenderError

-----------------------------------------------------------------------------
\* What a reader may see: no brace, and no figure but the report's own.
Clean(text) == \A k \in DOMAIN text : text[k] \notin Braces \cup {"digit"}
RendersClean(raw, vocab) ==
  \A s \in DOMAIN parseDraft(raw) : Clean(renderSections(parseDraft(raw), vocab)[s])
=============================================================================
