-------------------------- MODULE NarrativeProofs --------------------------
(***************************************************************************)
(* Proofs about the narrative: what it may cost, whom and what it is shown *)
(* for, and that only checked prose is served, for any number of requests, *)
(* users, reports and drafts, and drafts of any length.                    *)
(***************************************************************************)
EXTENDS Narrative, Induction, FiniteSetTheorems, SequenceTheorems, TLAPS

-----------------------------------------------------------------------------
(* What passes renders *)

\* What rendered text is made of: lexemes a reader may see, and figures.
Shown == (Lexemes \ (Braces \cup {"digit"})) \cup {"figure"}

\* No token reaches from before p to p or beyond.
Between(draft, p) == \A m \in Tokens(draft) : m[2] < p \/ p <= m[1]

\* The least of a set of places.
LEMMA MinIs ==
  ASSUME NEW T, T \subseteq Nat, T # {}
  PROVE  Min(T) \in T /\ \A y \in T : Min(T) <= y
<1>1. \E x \in T : \A y \in T : x <= y
  BY LeastElement
<1>. QED
  BY <1>1 DEF Min

\* A token's facts, from its definition.
LEMMA TokenIs ==
  ASSUME NEW draft \in Seq(Lexemes), NEW m \in Tokens(draft)
  PROVE  /\ m[1] \in 1..Len(draft) /\ m[2] \in 1..Len(draft) /\ m[1] < m[2]
         /\ draft[m[1]] = "left" /\ draft[m[2]] = "right"
         /\ \A k \in 1..Len(draft) : m[1] < k /\ k < m[2] => draft[k] # "left" /\ draft[k] # "right"
<1>1. DOMAIN draft = 1..Len(draft) /\ Len(draft) \in Nat
  OBVIOUS
<1>2. m[1] \in 1..Len(draft) /\ m[2] \in 1..Len(draft)
  BY <1>1 DEF Tokens
<1>3. /\ m[1] < m[2] /\ draft[m[1]] = "left" /\ draft[m[2]] = "right"
      /\ \A k \in (m[1] + 1)..(m[2] - 1) : draft[k] # "left" /\ draft[k] # "right"
  BY DEF Tokens, Braces
<1>4. ASSUME NEW k \in 1..Len(draft), m[1] < k, k < m[2]
      PROVE  k \in (m[1] + 1)..(m[2] - 1)
  BY <1>1, <1>2, <1>4
<1>. QED
  BY <1>2, <1>3, <1>4

\* From a place between tokens on, the first opening brace begins a token, the
\* first closing one after it ends that token, no brace comes before it, and the
\* place behind it is between tokens again.
LEMMA NextToken ==
  ASSUME NEW draft \in Seq(Lexemes), NEW vocab, Validate(draft, vocab),
         NEW p \in 1..(Len(draft) + 1), Between(draft, p)
  PROVE  LET open == Min(Opens(draft, p))
             close == Min(Closes(draft, open))
         IN IF Opens(draft, p) = {}
            THEN \A k \in p..Len(draft) : draft[k] \in Shown
            ELSE /\ open \in p..Len(draft) /\ close \in (open + 1)..Len(draft)
                 /\ Closes(draft, open) # {}
                 /\ SubSeq(draft, open + 1, close - 1) \in DOMAIN vocab
                 /\ \A k \in p..(open - 1) : draft[k] \in Shown
                 /\ Between(draft, close + 1)
<1> DEFINE n == Len(draft)
           open == Min(Opens(draft, p))
           close == Min(Closes(draft, open))
<1>1. n \in Nat /\ p \in Nat /\ 1 <= p /\ p <= n + 1
  OBVIOUS
<1>9. DOMAIN draft = 1..n /\ \A k \in 1..n : draft[k] \in Lexemes
  OBVIOUS
<1>10. /\ \A k \in Opens(draft, p) : k \in p..n /\ draft[k] = "left"
       /\ \A k \in p..n : draft[k] = "left" => k \in Opens(draft, p)
  BY DEF Opens
<1>11. \A q \in Nat : /\ \A k \in Closes(draft, q) : k \in (q + 1)..n /\ draft[k] = "right"
                     /\ \A k \in (q + 1)..n : draft[k] = "right" => k \in Closes(draft, q)
  BY DEF Closes
<1>0. \A m \in Tokens(draft) :
        /\ m[1] \in 1..n /\ m[2] \in 1..n /\ m[1] < m[2]
        /\ draft[m[1]] = "left" /\ draft[m[2]] = "right"
        /\ \A k \in 1..n : m[1] < k /\ k < m[2] => draft[k] # "left" /\ draft[k] # "right"
  BY TokenIs
<1>. HIDE DEF n
<1>2. \A k \in 1..n : draft[k] # "digit"
  <2> DEFINE T == {k \in DOMAIN draft : draft[k] = "digit"}
  <2>1. IsFiniteSet(1..n) /\ T \subseteq 1..n
    BY <1>1, <1>9, FS_Interval
  <2>2. IsFiniteSet(T)
    BY <2>1, FS_Subset
  <2>3. Cardinality(T) = 0
    BY DEF Validate, Count
  <2>. HIDE DEF T
  <2>4. T = {}
    BY <2>2, <2>3, FS_EmptySet
  <2>. QED BY <1>9, <2>4 DEF T
<1>3. /\ \A m \in Tokens(draft) : SubSeq(draft, m[1] + 1, m[2] - 1) \in DOMAIN vocab
      /\ \A k \in 1..n : draft[k] \in {"left", "right"} =>
           \E m \in Tokens(draft) : k \in {m[1], m[2]}
  BY <1>9 DEF Validate, Braces
<1>4. \A m \in Tokens(draft) : m[2] < p \/ p <= m[1]
  BY DEF Between
<1>5. \A k \in 1..n : draft[k] # "left" /\ draft[k] # "right" => draft[k] \in Shown
  BY <1>2, <1>9 DEF Shown, Braces
<1>6. ASSUME NEW q \in 1..(n + 1), \A k \in p..n : k < q => draft[k] # "left",
             NEW k \in p..n, k < q
      PROVE  draft[k] \in Shown
  <2>1. k \in 1..n
    BY <1>1
  <2>2. draft[k] # "right"
    <3>. SUFFICES ASSUME draft[k] = "right" PROVE FALSE
      OBVIOUS
    <3>1. PICK m \in Tokens(draft) : k \in {m[1], m[2]}
      BY <1>3, <2>1
    <3>2. /\ m[1] \in 1..n /\ m[2] \in 1..n /\ m[1] < m[2]
          /\ draft[m[1]] = "left" /\ draft[m[2]] = "right"
      BY <1>0
    <3>3. k = m[2]
      BY <3>1, <3>2
    <3>4. p <= m[1] /\ m[1] < q /\ m[1] \in p..n
      BY <1>1, <1>4, <1>6, <3>2, <3>3
    <3>. QED BY <1>6, <3>2, <3>4
  <2>. QED BY <1>5, <1>6, <2>1, <2>2
<1>7. CASE Opens(draft, p) = {}
  <2>1. \A k \in p..n : draft[k] # "left"
    BY <1>7, <1>10
  <2>2. n + 1 \in 1..(n + 1) /\ \A k \in p..n : k < n + 1
    BY <1>1
  <2>3. \A k \in p..n : draft[k] \in Shown
    BY <1>6, <2>1, <2>2
  <2>. QED BY <1>7, <2>3 DEF n
<1>8. CASE Opens(draft, p) # {}
  <2>1. Opens(draft, p) \subseteq Nat
    BY <1>1, <1>10
  <2>2. open \in Opens(draft, p) /\ \A y \in Opens(draft, p) : open <= y
    BY <1>8, <2>1, MinIs
  <2>3. open \in p..n /\ draft[open] = "left" /\ open \in 1..n
    BY <1>1, <1>10, <2>2
  <2>4. \A k \in p..n : k < open => draft[k] # "left"
    BY <1>1, <1>10, <2>2, <2>3
  <2>. HIDE DEF open
  <2>5. PICK m \in Tokens(draft) : open \in {m[1], m[2]}
    BY <1>3, <2>3
  <2>6. /\ m[1] \in 1..n /\ m[2] \in 1..n /\ m[1] < m[2]
        /\ draft[m[1]] = "left" /\ draft[m[2]] = "right"
        /\ \A k \in 1..n : m[1] < k /\ k < m[2] => draft[k] # "left" /\ draft[k] # "right"
    BY <1>0
  <2>7. open = m[1]
    BY <2>3, <2>5, <2>6
  <2>8. m[2] \in Closes(draft, open)
    BY <1>1, <1>11, <2>3, <2>6, <2>7
  <2>9. Closes(draft, open) \subseteq Nat
    BY <1>1, <1>11, <2>3
  <2>10. close \in Closes(draft, open) /\ close <= m[2]
    BY <2>8, <2>9, MinIs
  <2>11. close \in (open + 1)..n /\ draft[close] = "right" /\ close \in 1..n
    BY <1>1, <1>11, <2>3, <2>10
  <2>. HIDE DEF close
  <2>12. close = m[2]
    BY <2>6, <2>7, <2>10, <2>11
  <2>13. SubSeq(draft, open + 1, close - 1) \in DOMAIN vocab
    BY <1>3, <2>7, <2>12
  <2>14. \A k \in p..(open - 1) : draft[k] \in Shown
    <3>1. open \in 1..(n + 1) /\ \A k \in p..(open - 1) : k \in p..n /\ k < open
      BY <1>1, <2>3
    <3>. QED BY <1>6, <2>4, <3>1
  <2>15. ASSUME NEW t \in Tokens(draft)
         PROVE  t[2] < close + 1 \/ close + 1 <= t[1]
    <3>1. /\ t[1] \in 1..n /\ t[2] \in 1..n /\ t[1] < t[2]
          /\ draft[t[1]] = "left" /\ draft[t[2]] = "right"
          /\ \A k \in 1..n : t[1] < k /\ k < t[2] => draft[k] # "left" /\ draft[k] # "right"
      BY <1>0
    <3>2. t[1] # close
      BY <2>11, <3>1
    <3>3. ~(t[1] < close /\ close < t[2])
      BY <2>11, <3>1
    <3>. QED BY <2>11, <3>1, <3>2, <3>3
  <2>16. Between(draft, close + 1)
    BY <2>15 DEF Between
  <2>17. /\ open \in p..n /\ close \in (open + 1)..n /\ Closes(draft, open) # {}
         /\ SubSeq(draft, open + 1, close - 1) \in DOMAIN vocab
         /\ \A k \in p..(open - 1) : draft[k] \in Shown
         /\ Between(draft, close + 1)
    BY <2>3, <2>8, <2>11, <2>13, <2>14, <2>16
  <2>. QED BY <1>8, <2>17, Zenon DEF open, close, n
<1>. QED
  BY <1>7, <1>8

\* A piece of a draft is made of what it is made of at its places.
LEMMA Piece ==
  ASSUME NEW S, NEW draft, NEW i \in Int, NEW j \in Int, \A k \in i..j : draft[k] \in S
  PROVE  SubSeq(draft, i, j) \in Seq(S)
BY SubSeqProperties

\* What a step makes is a text, and comes from the later places alone.
LEMMA RenderStepIs ==
  ASSUME NEW draft \in Seq(Lexemes), NEW vocab, NEW p \in 1..(Len(draft) + 1)
  PROVE  LET D == 1..(Len(draft) + 1)
             S == Seq(Lexemes \cup {"figure", "error"})
         IN /\ \A f \in [D -> S] : RenderStep(draft, vocab, f, p) \in S
            /\ \A f, g \in [D -> S] :
                 (\A q \in D : q > p => f[q] = g[q]) =>
                   RenderStep(draft, vocab, f, p) = RenderStep(draft, vocab, g, p)
<1> DEFINE n == Len(draft)
           N == n + 1
           D == 1..N
           X == Lexemes \cup {"figure", "error"}
           S == Seq(X)
           open == Min(Opens(draft, p))
           close == Min(Closes(draft, open))
           head == SubSeq(draft, p, open - 1) \o <<"figure">>
           NoMore == Opens(draft, p) = {}
           Fails == \/ Closes(draft, open) = {}
                    \/ SubSeq(draft, open + 1, close - 1) \notin DOMAIN vocab
                    \/ vocab[SubSeq(draft, open + 1, close - 1)] \notin Kinds
           tail == SubSeq(draft, p, n)
<1>1. n \in Nat /\ p \in Nat /\ 1 <= p /\ p <= n + 1 /\ \A k \in 1..n : draft[k] \in X
  OBVIOUS
<1>2. RenderError \in S /\ <<"figure">> \in S
  BY DEF RenderError
<1>3. ASSUME ~NoMore
      PROVE  open \in p..n /\ open \in Nat /\ head \in S
  <2>1. \A k \in Opens(draft, p) : k \in p..n
    BY DEF Opens
  <2>2. Opens(draft, p) \subseteq Nat
    <3>. HIDE DEF n
    <3>. QED BY <1>1, <2>1
  <2>3. open \in p..n
    BY <1>3, <2>1, <2>2, MinIs
  <2>. HIDE DEF n, open, X
  <2>4. open \in Nat /\ \A k \in p..(open - 1) : k \in 1..n
    BY <1>1, <2>3
  <2>5. SubSeq(draft, p, open - 1) \in Seq(X)
    BY <1>1, <2>4, Piece
  <2>. QED BY <1>2, <2>3, <2>4, <2>5
<1>4. ASSUME ~NoMore, ~Fails
      PROVE  close + 1 \in D /\ close + 1 > p
  <2>1. open \in p..n /\ open \in Nat
    BY <1>3, <1>4
  <2>2. Closes(draft, open) # {}
    BY <1>4
  <2>. HIDE DEF open
  <2>3. \A k \in Closes(draft, open) : k \in (open + 1)..n
    BY DEF Closes
  <2>4. Closes(draft, open) \subseteq Nat
    <3>. HIDE DEF n
    <3>. QED BY <1>1, <2>1, <2>3
  <2>5. close \in (open + 1)..n
    BY <2>2, <2>3, <2>4, MinIs
  <2>. HIDE DEF n, close
  <2>. QED BY <1>1, <2>1, <2>5
<1>5. tail \in S
  <2>1. \A k \in p..n : k \in 1..n
    BY <1>1
  <2>. HIDE DEF n, X
  <2>. QED BY <1>1, <2>1, Piece
<1>6. \A f : RenderStep(draft, vocab, f, p) =
               IF NoMore THEN tail ELSE IF Fails THEN RenderError
               ELSE IF f[close + 1] = RenderError THEN RenderError ELSE head \o f[close + 1]
  BY Zenon DEF RenderStep
<1>. HIDE DEF NoMore, tail, Fails, close, head, X
<1>7. ASSUME NEW f \in [D -> S]
      PROVE  RenderStep(draft, vocab, f, p) \in S
  <2>1. CASE NoMore
    BY <1>5, <1>6, <2>1
  <2>2. CASE ~NoMore /\ Fails
    BY <1>2, <1>6, <2>2
  <2>3. CASE ~NoMore /\ ~Fails
    <3>1. head \in S
      BY <1>3, <2>3
    <3>2. f[close + 1] \in S
      <4>. HIDE DEF D, S
      <4>. QED BY <1>4, <2>3
    <3>3. head \o f[close + 1] \in S
      BY <3>1, <3>2
    <3>. QED BY <1>2, <1>6, <2>3, <3>3
  <2>. QED BY <2>1, <2>2, <2>3
<1>8. ASSUME NEW f \in [D -> S], NEW g \in [D -> S], \A q \in D : q > p => f[q] = g[q]
      PROVE  RenderStep(draft, vocab, f, p) = RenderStep(draft, vocab, g, p)
  <2>1. ~NoMore /\ ~Fails => f[close + 1] = g[close + 1]
    <3>. HIDE DEF D, S
    <3>. QED BY <1>4, <1>8
  <2>. QED BY <1>6, <2>1
<1>. QED
  BY <1>7, <1>8, Zenon DEF X

\* The recursion of RenderFrom has a solution: it goes to the right.
LEMMA RenderFromIs ==
  ASSUME NEW draft \in Seq(Lexemes), NEW vocab
  PROVE  \A p \in 1..(Len(draft) + 1) :
           RenderFrom(draft, vocab)[p] = RenderStep(draft, vocab, RenderFrom(draft, vocab), p)
<1> DEFINE N == Len(draft) + 1
           S == Seq(Lexemes \cup {"figure", "error"})
           step == [p \in 1..N |-> [f \in [1..N -> S] |-> RenderStep(draft, vocab, f, p)]]
           all(f) == [p \in 1..N |-> RenderStep(draft, vocab, f, p)]
<1>1. N \in Nat /\ S # {}
  <2>1. << >> \in S
    OBVIOUS
  <2>. QED BY <2>1
<1>2. /\ \A p \in 1..N : \A f \in [1..N -> S] : RenderStep(draft, vocab, f, p) \in S
      /\ \A p \in 1..N : \A f, g \in [1..N -> S] :
           (\A q \in 1..N : q > p => f[q] = g[q]) =>
             RenderStep(draft, vocab, f, p) = RenderStep(draft, vocab, g, p)
  BY RenderStepIs, Zenon
<1>. HIDE DEF S, N
<1>3. step \in [1..N -> [[1..N -> S] -> S]]
  BY <1>2
<1>4. \A p \in 1..N : \A f \in [1..N -> S] : step[p][f] = RenderStep(draft, vocab, f, p)
  OBVIOUS
<1>. HIDE DEF step
<1>5. PICK f \in [1..N -> S] : \A p \in 1..N : f[p] = step[p][f]
  <2>1. ASSUME NEW p \in 1..N, NEW f \in [1..N -> S], NEW g \in [1..N -> S],
               \A q \in 1..N : q > p => f[q] = g[q]
        PROVE  step[p][f] = step[p][g]
    <3>1. step[p][f] = RenderStep(draft, vocab, f, p) /\ step[p][g] = RenderStep(draft, vocab, g, p)
      BY <1>4
    <3>2. RenderStep(draft, vocab, f, p) = RenderStep(draft, vocab, g, p)
      BY <1>2, <2>1
    <3>. QED BY <3>1, <3>2
  <2>2. \A p \in 1..N : \A f, g \in [1..N -> S] :
          (\A q \in 1..N : q > p => f[q] = g[q]) => step[p][f] = step[p][g]
    BY <2>1, Zenon
  <2>3. LooksAhead(N, S, step)
    BY <1>3, <2>2, Zenon DEF LooksAhead
  <2>4. Solvable(N, S, step)
    BY <1>1, <2>3, BackwardRecursionExists
  <2>. QED BY <2>4 DEF Solvable
<1>6. \E h : h = all(h)
  <2>1. \A p \in 1..N : f[p] = RenderStep(draft, vocab, f, p)
    BY <1>4, <1>5
  <2>2. f = [p \in 1..N |-> f[p]]
    OBVIOUS
  <2>3. f = all(f)
    BY <2>1, <2>2
  <2>. HIDE DEF all
  <2>. QED BY <2>3
<1>7. RenderFrom(draft, vocab) = all(RenderFrom(draft, vocab))
  <2>1. RenderFrom(draft, vocab) = CHOOSE h : h = all(h)
    BY Zenon DEF RenderFrom, N
  <2>. HIDE DEF all
  <2>. QED BY <1>6, <2>1
<1>8. ASSUME NEW p \in 1..N
      PROVE  RenderFrom(draft, vocab)[p] = RenderStep(draft, vocab, RenderFrom(draft, vocab), p)
  <2> DEFINE h == RenderFrom(draft, vocab)
  <2>1. h = all(h)
    BY <1>7
  <2>. HIDE DEF h
  <2>2. all(h)[p] = RenderStep(draft, vocab, h, p)
    OBVIOUS
  <2>. HIDE DEF all
  <2>. QED BY <2>1, <2>2 DEF h
<1>. QED
  BY <1>8 DEF N

\* A text of what a reader may see is no error.
LEMMA ShownIsNoError == RenderError \notin Seq(Shown)
<1>. SUFFICES ASSUME RenderError \in Seq(Shown) PROVE FALSE
  OBVIOUS
<1>1. Len(RenderError) = 1 /\ RenderError[1] = "error"
  BY DEF RenderError
<1>2. RenderError[1] \in Shown
  BY <1>1
<1>. QED BY <1>1, <1>2, DraftsAssumption DEF Shown

\* From a place between tokens on, a draft that passed renders, if it does from
\* every later one.
LEMMA RendersOn ==
  ASSUME NEW draft \in Seq(Lexemes), NEW vocab, Validate(draft, vocab),
         \A token \in DOMAIN vocab : vocab[token] \in Kinds,
         NEW p \in 1..(Len(draft) + 1), Between(draft, p),
         \A q \in 1..(Len(draft) + 1) :
           q > p /\ Between(draft, q) => RenderFrom(draft, vocab)[q] \in Seq(Shown)
  PROVE  RenderFrom(draft, vocab)[p] \in Seq(Shown)
<1> DEFINE n == Len(draft)
           from == RenderFrom(draft, vocab)
           open == Min(Opens(draft, p))
           close == Min(Closes(draft, open))
           NoMore == Opens(draft, p) = {}
           rest == from[close + 1]
<1>1. n \in Nat /\ p \in Nat /\ 1 <= p /\ p <= n + 1
  OBVIOUS
<1>2. from[p] = RenderStep(draft, vocab, from, p)
  BY RenderFromIs
<1>3. IF NoMore THEN \A k \in p..n : draft[k] \in Shown
      ELSE /\ open \in p..n /\ close \in (open + 1)..n
           /\ Closes(draft, open) # {}
           /\ SubSeq(draft, open + 1, close - 1) \in DOMAIN vocab
           /\ \A k \in p..(open - 1) : draft[k] \in Shown
           /\ Between(draft, close + 1)
  BY NextToken, Zenon
<1>4. CASE NoMore
  <2>1. from[p] = SubSeq(draft, p, n)
    BY <1>2, <1>4 DEF RenderStep
  <2>2. \A k \in p..n : draft[k] \in Shown
    BY <1>3, <1>4
  <2>. HIDE DEF n, from
  <2>3. SubSeq(draft, p, n) \in Seq(Shown)
    BY <1>1, <2>2, Piece
  <2>. QED BY <2>1, <2>3 DEF from
<1>5. CASE ~NoMore
  <2>1. /\ open \in p..n /\ close \in (open + 1)..n /\ Closes(draft, open) # {}
        /\ SubSeq(draft, open + 1, close - 1) \in DOMAIN vocab
        /\ \A k \in p..(open - 1) : draft[k] \in Shown
        /\ Between(draft, close + 1)
    BY <1>3, <1>5
  <2>2. close + 1 \in 1..(n + 1) /\ close + 1 > p /\ open - 1 \in Int
    <3>. HIDE DEF n, open, close
    <3>. QED BY <1>1, <2>1
  <2>3. rest \in Seq(Shown)
    <3>. HIDE DEF open, close
    <3>. QED BY <2>1, <2>2
  <2>4. rest # RenderError
    <3>. HIDE DEF rest
    <3>. QED BY <2>3, ShownIsNoError
  <2>5. RenderStep(draft, vocab, from, p) = SubSeq(draft, p, open - 1) \o <<"figure">> \o rest
    <3>1. vocab[SubSeq(draft, open + 1, close - 1)] \in Kinds
      BY <2>1
    <3>. HIDE DEF from
    <3>. QED BY <1>5, <2>1, <2>4, <3>1, Zenon DEF RenderStep
  <2> DEFINE head == SubSeq(draft, p, open - 1)
  <2>6. head \in Seq(Shown)
    <3>. HIDE DEF open
    <3>. QED BY <1>1, <2>1, <2>2, Piece
  <2>7. <<"figure">> \in Seq(Shown)
    BY DEF Shown
  <2>. HIDE DEF rest, head, from
  <2>8. head \o <<"figure">> \o rest \in Seq(Shown)
    <3> DEFINE S == Shown
               figure == <<"figure">>
    <3>. HIDE DEF S, figure
    <3>1. head \in Seq(S) /\ figure \in Seq(S) /\ rest \in Seq(S)
      BY <2>3, <2>6, <2>7 DEF S, figure
    <3>2. head \o figure \o rest \in Seq(S)
      BY <3>1
    <3>. QED BY <3>2 DEF S, figure
  <2>9. from[p] \in Seq(Shown)
    BY <1>2, <2>5, <2>8 DEF head
  <2>. QED BY <2>9 DEF from
<1>. QED
  BY <1>4, <1>5

\* A draft that passed renders, and what it renders to is for a reader to see.
LEMMA PassedRenders ==
  ASSUME NEW draft \in Seq(Lexemes), NEW vocab, Validate(draft, vocab),
         \A token \in DOMAIN vocab : vocab[token] \in Kinds
  PROVE  Render(draft, vocab) \in Seq(Shown)
<1> DEFINE n == Len(draft)
           from == RenderFrom(draft, vocab)
           Good(p) == Between(draft, p) => from[p] \in Seq(Shown)
           T == {j \in Nat : \A p \in 1..(n + 1) : p + j >= n + 1 => Good(p)}
<1>1. n \in Nat
  OBVIOUS
<1>2. ASSUME NEW p \in 1..(n + 1), \A q \in 1..(n + 1) : q > p => Good(q)
      PROVE  Good(p)
  BY <1>2, RendersOn
<1>. HIDE DEF Good, n
<1>3. 0 \in T
  <2>1. \A p \in 1..(n + 1) : p + 0 >= n + 1 => Good(p)
    BY <1>1, <1>2
  <2>. QED BY <2>1
<1>4. ASSUME NEW j \in Nat, j \in T
      PROVE  j + 1 \in T
  <2>1. ASSUME NEW p \in 1..(n + 1), p + (j + 1) >= n + 1
        PROVE  Good(p)
    <3>1. \A q \in 1..(n + 1) : q > p => q + j >= n + 1
      BY <1>1, <2>1
    <3>. QED BY <1>2, <1>4, <3>1
  <2>. QED BY <2>1
<1>5. Nat \subseteq T
  <2>. HIDE DEF T
  <2>. QED BY <1>3, <1>4, SetInduction
<1>6. Good(1)
  <2>1. n \in T
    BY <1>1, <1>5
  <2>2. 1 \in 1..(n + 1) /\ 1 + n >= n + 1
    BY <1>1
  <2>. QED BY <2>1, <2>2
<1>7. Between(draft, 1)
  <2>1. \A m \in Tokens(draft) : 1 <= m[1]
    BY TokenIs
  <2>. QED BY <2>1 DEF Between
<1>. QED
  BY <1>6, <1>7 DEF Render, Good

\* Whatever the model writes: a draft that is usable renders, and clean.
LEMMA Checked ==
  ASSUME NEW o \in Outcomes
  PROVE  /\ o.usable => o.renders /\ o.clean
         /\ o.clean \in BOOLEAN /\ o.renders \in BOOLEAN
<1> DEFINE outcome(vocab, raw) ==
             [vocab |-> vocab, usable |-> Usable(raw, vocab),
              renders |-> Renders(raw, vocab), clean |-> RendersClean(raw, vocab)]
           vocabs == {Placeholders(r) : r \in Reports}
<1>1. PICK vocab \in vocabs, raw \in RawDrafts : o = outcome(vocab, raw)
  <2>1. o \in {outcome(vocab, raw) : vocab \in vocabs, raw \in RawDrafts}
    BY DEF Outcomes
  <2>. HIDE DEF outcome, vocabs
  <2>. QED BY <2>1
<1>2. /\ o.usable = Usable(raw, vocab) /\ o.renders = Renders(raw, vocab)
      /\ o.clean = RendersClean(raw, vocab)
  BY <1>1, Zenon
<1>10. \A token \in DOMAIN vocab : vocab[token] \in Kinds
  BY <1>1 DEF Placeholders, Kinds
<1> DEFINE sections == parseDraft(raw)
           names == SectionNames \cap DOMAIN raw
<1>3. sections = [s \in names |-> raw[s]]
  BY DEF parseDraft, Restrict
<1>4. DOMAIN sections = names /\ \A s \in names : sections[s] = raw[s] /\ raw[s] \in Seq(Lexemes)
  BY <1>3, NarrativeAssumption
<1>5. \A s \in names : renderSections(sections, vocab)[s] = Render(sections[s], vocab)
  BY <1>4 DEF renderSections
<1>6. ASSUME Usable(raw, vocab), NEW s \in names
      PROVE  Render(sections[s], vocab) \in Seq(Shown)
  <2>1. Validate(sections[s], vocab)
    BY <1>4, <1>6 DEF Usable, ValidateSections
  <2>2. sections[s] \in Seq(Lexemes)
    BY <1>4
  <2>. HIDE DEF sections
  <2>. QED BY <2>1, <2>2, <1>10, PassedRenders
<1>7. Usable(raw, vocab) => Renders(raw, vocab)
  BY <1>4, <1>5, <1>6, ShownIsNoError DEF Renders
<1>8. Usable(raw, vocab) => RendersClean(raw, vocab)
  <2>1. ASSUME NEW t \in Seq(Shown)
        PROVE  Clean(t)
    BY <2>1 DEF Clean, Shown, Braces
  <2>. QED BY <1>4, <1>5, <1>6, <2>1 DEF RendersClean
<1>9. RendersClean(raw, vocab) \in BOOLEAN /\ Renders(raw, vocab) \in BOOLEAN
  BY Zenon DEF RendersClean, Renders
<1>. QED
  BY <1>2, <1>7, <1>8, <1>9, Zenon

-----------------------------------------------------------------------------
(* A request's step, seen from the request alone *)

\* The types, taken apart.
LEMMA Typed ==
  ASSUME NarrativeInv
  PROVE  /\ day \in 0..MaxDay /\ MaxDay \in Nat /\ DailyGenerationCap \in Nat
         /\ report \in [Users -> Reports] /\ viewer \in Users
         /\ count \in [Users -> [0..MaxDay -> Nat]] /\ calls \in [Users -> [0..MaxDay -> Nat]]
         /\ req \in [Slots -> Serving] /\ hook \in Hooks
         /\ Free \in Serving /\ NoProse \in Proses /\ NoAnswer \in Answers
         /\ \A r \in Reports : r \in AnyReport
<1>1. /\ day \in 0..MaxDay /\ MaxDay \in Nat /\ DailyGenerationCap \in Nat
      /\ report \in [Users -> Reports] /\ viewer \in Users
      /\ count \in [Users -> [0..MaxDay -> Nat]] /\ calls \in [Users -> [0..MaxDay -> Nat]]
      /\ req \in [Slots -> Serving] /\ hook \in Hooks
  BY NarrativeAssumption DEF NarrativeInv, NarrativeType
<1>2. Free.report \in AnyReport /\ \A r \in Reports : r \in AnyReport BY DEF AnyReport
<1>3. Free.report.hash \in Hashes BY <1>2 DEF Hashes
<1>4. Free.report.hash = "none" BY DEF Free
<1>5. NoProse \in Proses BY <1>1, <1>3, <1>4 DEF NoProse, Proses
<1>6. NoAnswer \in Answers BY <1>3, <1>4, <1>5 DEF NoAnswer, Answers
<1>7. Free \in Serving
  <2>1. 0 \in 0..MaxDay BY <1>1
  <2>2. [hash |-> "none", computed |-> {}] \in AnyReport BY <1>2 DEF Free
  <2> HIDE DEF AnyReport, NoAnswer, Answers
  <2> QED BY <1>1, <1>6, <2>1, <2>2 DEF Free, Serving
<1> QED BY <1>1, <1>2, <1>5, <1>6, <1>7

\* What a request may come to, given that a browser's call waits for it or not.
Fits(q, mine) ==
  /\ q \in Serving
  /\ q.at = "store" => q.answer.prose.user = q.user /\ q.answer.prose.hash = q.report.hash
  /\ q.answer.state = "ok" => q.at = "answered" /\ q.answer.prose.hash = q.answer.hash
  /\ q.answer.prose.clean /\ q.answer.reason # "unrenderable"
  /\ mine => /\ q.at # "free" /\ q.user = viewer
             /\ q.answer.state = "ok" => q.answer.prose.user = viewer

\* A call of the browser waits for the slot.
Mine(s) == \E c \in hook.calls : c.slot = s

\* The invariant, about one request.
LEMMA FitsNow == ASSUME NarrativeInv, NEW s \in Slots PROVE Fits(req[s], Mine(s))
<1>1. req[s] \in Serving BY Typed
<1> QED BY <1>1 DEF Fits, Mine, NarrativeInv, ProseIsOwn, ProseIsChecked, ValidatedDraftsRender

\* An answer fits, if its prose is checked and is of its own report and reader.
LEMMA AnswerFits ==
  ASSUME NarrativeInv, NEW s \in Slots, NEW state \in {"ok", "unavailable"},
         NEW reason \in {"none", "nothing", "notConfigured", "overCap", "failed"},
         NEW prose \in Proses, prose.clean,
         state = "ok" => prose.hash = req[s].report.hash /\ (Mine(s) => prose.user = viewer)
  PROVE  Fits(Answer(s, state, reason, prose), Mine(s)) /\ Answer(s, state, reason, prose).at = "answered"
<1> DEFINE a == [state |-> state, reason |-> reason, hash |-> req[s].report.hash, prose |-> prose]
           q == Answer(s, state, reason, prose)
<1>1. Free \in Serving /\ req[s] \in Serving BY Typed
<1>2. req[s].report \in AnyReport BY <1>1 DEF Serving
<1>3. a \in Answers
  <2>1. req[s].report.hash \in Hashes BY <1>2 DEF Hashes
  <2> HIDE DEF Proses, Hashes
  <2> QED BY <2>1 DEF Answers
<1>4. a.state = state /\ a.reason = reason /\ a.hash = req[s].report.hash /\ a.prose = prose
  OBVIOUS
<1>5. q = [Free EXCEPT !.at = "answered", !.answer = a] BY DEF Answer
<1> HIDE DEF a, q
<1>6. q \in Serving /\ q.at = "answered" /\ q.answer = a /\ q.user = Free.user
  BY <1>1, <1>3, <1>5 DEF Serving
<1>7. Free.user = viewer BY DEF Free
<1> QED BY <1>4, <1>6, <1>7 DEF Fits, q

-----------------------------------------------------------------------------
(* The bill *)

\* The model calls still owed can be counted.
LEMMA OwedFinite ==
  ASSUME NEW u, NEW d PROVE IsFiniteSet(Owed(u, d)) /\ Cardinality(Owed(u, d)) \in Nat
<1>1. IsFiniteSet({0, 1})
  <2>1. IsFiniteSet({}) BY FS_EmptySet
  <2>2. IsFiniteSet({} \cup {0}) BY <2>1, FS_AddElement
  <2>3. IsFiniteSet(({} \cup {0}) \cup {1}) BY <2>2, FS_AddElement
  <2>4. ({} \cup {0}) \cup {1} = {0, 1} OBVIOUS
  <2> QED BY <2>3, <2>4
<1>2. IsFiniteSet(Slots \X {0, 1}) BY <1>1, NarrativeAssumption, FS_Product
<1>3. Owed(u, d) \subseteq Slots \X {0, 1} BY DEF Owed
<1> QED BY <1>2, <1>3, FS_Subset, FS_CardinalityType

\* A set with one more element.
LEMMA OneMore ==
  ASSUME NEW S, IsFiniteSet(S), NEW x
  PROVE  /\ IsFiniteSet(S \cup {x}) /\ Cardinality(S \cup {x}) \in Nat
         /\ Cardinality(S \cup {x}) <= Cardinality(S) + 1
<1>1. IsFiniteSet(S \cup {x}) BY FS_AddElement
<1>2. Cardinality(S \cup {x}) \in Nat /\ Cardinality(S) \in Nat BY <1>1, FS_CardinalityType
<1>3. Cardinality(S \cup {x}) = Cardinality(S) \/ Cardinality(S \cup {x}) = Cardinality(S) + 1
  BY FS_AddElement
<1> QED BY <1>1, <1>2, <1>3

\* A step that begins no generation leaves no more to pay.
LEMMA OwedShrinks ==
  ASSUME NarrativeInv, NEW s \in Slots, NEW q, req' = [req EXCEPT ![s] = q],
         q.at = "draft" => /\ req[s].at = "draft" /\ q.user = req[s].user
                           /\ q.day = req[s].day /\ req[s].tries <= q.tries
                           /\ q.tries \in {0, 1},
         NEW u, NEW d
  PROVE  Owed(u, d)' \subseteq Owed(u, d)
<1>1. req \in [Slots -> Serving] /\ req[s].tries \in {0, 1} BY Typed DEF Serving
<1> SUFFICES ASSUME NEW a \in Slots \X {0, 1}, req'[a[1]].at = "draft",
                    req'[a[1]].user = u, req'[a[1]].day = d, req'[a[1]].tries <= a[2]
             PROVE  a \in Owed(u, d)
  BY DEF Owed
<1>2. CASE a[1] = s
  <2>1. req'[s] = q BY <1>1
  <2>2. /\ req[s].at = "draft" /\ req[s].user = u /\ req[s].day = d
        /\ req[s].tries <= q.tries /\ q.tries <= a[2] /\ q.tries \in {0, 1}
    BY <1>2, <2>1
  <2>3. a[2] \in {0, 1} OBVIOUS
  <2>4. req[s].tries <= a[2] BY <1>1, <2>2, <2>3
  <2> QED BY <1>2, <2>2, <2>4 DEF Owed
<1>3. CASE a[1] # s
  <2>1. req'[a[1]] = req[a[1]] BY <1>1, <1>3
  <2> QED BY <2>1 DEF Owed
<1> QED BY <1>2, <1>3

\* A step that pays nothing and owes no more stays covered.
LEMMA CoveredShrinks ==
  ASSUME NarrativeInv, UNCHANGED <<count, calls>>,
         \A u \in Users, d \in 0..MaxDay : Owed(u, d)' \subseteq Owed(u, d)
  PROVE  Covered'
<1> SUFFICES ASSUME NEW u \in Users, NEW d \in 0..MaxDay
             PROVE  LET bill == calls[u][d] + Cardinality(Owed(u, d)')
                    IN bill <= 2 * count[u][d] /\ bill <= 2 * DailyGenerationCap
  BY DEF Covered
<1> DEFINE o == Cardinality(Owed(u, d))
           p == Cardinality(Owed(u, d)')
<1>1. p <= o /\ o \in Nat /\ p \in Nat
  BY OwedFinite, FS_Subset, FS_CardinalityType
<1>2. calls[u][d] \in Nat /\ count[u][d] \in Nat /\ DailyGenerationCap \in Nat BY Typed
<1>3. calls[u][d] + o <= 2 * count[u][d] /\ calls[u][d] + o <= 2 * DailyGenerationCap
  BY DEF NarrativeInv, Covered
<1> HIDE DEF o, p
<1>4. calls[u][d] + p <= 2 * count[u][d] /\ calls[u][d] + p <= 2 * DailyGenerationCap
  BY <1>1, <1>2, <1>3
<1> QED BY <1>4 DEF p

\* A model call uses up one that was owed.
LEMMA CoveredPays ==
  ASSUME NarrativeInv, NEW s \in Slots, NEW q, req' = [req EXCEPT ![s] = q],
         req[s].at = "draft", Pay(s), UNCHANGED count,
         q.at = "draft" => /\ q.user = req[s].user /\ q.day = req[s].day
                           /\ req[s].tries = 0 /\ q.tries = 1
  PROVE  Covered'
<1> SUFFICES ASSUME NEW u \in Users, NEW d \in 0..MaxDay
             PROVE  LET bill == calls'[u][d] + Cardinality(Owed(u, d)')
                    IN bill <= 2 * count[u][d] /\ bill <= 2 * DailyGenerationCap
  BY DEF Covered
<1> DEFINE o == Cardinality(Owed(u, d))
           p == Cardinality(Owed(u, d)')
           x == <<s, req[s].tries>>
<1>1. req \in [Slots -> Serving] /\ req[s].tries \in {0, 1} BY Typed DEF Serving
<1>2. Owed(u, d)' \subseteq Owed(u, d)
  <2>1. q.at = "draft" => /\ req[s].at = "draft" /\ q.user = req[s].user
                          /\ q.day = req[s].day /\ req[s].tries <= q.tries
                          /\ q.tries \in {0, 1}
    OBVIOUS
  <2> QED BY <2>1, OwedShrinks
<1>3. p <= o /\ o \in Nat /\ p \in Nat
  BY <1>2, OwedFinite, FS_Subset, FS_CardinalityType
<1>4. calls[u][d] \in Nat /\ count[u][d] \in Nat /\ DailyGenerationCap \in Nat
      /\ calls \in [Users -> [0..MaxDay -> Nat]]
  BY Typed
<1>5. calls[u][d] + o <= 2 * count[u][d] /\ calls[u][d] + o <= 2 * DailyGenerationCap
  BY DEF NarrativeInv, Covered
<1>6. CASE req[s].user = u /\ req[s].day = d
  <2>1. x \in Owed(u, d)
    <3>1. x \in Slots \X {0, 1} /\ x[1] = s /\ x[2] = req[s].tries BY <1>1
    <3>2. req[s].tries <= req[s].tries BY <1>1
    <3> QED BY <1>6, <3>1, <3>2 DEF Owed
  <2>2. x \notin Owed(u, d)'
    <3>1. req'[s] = q BY <1>1
    <3>2. x[1] = s /\ x[2] = req[s].tries OBVIOUS
    <3>3. q.at = "draft" => ~(q.tries <= req[s].tries) OBVIOUS
    <3> QED BY <3>1, <3>2, <3>3 DEF Owed
  <2> HIDE DEF x
  <2>3. Owed(u, d)' \subseteq Owed(u, d) \ {x} BY <1>2, <2>2
  <2>4. IsFiniteSet(Owed(u, d) \ {x}) /\ Cardinality(Owed(u, d) \ {x}) = o - 1
    BY <2>1, OwedFinite, FS_RemoveElement
  <2>5. p <= o - 1 BY <2>3, <2>4, FS_Subset
  <2>6. calls'[u][d] = calls[u][d] + 1 BY <1>4, <1>6 DEF Pay
  <2>7. (calls[u][d] + 1) + p <= calls[u][d] + o
    <3> HIDE DEF o, p
    <3> QED BY <1>3, <1>4, <2>5
  <2>8. /\ calls'[u][d] + p <= 2 * count[u][d]
        /\ calls'[u][d] + p <= 2 * DailyGenerationCap
    <3> DEFINE k == calls[u][d]
               n == count[u][d]
    <3>1. /\ k \in Nat /\ n \in Nat /\ k + o <= 2 * n /\ k + o <= 2 * DailyGenerationCap
          /\ (k + 1) + p <= k + o /\ DailyGenerationCap \in Nat /\ o \in Nat /\ p \in Nat
      BY <1>3, <1>4, <1>5, <2>7
    <3> HIDE DEF o, p, k, n
    <3>2. (k + 1) + p <= 2 * n /\ (k + 1) + p <= 2 * DailyGenerationCap BY <3>1
    <3> QED BY <2>6, <3>2 DEF k, n
  <2> QED BY <2>8 DEF p
<1>7. CASE ~(req[s].user = u /\ req[s].day = d)
  <2>1. calls'[u][d] = calls[u][d]
    <3>1. calls' = [calls EXCEPT ![req[s].user][req[s].day] = @ + 1] BY DEF Pay
    <3> QED BY <1>4, <1>7, <3>1
  <2> HIDE DEF o, p
  <2>2. calls'[u][d] + p <= 2 * count[u][d] /\ calls'[u][d] + p <= 2 * DailyGenerationCap
    BY <1>3, <1>4, <1>5, <2>1, SMTT(30)
  <2> QED BY <2>2 DEF p
<1> QED BY <1>6, <1>7

\* A generation that is allowed owes two calls, and took one of the count.
LEMMA CoveredAllows ==
  ASSUME NarrativeInv, NEW s \in Slots, NEW q, req' = [req EXCEPT ![s] = q],
         req[s].at # "draft", q.user = req[s].user, q.day = day, UNCHANGED calls,
         count' = [count EXCEPT ![req[s].user][day] = count[req[s].user][day] + 1],
         q.at = "draft" => count[req[s].user][day] + 1 <= DailyGenerationCap
  PROVE  Covered'
<1> SUFFICES ASSUME NEW u \in Users, NEW d \in 0..MaxDay
             PROVE  LET bill == calls[u][d] + Cardinality(Owed(u, d)')
                    IN bill <= 2 * count'[u][d] /\ bill <= 2 * DailyGenerationCap
  BY DEF Covered
<1> DEFINE O == Owed(u, d)
           P == Owed(u, d)'
           k == calls[u][d]
           n == count[u][d]
           o == Cardinality(O)
           p == Cardinality(P)
<1>1. req \in [Slots -> Serving] BY Typed
<1>2. /\ k \in Nat /\ n \in Nat /\ DailyGenerationCap \in Nat
      /\ count \in [Users -> [0..MaxDay -> Nat]]
  BY Typed
<1>3. k + o <= 2 * n /\ k + o <= 2 * DailyGenerationCap BY DEF NarrativeInv, Covered
<1>4. IsFiniteSet(O) /\ o \in Nat BY OwedFinite
<1>5. \A a \in P : a \in O \/ /\ a \in {<<s, 0>>, <<s, 1>>} /\ q.at = "draft"
                              /\ req[s].user = u /\ day = d
  <2> SUFFICES ASSUME NEW a \in Slots \X {0, 1}, req'[a[1]].at = "draft",
                      req'[a[1]].user = u, req'[a[1]].day = d, req'[a[1]].tries <= a[2],
                      a \notin O
               PROVE  /\ a \in {<<s, 0>>, <<s, 1>>} /\ q.at = "draft"
                      /\ req[s].user = u /\ day = d
    BY DEF Owed
  <2>1. a[1] = s
    <3> SUFFICES ASSUME a[1] # s PROVE FALSE OBVIOUS
    <3>1. req'[a[1]] = req[a[1]] BY <1>1
    <3> QED BY <3>1 DEF Owed
  <2>2. req'[s] = q BY <1>1
  <2>3. a = <<a[1], a[2]>> /\ a[2] \in {0, 1} OBVIOUS
  <2> QED BY <2>1, <2>2, <2>3
<1> HIDE DEF O, P, k, n, o, p
<1>6. CASE P \subseteq O
  <2>1. p <= o /\ p \in Nat BY <1>4, <1>6, FS_Subset, FS_CardinalityType DEF o, p
  <2>2. count'[u][d] = n \/ count'[u][d] = n + 1 BY <1>2 DEF n
  <2>3. k + p <= 2 * n /\ k + p <= 2 * (n + 1) /\ k + p <= 2 * DailyGenerationCap
    BY <1>2, <1>3, <1>4, <2>1
  <2> QED BY <2>2, <2>3 DEF k, p, P
<1>7. CASE ~(P \subseteq O)
  <2>1. q.at = "draft" /\ req[s].user = u /\ day = d BY <1>5, <1>7
  <2>2. P \subseteq (O \cup {<<s, 0>>}) \cup {<<s, 1>>} BY <1>5
  <2>3. /\ IsFiniteSet(O \cup {<<s, 0>>}) /\ Cardinality(O \cup {<<s, 0>>}) \in Nat
        /\ Cardinality(O \cup {<<s, 0>>}) <= o + 1
    BY <1>4, OneMore DEF o
  <2> DEFINE T == O \cup {<<s, 0>>}
             U == T \cup {<<s, 1>>}
  <2> HIDE DEF T
  <2>4. /\ IsFiniteSet(U) /\ Cardinality(U) \in Nat /\ Cardinality(U) <= Cardinality(T) + 1
    BY <2>3, OneMore DEF T
  <2>5. p <= Cardinality(U) /\ p \in Nat BY <2>2, <2>4, FS_Subset, FS_CardinalityType DEF T, p
  <2>6. p <= o + 2
    <3> DEFINE t == Cardinality(T)
               w == Cardinality(U)
    <3>1. t \in Nat /\ t <= o + 1 /\ w \in Nat /\ w <= t + 1 /\ p <= w
      BY <2>3, <2>4, <2>5 DEF T
    <3> HIDE DEF t, w
    <3> QED BY <1>4, <2>5, <3>1
  <2>7. count'[u][d] = n + 1 /\ n + 1 <= DailyGenerationCap BY <1>2, <2>1 DEF n
  <2>8. k + p <= 2 * (n + 1) /\ 2 * (n + 1) <= 2 * DailyGenerationCap
    BY <1>2, <1>3, <1>4, <2>5, <2>6, <2>7
  <2>9. k + p <= 2 * DailyGenerationCap BY <1>2, <2>5, <2>8
  <2> QED BY <2>7, <2>8, <2>9 DEF k, p, P
<1> QED BY <1>6, <1>7

-----------------------------------------------------------------------------
(* The handler keeps the invariant *)

\* A step of one request, by what it makes of the request and of the cache.
LEMMA RequestKeeps ==
  ASSUME NarrativeInv, NEW s \in Slots, NEW q, req' = [req EXCEPT ![s] = q],
         Fits(q, Mine(s)), Covered',
         cache' \in SUBSET [user : Users, hash : Hashes, prose : Proses],
         \A e \in cache' : e.prose.user = e.user /\ e.prose.hash = e.hash /\ e.prose.clean,
         count' \in [Users -> [0..MaxDay -> Nat]],
         calls' \in [Users -> [0..MaxDay -> Nat]],
         UNCHANGED <<day, report, hook>>
  PROVE  NarrativeInv'
<1>1. req \in [Slots -> Serving] /\ q \in Serving BY Typed DEF Fits
<1>2. req' \in [Slots -> Serving] BY <1>1
<1>3. \A t \in Slots : req'[t] = IF t = s THEN q ELSE req[t] BY <1>1
<1>4. NarrativeType' BY <1>2 DEF NarrativeType, NarrativeInv
<1>5. \A t \in Slots : Fits(req'[t], Mine(t)) BY <1>3, FitsNow
<1>6. \A c \in hook.calls : c.slot \in Slots /\ Mine(c.slot)
  BY Typed DEF Hooks, Mine
<1>7. ProseIsOwn'
  BY <1>5, <1>6 DEF ProseIsOwn, Fits, NarrativeInv
<1>8. ProseIsChecked' /\ ValidatedDraftsRender'
  BY <1>5 DEF ProseIsChecked, ValidatedDraftsRender, Fits
<1> QED BY <1>4, <1>7, <1>8 DEF NarrativeInv

\* The invariant, about the cache.
LEMMA CacheFacts ==
  ASSUME NarrativeInv
  PROVE  /\ cache \in SUBSET [user : Users, hash : Hashes, prose : Proses]
         /\ \A e \in cache : e.prose.user = e.user /\ e.prose.hash = e.hash /\ e.prose.clean
BY DEF NarrativeInv, NarrativeType, ProseIsOwn, ProseIsChecked

\* A step that keeps the cache, the count and the calls and begins no generation.
LEMMA QuietStep ==
  ASSUME NarrativeInv, NEW s \in Slots, NEW q, req' = [req EXCEPT ![s] = q],
         Fits(q, Mine(s)), q.at # "draft",
         UNCHANGED <<cache, count, calls, day, report, hook>>
  PROVE  NarrativeInv'
<1>1. Covered' BY OwedShrinks, CoveredShrinks
<1>2. /\ count' \in [Users -> [0..MaxDay -> Nat]] /\ calls' \in [Users -> [0..MaxDay -> Nat]]
  BY Typed
<1> QED BY <1>1, <1>2, CacheFacts, RequestKeeps

\* The absent prose shows nothing.
LEMMA NoProseIsClean == NoProse.clean
BY DEF NoProse

\* An answer without prose.
LEMMA UnavailableFits ==
  ASSUME NarrativeInv, NEW s \in Slots,
         NEW reason \in {"none", "nothing", "notConfigured", "overCap", "failed"}
  PROVE  /\ Fits(Answer(s, "unavailable", reason, NoProse), Mine(s))
         /\ Answer(s, "unavailable", reason, NoProse).at = "answered"
<1>1. NoProse \in Proses /\ NoProse.clean BY Typed, NoProseIsClean
<1> QED BY <1>1, AnswerFits

\* A hit serves the prose of the request's own user and hash; a miss goes on or ends unpaid.
LEMMA CacheGetKeeps ==
  ASSUME NarrativeInv, NEW s \in Slots, CacheGet(s), UNCHANGED <<day, report, hook>>
  PROVE  NarrativeInv'
<1>1. req[s].at = "cache" /\ UNCHANGED <<cache, count, calls>> BY DEF CacheGet
<1>2. req[s] \in Serving /\ Fits(req[s], Mine(s)) BY Typed, FitsNow
<1>3. ASSUME NEW e \in CachedNarrative(s), writeNarrative(s, e.prose) PROVE NarrativeInv'
  <2>1. /\ e.user = req[s].user /\ e.hash = req[s].report.hash
        /\ e.prose \in Proses /\ e.prose.clean
        /\ e.prose.user = e.user /\ e.prose.hash = e.hash
    BY CacheFacts DEF CachedNarrative
  <2>2. Mine(s) => e.prose.user = viewer BY <1>2, <2>1 DEF Fits
  <2> DEFINE prose == e.prose
             q == Answer(s, "ok", "none", prose)
  <2>3. prose \in Proses /\ prose.clean /\ prose.hash = req[s].report.hash
        /\ (Mine(s) => prose.user = viewer)
    BY <2>1, <2>2
  <2> HIDE DEF prose
  <2>4. Fits(q, Mine(s)) /\ q.at = "answered" BY <2>3, AnswerFits
  <2>5. req' = [req EXCEPT ![s] = q] BY <1>3 DEF writeNarrative, prose
  <2> HIDE DEF q
  <2> QED BY <1>1, <2>4, <2>5, QuietStep
<1>4. ASSUME NEW reason \in {"nothing", "notConfigured"}, writeUnavailable(s, reason)
      PROVE  NarrativeInv'
  <2> DEFINE q == Answer(s, "unavailable", reason, NoProse)
  <2>1. Fits(q, Mine(s)) /\ q.at = "answered" BY UnavailableFits
  <2>2. req' = [req EXCEPT ![s] = q] BY <1>4 DEF writeUnavailable
  <2> HIDE DEF q
  <2> QED BY <1>1, <2>1, <2>2, QuietStep
<1>5. CASE req' = [req EXCEPT ![s].at = "allow"]
  <2> DEFINE q == [req[s] EXCEPT !.at = "allow"]
  <2>1. q \in Serving /\ q.at = "allow" BY <1>2 DEF Serving
  <2>2. q.answer = req[s].answer /\ q.user = req[s].user BY <1>2 DEF Serving
  <2>3. req' = [req EXCEPT ![s] = q] BY <1>5, Typed
  <2> HIDE DEF q
  <2>4. Fits(q, Mine(s)) BY <1>1, <1>2, <2>1, <2>2 DEF Fits
  <2> QED BY <1>1, <2>1, <2>3, <2>4, QuietStep
<1> QED BY <1>3, <1>4, <1>5 DEF CacheGet, GetMiss

\* A generation begins only with its half of an allowance counted first.
LEMMA AllowKeeps ==
  ASSUME NarrativeInv, NEW s \in Slots, Allow(s), UNCHANGED <<day, report, hook>>
  PROVE  NarrativeInv'
<1> DEFINE u == req[s].user
           n == count[u][day] + 1
<1>1. req[s].at = "allow" /\ UNCHANGED <<cache, calls>> BY DEF Allow
<1>2. /\ req[s] \in Serving /\ Fits(req[s], Mine(s)) /\ u \in Users /\ day \in 0..MaxDay
      /\ count \in [Users -> [0..MaxDay -> Nat]] /\ calls \in [Users -> [0..MaxDay -> Nat]]
      /\ n \in Nat
  <2>1. req[s] \in Serving /\ Fits(req[s], Mine(s)) BY Typed, FitsNow
  <2>2. u \in Users BY <2>1 DEF Serving
  <2> QED BY <2>1, <2>2, Typed
<1>3. ASSUME NEW reason \in {"overCap", "failed"}, writeUnavailable(s, reason),
             \/ UNCHANGED count \/ count' = [count EXCEPT ![u][day] = n]
      PROVE  NarrativeInv'
  <2> DEFINE q == Answer(s, "unavailable", reason, NoProse)
  <2>1. Fits(q, Mine(s)) /\ q.at = "answered" BY UnavailableFits
  <2>2. req' = [req EXCEPT ![s] = q] BY <1>3 DEF writeUnavailable
  <2> HIDE DEF q
  <2>3. CASE UNCHANGED count BY <1>1, <2>1, <2>2, <2>3, QuietStep
  <2>4. CASE count' = [count EXCEPT ![u][day] = n]
    <3>1. count' \in [Users -> [0..MaxDay -> Nat]] BY <1>2, <2>4
    <3>2. \A v \in Users, d \in 0..MaxDay : Owed(v, d)' \subseteq Owed(v, d)
      BY <2>1, <2>2, OwedShrinks
    <3>3. Covered'
      <4> SUFFICES ASSUME NEW v \in Users, NEW d \in 0..MaxDay
                   PROVE  LET bill == calls[v][d] + Cardinality(Owed(v, d)')
                          IN bill <= 2 * count'[v][d] /\ bill <= 2 * DailyGenerationCap
        BY <1>1 DEF Covered
      <4> DEFINE o == Cardinality(Owed(v, d))
                 p == Cardinality(Owed(v, d)')
                 k == calls[v][d]
                 m == count[v][d]
      <4>1. p <= o /\ o \in Nat /\ p \in Nat
        BY <3>2, OwedFinite, FS_Subset, FS_CardinalityType
      <4>2. k \in Nat /\ m \in Nat /\ DailyGenerationCap \in Nat BY <1>2, Typed
      <4>3. k + o <= 2 * m /\ k + o <= 2 * DailyGenerationCap
        BY DEF NarrativeInv, Covered
      <4>4. count'[v][d] = m \/ count'[v][d] = m + 1 BY <1>2, <2>4
      <4> HIDE DEF o, p, k, m
      <4>5. k + p <= 2 * m /\ k + p <= 2 * (m + 1) /\ k + p <= 2 * DailyGenerationCap
        BY <4>1, <4>2, <4>3
      <4> QED BY <4>4, <4>5 DEF p, k
    <3>4. calls' \in [Users -> [0..MaxDay -> Nat]] BY <1>1, <1>2
    <3> QED BY <1>1, <2>1, <2>2, <3>1, <3>3, <3>4, CacheFacts, RequestKeeps
  <2> QED BY <1>3, <2>3, <2>4
<1>4. CASE /\ count' = [count EXCEPT ![u][day] = n] /\ n <= DailyGenerationCap
           /\ req' = [req EXCEPT ![s].at = "draft", ![s].day = day]
  <2> DEFINE q == [req[s] EXCEPT !.at = "draft", !.day = day]
  <2>1. /\ q \in Serving /\ q.at = "draft" /\ q.day = day
        /\ q.answer = req[s].answer /\ q.user = req[s].user
    BY <1>2 DEF Serving
  <2>2. req' = [req EXCEPT ![s] = q] BY <1>4, Typed
  <2> HIDE DEF q
  <2>3. Fits(q, Mine(s)) BY <1>1, <1>2, <2>1 DEF Fits
  <2>4. Covered' BY <1>1, <1>4, <2>1, <2>2, CoveredAllows
  <2>5. count' \in [Users -> [0..MaxDay -> Nat]] BY <1>2, <1>4
  <2>6. calls' \in [Users -> [0..MaxDay -> Nat]] BY <1>1, <1>2
  <2> QED BY <1>1, <2>2, <2>3, <2>4, <2>5, <2>6, CacheFacts, RequestKeeps
<1> QED BY <1>3, <1>4 DEF Allow

\* A paid call: only a draft that passed comes to prose, and it renders clean.
LEMMA GenerateKeeps ==
  ASSUME NarrativeInv, NEW s \in Slots, Generate(s), UNCHANGED <<day, report, hook>>
  PROVE  NarrativeInv'
<1>1. req[s].at = "draft" /\ Pay(s) /\ UNCHANGED <<cache, count>> BY DEF Generate
<1>2. /\ req[s] \in Serving /\ Fits(req[s], Mine(s)) /\ req[s].user \in Users
      /\ req[s].report \in AnyReport /\ req[s].answer \in Answers
      /\ req[s].day \in 0..MaxDay /\ req[s].tries \in {0, 1}
  BY Typed, FitsNow DEF Serving
<1>3. /\ count' \in [Users -> [0..MaxDay -> Nat]] /\ calls' \in [Users -> [0..MaxDay -> Nat]]
  <2>1. /\ calls' = [calls EXCEPT ![req[s].user][req[s].day] = @ + 1]
        /\ calls \in [Users -> [0..MaxDay -> Nat]]
    BY <1>1, Typed DEF Pay
  <2> DEFINE row == calls[req[s].user]
             paid == [row EXCEPT ![req[s].day] = row[req[s].day] + 1]
  <2>2. calls' \in [Users -> [0..MaxDay -> Nat]]
    <3>1. row \in [0..MaxDay -> Nat]
      <4>1. \A u \in Users : calls[u] \in [0..MaxDay -> Nat] BY <2>1
      <4> QED BY <1>2, <4>1
    <3> DEFINE n == row[req[s].day]
    <3>2. n \in Nat BY <1>2, <3>1
    <3>3. n + 1 \in Nat BY <3>2
    <3>4. calls' = [calls EXCEPT ![req[s].user] = paid] BY <2>1
    <3> HIDE DEF row, n
    <3>5. paid \in [0..MaxDay -> Nat] BY <3>1, <3>3 DEF n
    <3> HIDE DEF paid
    <3> QED BY <2>1, <3>4, <3>5
  <2> QED BY <1>1, <2>2, Typed
<1>4. ASSUME NEW q, req' = [req EXCEPT ![s] = q], Fits(q, Mine(s)), q.at # "draft"
      PROVE  NarrativeInv'
  <2>1. Covered' BY <1>1, <1>4, CoveredPays
  <2> QED BY <1>1, <1>3, <1>4, <2>1, CacheFacts, RequestKeeps
<1>5. CASE writeUnavailable(s, "failed")
  <2> DEFINE q == Answer(s, "unavailable", "failed", NoProse)
  <2>1. Fits(q, Mine(s)) /\ q.at = "answered" BY UnavailableFits
  <2>2. req' = [req EXCEPT ![s] = q] BY <1>5 DEF writeUnavailable
  <2> HIDE DEF q
  <2> QED BY <1>4, <2>1, <2>2
<1>6. CASE req[s].tries # 1 /\ req' = [req EXCEPT ![s].tries = 1]
  <2> DEFINE q == [req[s] EXCEPT !.tries = 1]
  <2>1. /\ q \in Serving /\ q.at = "draft" /\ q.day = req[s].day /\ q.tries = 1
        /\ q.answer = req[s].answer /\ q.user = req[s].user /\ req[s].tries = 0
    BY <1>1, <1>2, <1>6 DEF Serving
  <2>2. req' = [req EXCEPT ![s] = q] BY <1>6, Typed
  <2> HIDE DEF q
  <2>3. Fits(q, Mine(s)) BY <1>1, <1>2, <2>1 DEF Fits
  <2>4. Covered' BY <1>1, <2>1, <2>2, CoveredPays
  <2> QED BY <1>1, <1>3, <2>2, <2>3, <2>4, CacheFacts, RequestKeeps
<1>7. ASSUME NEW o \in Outcomes, o.usable, Rendered(s, o) PROVE NarrativeInv'
  <2>1. o.renders /\ o.clean /\ o.clean \in BOOLEAN BY <1>7, Checked
  <2> DEFINE prose == [user |-> req[s].user, hash |-> req[s].report.hash, clean |-> o.clean]
             a == [req[s].answer EXCEPT !.prose = prose]
             q == [req[s] EXCEPT !.at = "store", !.answer = a]
  <2>2. req' = [req EXCEPT ![s].at = "store", ![s].answer.prose = prose]
    BY <2>1, <1>7 DEF Rendered
  <2>3. /\ prose \in Proses /\ prose.user = req[s].user /\ prose.hash = req[s].report.hash
        /\ prose.clean
    BY <1>2, <2>1 DEF Proses, Hashes
  <2> HIDE DEF prose
  <2>4. a \in Answers /\ a.prose = prose /\ a.state = req[s].answer.state
        /\ a.reason = req[s].answer.reason
    BY <1>2, <2>3 DEF Answers
  <2>5. req' = [req EXCEPT ![s] = q]
    <3>1. req = [t \in Slots |-> req[t]] BY Typed
    <3>2. [req EXCEPT ![s].at = "store", ![s].answer.prose = prose] = [req EXCEPT ![s] = q]
      BY <3>1, Zenon
    <3> QED BY <2>2, <3>2
  <2> HIDE DEF a
  <2>6. q \in Serving /\ q.at = "store" /\ q.answer = a /\ q.user = req[s].user
        /\ q.report = req[s].report
    BY <1>2, <2>4 DEF Serving
  <2> HIDE DEF q
  <2>7. Fits(q, Mine(s)) BY <1>1, <1>2, <2>3, <2>4, <2>6 DEF Fits
  <2> QED BY <1>4, <2>5, <2>6, <2>7
<1> QED BY <1>5, <1>6, <1>7 DEF Generate

\* The new prose is stored under its own user and hash, and served.
LEMMA CacheSetKeeps ==
  ASSUME NarrativeInv, NEW s \in Slots, CacheSet(s), UNCHANGED <<day, report, hook>>
  PROVE  NarrativeInv'
<1> DEFINE prose == req[s].answer.prose
           entry == [user |-> req[s].user, hash |-> req[s].report.hash, prose |-> prose]
           q == Answer(s, "ok", "none", prose)
<1>1. /\ req[s].at = "store" /\ UNCHANGED <<count, calls>>
      /\ writeNarrative(s, prose)
      /\ cache' \subseteq cache \cup {entry}
  BY DEF CacheSet
<1>2. req[s] \in Serving /\ Fits(req[s], Mine(s)) BY Typed, FitsNow
<1>3. /\ prose.user = req[s].user /\ prose.hash = req[s].report.hash /\ prose.clean
      /\ (Mine(s) => prose.user = viewer)
  BY <1>1, <1>2 DEF Fits
<1>4. prose \in Proses /\ req[s].user \in Users /\ req[s].report.hash \in Hashes
  BY <1>2 DEF Serving, Answers, Hashes
<1> HIDE DEF prose
<1>5. Fits(q, Mine(s)) /\ q.at = "answered" BY <1>3, <1>4, AnswerFits
<1>6. req' = [req EXCEPT ![s] = q] BY <1>1 DEF writeNarrative
<1> HIDE DEF q
<1>7. Covered' BY <1>1, <1>5, <1>6, OwedShrinks, CoveredShrinks
<1>8. /\ entry \in [user : Users, hash : Hashes, prose : Proses]
      /\ entry.prose = prose /\ entry.user = req[s].user /\ entry.hash = req[s].report.hash
  BY <1>4
<1> HIDE DEF entry
<1>9. /\ cache' \in SUBSET [user : Users, hash : Hashes, prose : Proses]
      /\ \A e \in cache' : e.prose.user = e.user /\ e.prose.hash = e.hash /\ e.prose.clean
  BY <1>1, <1>3, <1>8, CacheFacts
<1>10. /\ count' \in [Users -> [0..MaxDay -> Nat]] /\ calls' \in [Users -> [0..MaxDay -> Nat]]
  BY <1>1, Typed
<1> QED BY <1>5, <1>6, <1>7, <1>9, <1>10, RequestKeeps

\* What a free slot holds.
LEMMA FreeIs ==
  /\ Free.at = "free" /\ Free.user = viewer /\ Free.answer = NoAnswer
  /\ NoAnswer.state = "none" /\ NoAnswer.reason = "none" /\ NoAnswer.prose = NoProse
BY DEF Free, NoAnswer

\* A request nobody waits for may disappear, whatever it had come to.
LEMMA GoneKeeps ==
  ASSUME NarrativeInv, NEW s \in Slots, Gone(s), UNCHANGED <<day, report, hook>>
  PROVE  NarrativeInv'
<1>1. /\ ~Mine(s) /\ req' = [req EXCEPT ![s] = Free] /\ UNCHANGED <<cache, count, calls>>
  BY DEF Gone, Mine
<1>2. Fits(Free, Mine(s)) /\ Free.at # "draft"
  BY <1>1, Typed, FreeIs, NoProseIsClean DEF Fits
<1> QED BY <1>1, <1>2, QuietStep

-----------------------------------------------------------------------------
(* The hook keeps the invariant *)

\* The hook changes; the requests change in one slot at most, which no other call
\* is waiting for.
LEMMA HookKeepsInv ==
  ASSUME NarrativeInv, hook' \in Hooks, req' \in [Slots -> Serving],
         \A s \in Slots : /\ Fits(req'[s], \E c \in hook'.calls : c.slot = s)
                          /\ req'[s].at = "draft" => req'[s] = req[s],
         \A c, e \in hook'.calls : c.slot = e.slot => c = e,
         hook'.narrative.state = "ok" =>
            /\ hook'.narrative.prose.user = viewer
            /\ hook'.narrative.prose.hash = hook'.narrative.hash,
         UNCHANGED <<day, report, cache, count, calls>>
  PROVE  NarrativeInv'
<1>1. NarrativeType' BY DEF NarrativeInv, NarrativeType
<1>2. Covered'
  <2>1. \A u \in Users, d \in 0..MaxDay : Owed(u, d)' \subseteq Owed(u, d) BY DEF Owed
  <2> QED BY <2>1, CoveredShrinks
<1>3. ProseIsOwn'
  <2>1. \A c \in hook'.calls : c.slot \in Slots BY DEF Hooks
  <2>2. \A e \in cache' : e.prose.user = e.user /\ e.prose.hash = e.hash BY CacheFacts
  <2>3. \A s \in Slots :
          LET q == req'[s]
          IN /\ q.at = "store" => q.answer.prose.user = q.user /\ q.answer.prose.hash = q.report.hash
             /\ q.answer.state = "ok" => q.at = "answered" /\ q.answer.prose.hash = q.answer.hash
    BY DEF Fits
  <2>4. \A c \in hook'.calls :
          LET q == req'[c.slot]
          IN /\ q.at # "free" /\ q.user = viewer
             /\ q.answer.state = "ok" => q.answer.prose.user = viewer
    BY <2>1 DEF Fits
  <2> QED BY <2>2, <2>3, <2>4 DEF ProseIsOwn
<1>4. ProseIsChecked' /\ ValidatedDraftsRender'
  <2>1. \A s \in Slots : req'[s].answer.prose.clean /\ req'[s].answer.reason # "unrenderable"
    BY DEF Fits
  <2> QED BY <2>1, CacheFacts DEF ProseIsChecked, ValidatedDraftsRender
<1> QED BY <1>1, <1>2, <1>3, <1>4 DEF NarrativeInv

\* The hook, as the steps below change it.
LEMMA HookFacts ==
  ASSUME NarrativeInv
  PROVE  /\ hook \in Hooks /\ hook.narrative \in Answers
         /\ hook.requestId \in Nat /\ hook.inFlightId \in Nat
         /\ hook.calls \in SUBSET [slot : Slots, id : Nat]
         /\ \A c, e \in hook.calls : c.slot = e.slot => c = e
         /\ hook.narrative.state = "ok" =>
              /\ hook.narrative.prose.user = viewer
              /\ hook.narrative.prose.hash = hook.narrative.hash
         /\ \A s \in Slots : Fits(req[s], Mine(s))
<1>1. hook \in Hooks BY Typed
<1>2. /\ hook.narrative \in Answers /\ hook.requestId \in Nat /\ hook.inFlightId \in Nat
      /\ hook.calls \in SUBSET [slot : Slots, id : Nat]
  BY <1>1 DEF Hooks
<1> QED BY <1>1, <1>2, FitsNow DEF NarrativeInv, ProseIsOwn

\* Steps of the hook alone that leave its calls and its narrative, or drop them.
LEMMA HookAlone ==
  ASSUME NarrativeInv, hook' \in Hooks, UNCHANGED <<req, day, report, cache, count, calls>>,
         \/ hook'.calls = hook.calls /\ hook'.narrative = hook.narrative
         \/ hook'.calls = {} /\ hook'.narrative = NoAnswer
  PROVE  NarrativeInv'
<1>1. req' \in [Slots -> Serving] BY Typed
<1>2. \A s \in Slots : Fits(req'[s], \E c \in hook'.calls : c.slot = s)
  <2>1. \A s \in Slots : Fits(req[s], Mine(s)) BY HookFacts
  <2>2. CASE hook'.calls = hook.calls BY <2>1, <2>2 DEF Mine
  <2>3. CASE hook'.calls = {} BY <2>1, <2>3 DEF Fits
  <2> QED BY <2>2, <2>3
<1>3. /\ \A c, e \in hook'.calls : c.slot = e.slot => c = e
      /\ hook'.narrative.state = "ok" =>
            /\ hook'.narrative.prose.user = viewer
            /\ hook'.narrative.prose.hash = hook'.narrative.hash
  BY HookFacts, FreeIs
<1> QED BY <1>1, <1>2, <1>3, HookKeepsInv

\* A request comes in at a free slot, for whom it says.
LEMMA Asked ==
  ASSUME NarrativeInv, NEW s \in Slots, NEW u \in Users, Ask(s, u)
  PROVE  /\ ~Mine(s)
         /\ \E q \in Serving : /\ req' = [req EXCEPT ![s] = q]
                               /\ q.user = u /\ q.at \in {"answered", "cache"}
                               /\ q.answer.state \in {"none", "error"}
                               /\ q.answer.prose = NoProse /\ q.answer.reason = "none"
<1>1. req[s].at = "free" BY DEF Ask
<1>2. ~Mine(s) BY <1>1, FitsNow DEF Fits
<1>3. PICK failed \in BOOLEAN :
        req' = [req EXCEPT ![s] =
         [Free EXCEPT !.at = IF failed THEN "answered" ELSE "cache", !.user = u,
                      !.report = report[u],
                      !.answer.state = IF failed THEN "error" ELSE "none"]]
  BY DEF Ask
<1> DEFINE at == IF failed THEN "answered" ELSE "cache"
           state == IF failed THEN "error" ELSE "none"
           a == [NoAnswer EXCEPT !.state = state]
           q == [Free EXCEPT !.at = at, !.user = u, !.report = report[u], !.answer = a]
<1>4. at \in {"answered", "cache"} /\ state \in {"none", "error"} OBVIOUS
<1>5. Free.answer = NoAnswer BY FreeIs
<1>6. Free \in Serving /\ NoAnswer \in Answers /\ report[u] \in AnyReport BY Typed
<1>7. req' = [req EXCEPT ![s] = q] BY <1>3, <1>5, <1>6 DEF Serving
<1> HIDE DEF at, state
<1>8. /\ a \in Answers /\ a.state = state /\ a.prose = NoProse /\ a.reason = "none"
  BY <1>4, <1>6, FreeIs DEF Answers
<1> HIDE DEF a
<1>9. q \in Serving /\ q.user = u /\ q.at = at /\ q.answer = a
  BY <1>4, <1>6, <1>8 DEF Serving
<1> HIDE DEF q
<1> QED BY <1>2, <1>4, <1>7, <1>8, <1>9

\* A request of any user enters a free slot.
LEMMA AskKeeps ==
  ASSUME NarrativeInv, NEW s \in Slots, NEW u \in Users, Ask(s, u),
         UNCHANGED <<day, report, cache, count, calls, hook>>
  PROVE  NarrativeInv'
<1>1. PICK q \in Serving : /\ req' = [req EXCEPT ![s] = q]
                           /\ q.user = u /\ q.at \in {"answered", "cache"}
                           /\ q.answer.state \in {"none", "error"}
                           /\ q.answer.prose = NoProse /\ q.answer.reason = "none"
  BY Asked
<1>2. ~Mine(s) BY Asked
<1>3. Fits(q, Mine(s)) /\ q.at # "draft" BY <1>1, <1>2, NoProseIsClean DEF Fits
<1> QED BY <1>1, <1>3, QuietStep

\* load makes a call of a slot that no call waits for, or adopts the one in flight.
LEMMA LoadKeeps ==
  ASSUME NarrativeInv, NEW s \in Slots, load(s, TRUE), HookKeeps PROVE NarrativeInv'
<1>1. hook \in Hooks /\ hook.requestId \in Nat /\ hook.inFlightId \in Nat
      /\ UNCHANGED <<day, report, cache, count, calls>>
  BY HookFacts DEF HookKeeps
<1>2. CASE /\ hook' = [hook EXCEPT !.mounted = TRUE, !.requestId = hook.inFlightId]
           /\ UNCHANGED req
  <2>1. /\ hook' \in Hooks /\ hook'.calls = hook.calls /\ hook'.narrative = hook.narrative
    BY <1>1, <1>2 DEF Hooks
  <2> QED BY <1>1, <1>2, <2>1, HookAlone
<1>3. ASSUME Ask(s, viewer),
             hook' = [hook EXCEPT !.mounted = TRUE, !.inFlight = TRUE,
                                  !.requestId = hook.requestId + 1,
                                  !.inFlightId = hook.requestId + 1, !.status = "loading",
                                  !.narrative = NoAnswer,
                                  !.calls = @ \cup {[slot |-> s, id |-> hook.requestId + 1]}]
      PROVE  NarrativeInv'
  <2> DEFINE id == hook.requestId + 1
             c == [slot |-> s, id |-> id]
  <2>1. id \in Nat /\ c \in [slot : Slots, id : Nat] /\ c.slot = s BY <1>1
  <2>2. NoAnswer \in Answers /\ NoAnswer.state = "none" BY Typed, FreeIs
  <2> HIDE DEF id, c
  <2>3. /\ hook' \in Hooks /\ hook'.narrative = NoAnswer /\ hook'.calls = hook.calls \cup {c}
    BY <1>1, <1>3, <2>1, <2>2 DEF Hooks, id, c
  <2>4. PICK q \in Serving : /\ req' = [req EXCEPT ![s] = q]
                             /\ q.user = viewer /\ q.at \in {"answered", "cache"}
                             /\ q.answer.state \in {"none", "error"}
                             /\ q.answer.prose = NoProse /\ q.answer.reason = "none"
    BY <1>3, Asked, Typed
  <2>5. ~Mine(s) BY <1>3, Asked, Typed
  <2>6. req \in [Slots -> Serving] BY Typed
  <2>7. \A t \in Slots : req'[t] = IF t = s THEN q ELSE req[t] BY <2>4, <2>6
  <2>8. req' \in [Slots -> Serving] BY <2>4, <2>6
  <2>9. \A t \in Slots : /\ Fits(req'[t], \E e \in hook'.calls : e.slot = t)
                         /\ req'[t].at = "draft" => req'[t] = req[t]
    <3> TAKE t \in Slots
    <3>1. CASE t = s
      <4>1. req'[t] = q BY <2>7, <3>1
      <4> QED BY <2>4, <4>1, NoProseIsClean DEF Fits
    <3>2. CASE t # s
      <4>1. req'[t] = req[t] BY <2>7, <3>2
      <4>2. (\E e \in hook'.calls : e.slot = t) <=> Mine(t) BY <2>1, <2>3, <3>2 DEF Mine
      <4> QED BY <4>1, <4>2, HookFacts DEF Fits
    <3> QED BY <3>1, <3>2
  <2>10. \A d, e \in hook'.calls : d.slot = e.slot => d = e
    BY <2>1, <2>3, <2>5, HookFacts DEF Mine
  <2> QED BY <1>1, <2>2, <2>3, <2>8, <2>9, <2>10, HookKeepsInv
<1> QED BY <1>2, <1>3 DEF load

\* A call settles with its own slot's answer, or with a timeout.  What the hook
\* then holds is prose of its user, under the hash it was written for.
LEMMA SettleKeeps ==
  ASSUME NarrativeInv, NEW c \in hook.calls, Settle(c) PROVE NarrativeInv'
<1>1. /\ hook \in Hooks /\ hook.narrative \in Answers /\ c.slot \in Slots
      /\ hook.calls \in SUBSET [slot : Slots, id : Nat]
      /\ UNCHANGED <<day, report, cache, count, calls>>
  BY HookFacts DEF Settle, HookKeeps
<1>2. PICK answer \in {NoAnswer} \cup (IF req[c.slot].at = "answered"
                                       THEN {req[c.slot].answer} ELSE {}) :
        LET failed == answer.state \in {"none", "error"}
            settled == [hook EXCEPT !.inFlight = FALSE, !.calls = @ \ {c}]
        IN /\ hook' = IF hook.requestId # c.id THEN settled
                      ELSE [settled EXCEPT !.status = IF failed THEN "error" ELSE "ok",
                                           !.narrative = IF failed THEN NoAnswer ELSE answer]
           /\ req' = IF answer # NoAnswer THEN [req EXCEPT ![c.slot] = Free] ELSE req
  BY DEF Settle
<1> DEFINE held == IF answer.state \in {"none", "error"} THEN NoAnswer ELSE answer
           status == IF answer.state \in {"none", "error"} THEN "error" ELSE "ok"
<1>3. /\ req \in [Slots -> Serving] /\ Free \in Serving /\ NoAnswer \in Answers
      /\ req[c.slot].answer \in Answers /\ Mine(c.slot) /\ Fits(req[c.slot], Mine(c.slot))
  <2>1. Mine(c.slot) BY DEF Mine
  <2>2. req[c.slot] \in Serving BY <1>1, Typed
  <2> QED BY <1>1, <2>1, <2>2, FitsNow, Typed DEF Serving
<1>4. /\ held \in Answers /\ status \in {"loading", "error", "ok"}
      /\ held.state = "ok" => held.prose.user = viewer /\ held.prose.hash = held.hash
  <2>1. CASE answer = NoAnswer BY <2>1, <1>3, FreeIs
  <2>2. CASE answer = req[c.slot].answer BY <2>2, <1>3, FreeIs DEF Fits
  <2> QED BY <1>2, <2>1, <2>2
<1>5. /\ hook' \in Hooks /\ hook'.calls = hook.calls \ {c}
      /\ hook'.narrative \in {hook.narrative, held}
  <2> HIDE DEF held, status
  <2>1. \/ hook' = [hook EXCEPT !.inFlight = FALSE, !.calls = @ \ {c}]
        \/ hook' = [hook EXCEPT !.inFlight = FALSE, !.calls = @ \ {c},
                                !.status = status, !.narrative = held]
    BY <1>1, <1>2 DEF held, status, Hooks
  <2> QED BY <1>1, <1>4, <2>1 DEF Hooks
<1>6. /\ req' \in [Slots -> Serving]
      /\ \A t \in Slots \ {c.slot} : req'[t] = req[t]
      /\ req'[c.slot] \in {req[c.slot], Free}
  BY <1>1, <1>2, <1>3
<1>7. \A t \in Slots : /\ Fits(req'[t], \E e \in hook'.calls : e.slot = t)
                       /\ req'[t].at = "draft" => req'[t] = req[t]
  <2> TAKE t \in Slots
  <2>1. Fits(req[t], Mine(t)) BY FitsNow
  <2>2. CASE t = c.slot
    <3>1. ~\E e \in hook'.calls : e.slot = t BY <1>5, <2>2, HookFacts
    <3>2. Fits(req[t], FALSE) BY <2>1 DEF Fits
    <3>3. Fits(Free, FALSE) /\ Free.at # "draft" BY <1>3, FreeIs, NoProseIsClean DEF Fits
    <3>4. req'[t] = req[t] \/ req'[t] = Free BY <1>6, <2>2
    <3>5. Fits(req'[t], FALSE) /\ (req'[t].at = "draft" => req'[t] = req[t])
      BY <3>2, <3>3, <3>4
    <3> QED BY <3>1, <3>5 DEF Fits
  <2>3. CASE t # c.slot
    <3>1. req'[t] = req[t] BY <1>6, <2>3
    <3>2. (\E e \in hook'.calls : e.slot = t) => Mine(t) BY <1>5 DEF Mine
    <3> QED BY <2>1, <3>1, <3>2 DEF Fits
  <2> QED BY <2>2, <2>3
<1>8. /\ \A d, e \in hook'.calls : d.slot = e.slot => d = e
      /\ hook'.narrative.state = "ok" =>
           /\ hook'.narrative.prose.user = viewer
           /\ hook'.narrative.prose.hash = hook'.narrative.hash
  <2> HIDE DEF held
  <2> QED BY <1>4, <1>5, HookFacts
<1> QED BY <1>1, <1>5, <1>6, <1>7, <1>8, HookKeepsInv

\* A hook that has just been created waits for nothing and shows nothing.
LEMMA NewHookIs ==
  ASSUME NarrativeInv
  PROVE  NewHook \in Hooks /\ NewHook.calls = {} /\ NewHook.narrative = NoAnswer
<1>1. NoAnswer \in Answers BY Typed
<1> HIDE DEF Answers
<1> QED BY <1>1 DEF NewHook, Hooks

-----------------------------------------------------------------------------
(* The theorems *)

\* The first states have the invariant.
LEMMA NarrativeInit == Init => NarrativeInv
<1> SUFFICES ASSUME Init PROVE NarrativeInv OBVIOUS
<1>1. /\ viewer \in Users /\ MaxDay \in Nat /\ DailyGenerationCap \in Nat /\ 0 \in 0..MaxDay
  BY NarrativeAssumption
<1>2. Free.report \in AnyReport /\ Free.report.hash = "none" /\ "none" \in Hashes
  <2>1. Free.report \in AnyReport /\ Free.report.hash = "none" BY DEF AnyReport, Free
  <2> HIDE DEF AnyReport
  <2> QED BY <2>1 DEF Hashes
<1>3. NoProse \in Proses /\ NoAnswer \in Answers BY <1>1, <1>2 DEF NoProse, Proses, NoAnswer, Answers
<1>4. Free \in Serving
  <2>1. [hash |-> "none", computed |-> {}] \in AnyReport BY <1>2 DEF Free
  <2> HIDE DEF AnyReport, NoAnswer, Answers
  <2> QED BY <1>1, <1>3, <2>1 DEF Free, Serving
<1>5. NewHook \in Hooks
  <2> HIDE DEF Answers
  <2> QED BY <1>3 DEF NewHook, Hooks
<1>6. /\ req = [s \in Slots |-> Free] /\ cache = {} /\ hook = NewHook /\ day = 0
      /\ report \in [Users -> Reports]
      /\ count = [u \in Users |-> [d \in 0..MaxDay |-> 0]]
      /\ calls = [u \in Users |-> [d \in 0..MaxDay |-> 0]]
  BY DEF Init
<1>7. NarrativeType
  <2>1. /\ count \in [Users -> [0..MaxDay -> Nat]] /\ calls \in [Users -> [0..MaxDay -> Nat]]
    BY <1>6
  <2>2. req \in [Slots -> Serving] BY <1>4, <1>6
  <2> QED BY <1>1, <1>5, <1>6, <2>1, <2>2 DEF NarrativeType
<1>8. Covered
  <2> SUFFICES ASSUME NEW u \in Users, NEW d \in 0..MaxDay
               PROVE  LET bill == calls[u][d] + Cardinality(Owed(u, d))
                      IN bill <= 2 * count[u][d] /\ bill <= 2 * DailyGenerationCap
    BY DEF Covered
  <2>1. Owed(u, d) = {}
    <3>1. \A s \in Slots : req[s].at # "draft" BY <1>6, FreeIs
    <3> QED BY <3>1 DEF Owed
  <2>2. Cardinality({}) = 0 BY FS_EmptySet
  <2>3. calls[u][d] = 0 /\ count[u][d] = 0 BY <1>6
  <2> QED BY <1>1, <2>1, <2>2, <2>3
<1>9. ProseIsOwn /\ ProseIsChecked /\ ValidatedDraftsRender
  <2>1. \A s \in Slots : req[s] = Free BY <1>6
  <2>2. hook.calls = {} /\ hook.narrative = NoAnswer BY <1>6 DEF NewHook
  <2>3. Free.answer.state = "none" /\ Free.answer.reason = "none" /\ Free.answer.prose.clean
        /\ Free.at = "free" /\ NoAnswer.state = "none"
    BY FreeIs, NoProseIsClean
  <2> QED BY <1>6, <2>1, <2>2, <2>3 DEF ProseIsOwn, ProseIsChecked, ValidatedDraftsRender
<1> QED BY <1>7, <1>8, <1>9 DEF NarrativeInv

\* The steps of the world around: they touch no request, no call and no prose.
LEMMA WorldKeeps ==
  ASSUME NarrativeInv, UNCHANGED <<req, hook, count, calls>>,
         day' \in 0..MaxDay, report' \in [Users -> Reports], cache' \subseteq cache
  PROVE  NarrativeInv'
<1>1. NarrativeType'
  <2>1. /\ req \in [Slots -> Serving] /\ hook \in Hooks
        /\ count \in [Users -> [0..MaxDay -> Nat]] /\ calls \in [Users -> [0..MaxDay -> Nat]]
    BY Typed
  <2>2. /\ req' \in [Slots -> Serving] /\ hook' \in Hooks
        /\ count' \in [Users -> [0..MaxDay -> Nat]] /\ calls' \in [Users -> [0..MaxDay -> Nat]]
    BY <2>1
  <2>3. cache' \in SUBSET [user : Users, hash : Hashes, prose : Proses] BY CacheFacts
  <2> QED BY <2>2, <2>3 DEF NarrativeType
<1>2. Covered'
  <2>1. \A u \in Users, d \in 0..MaxDay : Owed(u, d)' \subseteq Owed(u, d) BY DEF Owed
  <2> QED BY <2>1, CoveredShrinks
<1>3. ProseIsOwn' /\ ProseIsChecked' /\ ValidatedDraftsRender'
  BY DEF NarrativeInv, ProseIsOwn, ProseIsChecked, ValidatedDraftsRender
<1> QED BY <1>1, <1>2, <1>3 DEF NarrativeInv

\* Every step keeps the invariant.
LEMMA NarrativeNext == NarrativeInv /\ [Next]_vars => NarrativeInv'
<1> SUFFICES ASSUME NarrativeInv, [Next]_vars PROVE NarrativeInv' OBVIOUS
<1>0. day \in 0..MaxDay /\ report \in [Users -> Reports] /\ hook \in Hooks BY Typed
<1>1. ASSUME NEW s \in Slots, Serve(s), UNCHANGED <<day, report, generator, asks, hook, screen>>
      PROVE  NarrativeInv'
  BY <1>1, CacheGetKeeps, AllowKeeps, GenerateKeeps, CacheSetKeeps, GoneKeeps DEF Serve
<1>2. ASSUME NEW s \in Slots, NEW u \in Users, Ask(s, u),
             UNCHANGED <<day, report, generator, cache, count, calls, hook, screen>>
      PROVE  NarrativeInv'
  BY <1>2, AskKeeps
<1>3. ASSUME NEW s \in Slots, Effect(s) \/ Regenerate(s) PROVE NarrativeInv'
  BY <1>3, LoadKeeps DEF Effect, Regenerate
<1>4. ASSUME NEW c \in hook.calls, Settle(c) PROVE NarrativeInv' BY <1>4, SettleKeeps
<1>5. CASE Cleanup
  <2> DEFINE id == hook.requestId + 1
  <2>1. hook' = [hook EXCEPT !.mounted = FALSE, !.requestId = id, !.offered = FALSE]
    BY <1>5 DEF Cleanup
  <2>2. id \in Nat BY HookFacts
  <2> HIDE DEF id
  <2>3. hook' \in Hooks /\ hook'.calls = hook.calls /\ hook'.narrative = hook.narrative
    BY <1>0, <2>1, <2>2 DEF Hooks
  <2> QED BY <1>5, <2>3, HookAlone DEF Cleanup, HookKeeps
<1>6. CASE Discard BY <1>6, NewHookIs, HookAlone DEF Discard, HookKeeps
<1>7. CASE RenderPage
  <2>1. hook' = [hook EXCEPT !.offered = (narrativeView = "retry")]
    BY <1>7 DEF RenderPage
  <2>2. (narrativeView = "retry") \in BOOLEAN OBVIOUS
  <2>3. hook' \in Hooks /\ hook'.calls = hook.calls /\ hook'.narrative = hook.narrative
    BY <1>0, <2>1, <2>2 DEF Hooks
  <2> QED BY <1>7, <2>3, HookAlone DEF RenderPage, HookKeeps
<1>8. CASE RefetchReport BY <1>0, <1>8, WorldKeeps DEF RefetchReport, serverVars
<1>9. CASE ReportChanges
  <2>1. report' \in [Users -> Reports] BY <1>0, <1>9 DEF ReportChanges
  <2> QED BY <1>0, <1>9, <2>1, WorldKeeps DEF ReportChanges
<1>10. CASE CacheExpires BY <1>0, <1>10, WorldKeeps DEF CacheExpires
<1>11. CASE Midnight
  <2>1. day' \in 0..MaxDay BY <1>0, <1>11, NarrativeAssumption DEF Midnight
  <2> QED BY <1>0, <1>11, <2>1, WorldKeeps DEF Midnight, serverVars
<1>12. CASE UNCHANGED vars BY <1>0, <1>12, WorldKeeps DEF vars, serverVars
<1> QED
  BY <1>1, <1>2, <1>3, <1>4, <1>5, <1>6, <1>7, <1>8, <1>9, <1>10, <1>11, <1>12 DEF Next

\* The invariant holds throughout.
LEMMA NarrativeHolds == Spec => []NarrativeInv
BY NarrativeInit, NarrativeNext, PTL DEF Spec

\* The allowance pays for at most two model calls per generation: every call made
\* or still owed is covered by a count taken before it (Covered), so neither
\* concurrent requests nor a Redis that fails between them exceed it.
THEOREM BillStaysBounded == Spec => []BillIsBounded
<1>1. NarrativeInv => BillIsBounded
  <2> SUFFICES ASSUME NarrativeInv, NEW u \in Users, NEW d \in 0..MaxDay
               PROVE  calls[u][d] <= 2 * DailyGenerationCap
    BY DEF BillIsBounded
  <2> DEFINE o == Cardinality(Owed(u, d))
  <2>1. calls[u][d] \in Nat /\ DailyGenerationCap \in Nat BY Typed
  <2>2. o \in Nat BY OwedFinite
  <2>3. calls[u][d] + o <= 2 * DailyGenerationCap BY DEF NarrativeInv, Covered
  <2> HIDE DEF o
  <2> QED BY <2>1, <2>2, <2>3
<1> QED BY <1>1, NarrativeHolds, PTL

\* What the page shows as prose is its user's own, and was written for the very
\* report it shows, whatever was cached, adopted, disowned or late.
THEOREM ShownProseMatches == Spec => []ProseMatchesReport
<1>1. NarrativeInv => ProseMatchesReport
  <2> SUFFICES ASSUME NarrativeInv, narrativeView = "prose"
               PROVE  /\ hook.narrative.prose.user = viewer
                      /\ hook.narrative.prose.hash = screen.hash
    BY DEF ProseMatchesReport
  <2>1. hook.narrative.state = "ok" /\ describesReport
    BY DEF narrativeView, Notice
  <2> QED BY <2>1, HookFacts DEF describesReport
<1> QED BY <1>1, NarrativeHolds, PTL

\* Only prose of drafts that passed is cached or served, and what passes renders
\* without a brace or a foreign figure.
THEOREM ServedProseIsChecked == Spec => []ProseIsChecked
<1>1. NarrativeInv => ProseIsChecked BY DEF NarrativeInv
<1> QED BY <1>1, NarrativeHolds, PTL

\* A paid call whose draft passed is never wasted: what Validate lets through,
\* Render can render, for drafts of every length.
THEOREM PassedDraftsRender == Spec => []ValidatedDraftsRender
<1>1. NarrativeInv => ValidatedDraftsRender BY DEF NarrativeInv
<1> QED BY <1>1, NarrativeHolds, PTL
=============================================================================
