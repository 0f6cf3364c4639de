--------------------------- MODULE IncludeReference ---------------------------
(***************************************************************************)
(* What inclusion should mean, as text: an include directive stands for    *)
(* the text of the file it names.  The loader parses each file on its own  *)
(* and expands trees instead; LoadFaithful says that it makes no           *)
(* difference.                                                             *)
(***************************************************************************)
EXTENDS ConfigLoad, Integers

\* Braces that are open after the first i tokens.
Nesting(toks, i) ==
  Cardinality({j \in 1..i : toks[j] = "{"}) - Cardinality({j \in 1..i : toks[j] = "}"})

\* A token sequence the grammar allows: a word before every `;` and `{`, none
\* before a `}`, braces that match, and no directive left open at the end.
WordAt(toks, i) == i >= 1 /\ toks[i] \notin Punctuation
Allowed(toks, i) ==
  /\ toks[i] \in {";", "{"} => WordAt(toks, i - 1)
  /\ toks[i] = "}" => ~WordAt(toks, i - 1) /\ Nesting(toks, i) >= 0
WellFormed(toks) ==
  /\ \A i \in 1..Len(toks) : Allowed(toks, i)
  /\ ~WordAt(toks, Len(toks))
  /\ Nesting(toks, Len(toks)) = 0

-----------------------------------------------------------------------------
(***************************************************************************)
(* Inclusion in a text                                                     *)
(***************************************************************************)

\* The directive that starts at s has its last token at e.
EndsAt(toks, s, e) == toks[e] \in {";", "}"} /\ Nesting(toks, e) = Nesting(toks, s - 1)

\* Where the include directive that token i is part of starts; 0 when it is part of
\* none.  What looks like an include inside of one is part of the outer one.
IncludeOf(toks) ==
  LET start[i \in 0..Len(toks)] ==
        IF i = 0 THEN 0
        ELSE IF start[i - 1] # 0 /\ ~EndsAt(toks, start[i - 1], i - 1) THEN start[i - 1]
        ELSE IF toks[i] = "include" /\ ~WordAt(toks, i - 1) THEN i
        ELSE 0
  IN  start

\* An include names its file in token i.  What else the directive has, more words
\* or a block, is passed over (config/mod.rs 58-61).
NamesFile(toks, i) == i > 1 /\ IncludeOf(toks)[i] = i - 1

\* The text with by[f] in the place of every include of f.
Splice(toks, by) ==
  FlattenSeq([i \in 1..Len(toks) |->
                IF NamesFile(toks, i) THEN by[toks[i]]
                ELSE IF IncludeOf(toks)[i] # 0 THEN << >>
                ELSE <<toks[i]>>])

\* has[f] is the text of f.  Spliced(has)[n][f] is that text with n - 1 levels of
\* includes in it; what is not there is empty.
Spliced(has) ==
  LET text[n \in Nat] ==
        [f \in Files \cup Tokens \cup Punctuation |->
           IF n = 0 \/ f \notin DOMAIN has THEN << >> ELSE Splice(has[f], text[n - 1])]
  IN  text

Includes(toks) == {toks[i] : i \in {j \in DOMAIN toks : NamesFile(toks, j)}}

\* A set that has every file which is well formed and includes members only.
Inclusive(has, S) ==
  \A f \in DOMAIN has :
    /\ ~Contains(has[f], OpenQuote) /\ WellFormed(has[f]) /\ Includes(has[f]) \subseteq S
    => f \in S

\* Every file that the inclusion of f needs is there and well formed, and none of
\* them needs itself: f is in the least of those sets.
Sound(has, f) == \A S \in SUBSET DOMAIN has : Inclusive(has, S) => f \in S

-----------------------------------------------------------------------------
(***************************************************************************)
(* The text of a tree                                                      *)
(***************************************************************************)

\* Directives with fewer than n levels of blocks.
Nested[n \in Nat] ==
  IF n = 0 THEN {}
  ELSE [name : Tokens, args : Seq(Tokens), ends : {";"}, block : {<< >>}]
         \cup [name : Tokens, args : Seq(Tokens), ends : {"}"}, block : Seq(Nested[n - 1])]

Rendered[n \in Nat] ==
  LET rest(d) == IF d.ends = ";" THEN <<";">>
                 ELSE <<"{">> \o Rendered[n - 1][d.block] \o <<"}">>
  IN  [dirs \in Seq(Nested[n]) |->
         FlattenSeq([i \in 1..Len(dirs) |-> <<dirs[i].name>> \o dirs[i].args \o rest(dirs[i])])]

\* The directives, as they stand, read as the text, which nests no deeper than it is long.
ReadsAs(dirs, text) ==
  dirs \in Seq(Nested[Len(text)]) /\ Rendered[Len(text)][dirs] = text

-----------------------------------------------------------------------------
Contents == [f \in {g \in Files : disk[g] # 0} |-> Text[f][disk[f]]]

\* Parsing each file on its own and expanding the trees gives what inclusion of
\* the text would give (config/mod.rs 52-98, parser.rs 24-92): a load that nobody
\* disturbs succeeds exactly when every needed file is there, well formed and not
\* on a cycle, and loses, adds and reorders nothing, in nested blocks and in
\* files that are included several times too.
LoadFaithful ==
  touched = 0 =>
    /\ phase = "failed" => ~Sound(Contents, Main)
    /\ phase \in {"loaded", "refused", "built"} =>
         /\ Sound(Contents, Main)
         /\ ReadsAs(tree, Spliced(Contents)[Cardinality(DOMAIN Contents)][Main])
=============================================================================
