----------------------------- MODULE ConfigLoad -----------------------------
(***************************************************************************)
(* Reading the configuration: config::load, the lexer's verdict, the       *)
(* parser, and expand_includes.                                            *)
(*                                                                         *)
(* A file's text is its sequence of tokens: words, the three punctuation   *)
(* tokens, and OpenQuote for a quote that is never closed.  Every file is  *)
(* read at a moment of its own, so whoever edits the configuration may     *)
(* change it between two reads.  The recursion of expand_includes is a     *)
(* stack of calls, one per file or block that is being expanded.           *)
(***************************************************************************)
EXTENDS Naturals, Sequences, FiniteSets, SequencesExt

CONSTANTS
  Files,           \* configuration files, by the word an include names them with
  Main,            \* the file named on the command line
  Text,            \* Text[f]: the contents f may have, each a token sequence
  Disks,           \* the states of the disk a load may start from
  OpenQuote,       \* the opening of a string that does not end
  MaxConfigEdits   \* bound on the edits during a load

\* The words and other tokens of all the contents.
Tokens == UNION {UNION {ToSet(Text[f][i]) : i \in DOMAIN Text[f]} : f \in Files}

Punctuation == {"{", "}", ";"}

\* Files are named by words, and contents are sequences.
ASSUME ConfigLoadAssumption ==
  /\ IsFiniteSet(Files) /\ Main \in Files /\ Files \cap Punctuation = {}
  /\ \A f \in Files : /\ Text[f] \in Seq(ToSet(Text[f]))
                     /\ \A i \in DOMAIN Text[f] : Text[f][i] \in Seq(ToSet(Text[f][i]))
  /\ Disks \subseteq [Files -> Nat]
  /\ \A d \in Disks, f \in Files : d[f] <= Len(Text[f])
  /\ MaxConfigEdits \in Nat

VARIABLES
  disk,     \* disk[f]: which of its contents f has now, 0 when it is missing
  phase,    \* how far the start of the server has come
  calls,    \* the calls of expand_includes, the innermost last
  visited,  \* `visited`: the files on the current chain of includes
  tree,     \* the expanded directives of the main file
  touched   \* how often the configuration was edited during the load

loadVars == <<disk, phase, calls, visited, tree, touched>>

LoadInit ==
  /\ disk \in Disks
  /\ phase = "start"
  /\ calls = << >>
  /\ visited = {}
  /\ tree = << >>
  /\ touched = 0

-----------------------------------------------------------------------------
(***************************************************************************)
(* The parser                                                              *)
(***************************************************************************)
Lexes(toks) == ~Contains(toks, OpenQuote)

\* A directive.  `ends` tells one that has a block, which may be empty, from one that
\* ends with a `;` and has none.
Directive(words, end, block) ==
  [name |-> Head(words), args |-> Tail(words), ends |-> end, block |-> block]

\* A block being parsed: its directives so far and the words of the next one.
EmptyBlock == [dirs |-> << >>, words |-> << >>]
Finished(b, end, block) ==
  [dirs |-> Append(b.dirs, Directive(b.words, end, block)), words |-> << >>]

\* parse_block, token by token; s.open holds the blocks that are open, s.ok turns
\* false at the first error.
ParseToken(s, tok) ==
  LET cur     == Last(s.open)
      outer   == Front(s.open)
      reading == cur.words # << >>
  IN  IF ~s.ok THEN s ELSE
      CASE tok \notin Punctuation ->
             [s EXCEPT !.open = Append(outer, [cur EXCEPT !.words = Append(@, tok)])]
        [] tok = ";" /\ reading -> [s EXCEPT !.open = Append(outer, Finished(cur, ";", << >>))]
        [] tok = "{" /\ reading -> [s EXCEPT !.open = Append(@, EmptyBlock)]
        [] tok = "}" /\ ~reading /\ outer # << >> ->
             [s EXCEPT !.open = Append(Front(outer), Finished(Last(outer), "}", cur.dirs))]
        [] OTHER -> [s EXCEPT !.ok = FALSE]

\* What parse makes of a whole file.
Parse(toks) ==
  LET state[i \in 0..Len(toks)] ==
        IF i = 0 THEN [ok |-> TRUE, open |-> <<EmptyBlock>>]
        ELSE ParseToken(state[i - 1], toks[i])
      end == state[Len(toks)]
  IN  [ok   |-> end.ok /\ Len(end.open) = 1 /\ end.open[1].words = << >>,
       dirs |-> end.open[1].dirs]

-----------------------------------------------------------------------------
(***************************************************************************)
(* Loading and expanding                                                   *)
(***************************************************************************)
There(f) == f \in Files /\ disk[f] # 0
Content(f) == Text[f][disk[f]]
Usable(f) == There(f) /\ Lexes(Content(f)) /\ Parse(Content(f)).ok

Fail ==
  /\ phase' = "failed"
  /\ calls' = << >>
  /\ visited' = {}
  /\ UNCHANGED <<disk, tree, touched>>

\* Mutant: include cycles are not looked for.
FreshAlways(f) == TRUE

\* visited.insert succeeds.
Fresh(f) == f \notin visited

\* Resolve, read, lex and parse f, then expand it above the calls `below`.
OpenFile(f, below) ==
  \/ /\ Usable(f) /\ Fresh(f)
     /\ calls' = Append(below, [kind |-> "file", of |-> f, todo |-> Parse(Content(f)).dirs,
                                out |-> << >>])
     /\ visited' = visited \cup {f}
     /\ phase' = "loading"
     /\ UNCHANGED <<disk, tree, touched>>
  \/ ~(Usable(f) /\ Fresh(f)) /\ Fail

StartLoad == phase = "start" /\ OpenFile(Main, << >>)

Top == Last(calls)
Below == Front(calls)

\* The next directive of the innermost call is an include.
ExpandInclude ==
  /\ phase = "loading"
  /\ Top.todo # << >>
  /\ LET d    == Head(Top.todo)
         rest == Append(Below, [Top EXCEPT !.todo = Tail(@)])
     IN  /\ d.name = "include"
         /\ \/ d.args = << >> /\ Fail
            \/ d.args # << >> /\ OpenFile(d.args[1], rest)

\* It is anything else: its block, if it has one, is expanded first.
ExpandDirective ==
  /\ phase = "loading"
  /\ Top.todo # << >>
  /\ LET d    == Head(Top.todo)
         rest == [Top EXCEPT !.todo = Tail(@)]
     IN  /\ d.name # "include"
         /\ calls' =
              IF d.ends = ";"
              THEN Append(Below, [rest EXCEPT !.out = Append(@, d)])
              ELSE Append(Append(Below, rest),
                          [kind |-> "block", of |-> d, todo |-> d.block, out |-> << >>])
  /\ UNCHANGED <<disk, phase, visited, tree, touched>>

\* Mutant: an included file stays in `visited` once it is expanded.
ForgetNothing(f) == visited

\* visited.remove when the include is done.
Forget(f) == visited \ {f}

\* The innermost call returns to its caller, or to load.
Return ==
  /\ phase = "loading"
  /\ Top.todo = << >>
  /\ visited' = IF Top.kind = "file" /\ Below # << >> THEN Forget(Top.of) ELSE visited
  /\ LET result == IF Top.kind = "file" THEN Top.out
                   ELSE <<[Top.of EXCEPT !.block = Top.out]>>
     IN  \/ /\ Below # << >>
            /\ calls' = Append(Front(Below), [Last(Below) EXCEPT !.out = @ \o result])
            /\ UNCHANGED <<phase, tree>>
         \/ /\ Below = << >>
            /\ calls' = << >>
            /\ tree' = result
            /\ phase' = "loaded"
  /\ UNCHANGED <<disk, touched>>

\* Somebody edits, creates or deletes a configuration file.
EditConfig(f) ==
  /\ phase = "loading"
  /\ touched < MaxConfigEdits
  /\ touched' = touched + 1
  /\ \E v \in 0..Len(Text[f]) : v # disk[f] /\ disk' = [disk EXCEPT ![f] = v]
  /\ UNCHANGED <<phase, calls, visited, tree>>
=============================================================================
