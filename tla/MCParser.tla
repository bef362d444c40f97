------------------------------- MODULE MCParser -------------------------------
(***************************************************************************)
(* Instances of Parser.  The inputs of a run are those of a few families:  *)
(* every opening of the family followed by at most `tail` tokens of its    *)
(* alphabet, and the programs of the reference grammar up to a `length`,   *)
(* with which the inputs are compared.                                     *)
(***************************************************************************)
EXTENDS Parser, SequencesExt

CONSTANTS
  Families,
  Reference  \* the programs of the families' grammars, with their trees

VARIABLE source  \* NotPrinted, or the program that was: its tree and tokens

INSTANCE Printer

Family(openings, alphabet, tail, length) ==
  [openings |-> openings, alphabet |-> alphabet, tail |-> tail, length |-> length]

Tails(f) == UNION {[1 .. k -> f.alphabet] : k \in 0 .. f.tail}
FamilyInputs == {p[1] \o p[2] : p \in UNION {f.openings \X Tails(f) : f \in Families}}
MCInputs == FamilyInputs \cup Reference.texts

Start == <<"func", "identifier">>

\* return n o n o n ...
Chains(k) ==
  {Start \o <<"return", "number">>
     \o FlattenSeq([i \in 1 .. k |-> <<operators[i], "number">>]) :
     operators \in [1 .. k -> BinaryOperators]}

ExpressionFamilies ==
  {Family({Start \o <<"return">>},
          {"number", "+", "*", "==", "&", "(", ")", "[", "]", ",", "=", "}"}, 4, 7),
   \* all chains of two binary operators
   Family(Chains(2), {}, 0, 8),
   \* programs only, with prefixes and indices of operators
   Family({Start \o <<"return">>}, {"number", "-", "*", "[", "]", "(", ")"}, 0, 9)}

StatementFamilies ==
  {Family({Start \o <<"{">>},
          {"identifier", "return", "set", "while", "{", "}", "=", ":=", "func"}, 4, 7),
   \* branches and loops
   Family({Start \o <<"while", "number">>, Start \o <<"if", "number", "{", "}">>},
          {"number", "if", "else", "{", "}"}, 5, 11),
   \* errors between functions, and in an array in a block
   Family({<<>>, Start \o <<"{", "identifier", ":=", "[">>},
          {"func", "identifier", "else", "{", "}", "]", "=", ";"}, 4, 10)}

AllFamilies == ExpressionFamilies \cup StatementFamilies

\* A few inputs that are not programs.
ErrorFamilies == {Family({Start \o <<"{", "identifier", ":=", "[">>}, Kinds, 1, 0)}

\* Three elements of an array, of which one more is one too many.
ArrayFamilies ==
  {Family({Start \o <<"return", "[", "number", ",", "number", ",", "number", ",">>},
          {"number", ",", "]"}, 3, 0)}

------------------------------------------------------------------------------
(* The reference for programs without errors.                              *)
G(f) == INSTANCE Grammar WITH
          MaxLength <- f.length,
          Tokens <- f.alphabet \cup UNION {ToSet(SubSeq(o, 3, Len(o))) : o \in f.openings}

Programs == UNION {G(f)!Programs : f \in Families}
MCReference == [programs |-> Programs, texts |-> {p.text : p \in Programs}]

\* The trees of the AST, in the form Grammar gives them.
ExpressionTrees ==
  LET tree[i \in DOMAIN expressions] ==
        LET e == expressions[i]
            child(k) == tree[e.data[k]]
        IN  CASE e.kind = "int_literal" -> <<"number">>
              [] e.kind = "variable" -> <<"identifier">>
              [] e.kind = "missing" -> <<"missing">>
              [] e.kind = "address_of" -> <<"&", child(1)>>
              [] e.kind = "dereference" -> <<"*", child(1)>>
              [] e.kind = "array_literal" ->
                   <<e.kind, [k \in 1 .. e.data[2] |-> tree[e.data[1] + k - 1]]>>
              [] OTHER -> <<e.kind, child(1), child(2)>>
  IN  tree

StatementTrees ==
  LET tree[i \in DOMAIN statements] ==
        LET s == statements[i]
            expr(k) == ExpressionTrees[s.data[k]]
        IN  CASE s.kind = "missing" -> <<"missing">>
              [] s.kind = "return" -> <<s.kind, expr(1)>>
              [] s.kind = "local_definition" -> <<s.kind, expr(2)>>
              [] s.kind = "assign" -> <<s.kind, expr(1), expr(2)>>
              [] s.kind = "while" -> <<s.kind, expr(1), tree[s.data[2]]>>
              [] s.kind = "if" ->
                   <<s.kind, expr(1), tree[s.data[2]]>>
                     \o (IF s.data[3] = NoNode THEN <<>> ELSE <<tree[s.data[3]]>>)
              [] s.kind = "block" ->
                   <<s.kind, [k \in 1 .. s.data[2] |-> tree[s.data[1] + k - 1]]>>
  IN  tree

ProgramTree == [i \in DOMAIN functions |-> StatementTrees[functions[i].body]]

Printed ==
  AstWords([expressions |-> expressions, statements |-> statements], functions)

\* The positions of the names and numbers printed.
Leaves(words) ==
  LET leaves == SelectSeq(words, LAMBDA w : w.value # NoName)
  IN  [i \in DOMAIN leaves |-> leaves[i].value]

LeafTokens ==
  SelectSeq([i \in DOMAIN tokens |-> i], LAMBDA i : tokens[i] \in {"number", "identifier"})

(* A program parses without a diagnostic exactly when the grammar has it,  *)
(* and then its AST is the grammar's tree with its names and numbers in    *)
(* their places: precedence, associativity, brackets, the elements of an   *)
(* array, the statements of a block (parse.c:211-596).  What is printed of *)
(* it is a program too, of the same tree with the same names and numbers,  *)
(* and is printed as it is (parse.c:741-998).                              *)
AgreesWithGrammar ==
  status = "done" =>
    IF source.again
    THEN /\ diagnostics = <<>>
         /\ ProgramTree = source.tree
         /\ [i \in DOMAIN Leaves(Printed) |-> source.words[Leaves(Printed)[i]].value] =
              Leaves(source.words)
         /\ tokens = [i \in DOMAIN Printed |-> Printed[i].kind]
    ELSE IF diagnostics = <<>>
    THEN /\ [text |-> tokens, tree |-> ProgramTree] \in Reference.programs
         /\ Leaves(Printed) = LeafTokens
    ELSE tokens \notin Reference.texts
------------------------------------------------------------------------------
NotPrinted == [tree |-> <<>>, words |-> <<>>, again |-> FALSE]

\* Somebody parses what was printed of a program without errors.
ParseAgain ==
  /\ status = "done"
  /\ diagnostics = <<>>
  /\ ~source.again
  /\ source' = [tree |-> ProgramTree, words |-> Printed, again |-> TRUE]
  /\ tokens' = [i \in DOMAIN Printed |-> Printed[i].kind]
  /\ cursor' = 0
  /\ expressions' = <<>> /\ statements' = <<>> /\ functions' = <<>>
  /\ status' = "running"
  /\ UNCHANGED <<calls, result, temp, diagnostics>>

MCInit == Init /\ source = NotPrinted
MCNext == (Next /\ UNCHANGED source) \/ ParseAgain
MCSpec == MCInit /\ [][MCNext]_<<vars, source>>
FairMCSpec == MCSpec /\ WF_<<vars, source>>(MCNext)
==============================================================================
