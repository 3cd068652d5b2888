------------------------------- MODULE Revset -------------------------------
(***************************************************************************)
(* The revset query language (crates/omoplata-work/src/revset.rs): a       *)
(* recursive-descent parser over tokens and the evaluation of what it      *)
(* parses.                                                                 *)
(*                                                                         *)
(* A token is one of the five marks or a word.  The words that are id      *)
(* literals, and the commits they name, are the domain and the range of    *)
(* IdWords; Error stands for every WorkError of a query.                   *)
(***************************************************************************)
EXTENDS Integers, Sequences

CONSTANTS IdWords, Error

Marks     == {"&", "|", "~", "(", ")"}
Functions == {"all", "heads", "draft", "public", "landed"}

IsWord(tokens, i) == i <= Len(tokens) /\ tokens[i] \notin Marks
IsMark(tokens, i, m) == i <= Len(tokens) /\ tokens[i] = m

----------------------------------------------------------------------------
(* The parser.  Parsed(e, i) is the expression e and the next token's i.   *)

Parsed(e, i) == [ok |-> TRUE, expr |-> e, next |-> i]
NotParsed    == [ok |-> FALSE]

Binary(op, l, r) == [op |-> op, left |-> l, right |-> r]

RECURSIVE ParseOr(_, _), OrTail(_, _), ParseAnd(_, _), AndTail(_, _),
          ParseUnary(_, _)

(* A bug it could have: only what binds tightest is to the right of a |.   *)
OrTail_RightUnary(tokens, left) ==
  IF left.ok /\ IsMark(tokens, left.next, "|")
  THEN LET right == ParseUnary(tokens, left.next + 1)
       IN IF right.ok
          THEN OrTail(tokens, Parsed(Binary("or", left.expr, right.expr), right.next))
          ELSE NotParsed
  ELSE left

OrTail(tokens, left) ==
  IF left.ok /\ IsMark(tokens, left.next, "|")
  THEN LET right == ParseAnd(tokens, left.next + 1)
       IN IF right.ok
          THEN OrTail(tokens, Parsed(Binary("or", left.expr, right.expr), right.next))
          ELSE NotParsed
  ELSE left

ParseOr(tokens, i) == OrTail(tokens, ParseAnd(tokens, i))

AndTail(tokens, left) ==
  IF left.ok /\ IsMark(tokens, left.next, "&")
  THEN LET right == ParseUnary(tokens, left.next + 1)
       IN IF right.ok
          THEN AndTail(tokens, Parsed(Binary("and", left.expr, right.expr), right.next))
          ELSE NotParsed
  ELSE left

ParseAnd(tokens, i) == AndTail(tokens, ParseUnary(tokens, i))

(* A function's name, '(', at most one word and ')'.                       *)
ParseCall(tokens, i) ==
  LET name   == tokens[i]
      hasArg == IsWord(tokens, i + 2)
      close  == IF hasArg THEN i + 3 ELSE i + 2
      Queue  == IF hasArg THEN tokens[i + 2] ELSE "trunk"
  IN IF ~ IsMark(tokens, close, ")") THEN NotParsed
     ELSE IF name = "landed" THEN Parsed([op |-> "landed", queue |-> Queue], close + 1)
     ELSE IF name \in Functions /\ ~ hasArg THEN Parsed([op |-> name], close + 1)
     ELSE NotParsed

ParsePrimary(tokens, i) ==
  IF IsMark(tokens, i, "(")
  THEN LET inner == ParseOr(tokens, i + 1)
       IN IF inner.ok /\ IsMark(tokens, inner.next, ")")
          THEN Parsed(inner.expr, inner.next + 1)
          ELSE NotParsed
  ELSE IF ~ IsWord(tokens, i) THEN NotParsed
  ELSE IF IsMark(tokens, i + 1, "(") THEN ParseCall(tokens, i)
  ELSE IF tokens[i] \in DOMAIN IdWords
  THEN Parsed([op |-> "id", commit |-> IdWords[tokens[i]]], i + 1)
  ELSE Parsed([op |-> "ref", name |-> tokens[i]], i + 1)

ParseUnary(tokens, i) ==
  IF IsMark(tokens, i, "~")
  THEN LET inner == ParseUnary(tokens, i + 1)
       IN IF inner.ok THEN Parsed([op |-> "not", expr |-> inner.expr], inner.next)
          ELSE NotParsed
  ELSE ParsePrimary(tokens, i)

Parse(tokens) ==
  LET e == ParseOr(tokens, 1)
  IN IF e.ok /\ e.next = Len(tokens) + 1 THEN e ELSE NotParsed

----------------------------------------------------------------------------
(* Evaluation.  A context has refs, a function from names to commits;      *)
(* phases, a function from commits; extra commits; and landed, a function  *)
(* from queues to sets of commits, which is empty for a queue outside it.  *)

LOCAL Targets(ctx) == {ctx.refs[n] : n \in DOMAIN ctx.refs}

Universe(ctx) == Targets(ctx) \cup DOMAIN ctx.phases \cup ctx.extra

PhaseFilter(ctx, want) ==
  {c \in Universe(ctx) : c \in DOMAIN ctx.phases /\ ctx.phases[c] = want}

(* Which queue owns a public ref, by its name's first segment if that is a *)
(* registered queue, is part of the context here.                          *)
LandedIn(ctx, queue) ==
  IF queue \in DOMAIN ctx.landed THEN ctx.landed[queue] ELSE {}

RECURSIVE Eval(_, _)
Eval(e, ctx) ==
  CASE e.op = "ref"    -> IF e.name \in DOMAIN ctx.refs THEN {ctx.refs[e.name]} ELSE Error
    [] e.op = "id"     -> {e.commit} \cap Universe(ctx)
    [] e.op = "all"    -> Universe(ctx)
    [] e.op = "heads"  -> Targets(ctx)
    [] e.op = "draft"  -> PhaseFilter(ctx, "draft")
    [] e.op = "public" -> PhaseFilter(ctx, "public")
    [] e.op = "landed" -> LandedIn(ctx, e.queue)
    [] e.op = "not"    -> LET inner == Eval(e.expr, ctx)
                          IN IF inner = Error THEN Error ELSE Universe(ctx) \ inner
    [] OTHER           -> LET l == Eval(e.left, ctx)
                              r == Eval(e.right, ctx)
                          IN IF l = Error \/ r = Error THEN Error
                             ELSE IF e.op = "or" THEN l \cup r ELSE l \cap r

Query(tokens, ctx) ==
  LET e == Parse(tokens) IN IF e.ok THEN Eval(e.expr, ctx) ELSE Error
=============================================================================
