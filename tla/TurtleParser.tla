---------------------------- MODULE TurtleParser ----------------------------
(***************************************************************************)
(* The recursive-descent parser of Turtle 1.2 (turtle/parser.go,           *)
(* turtle/rdf12.go), as operators that take the parser p and return it     *)
(* advanced, with the term it read in p.val. The input is a sequence of    *)
(* tokens <<kind, ...>>; scanning characters into tokens is left out. The  *)
(* TriG parser is a copy of this code that differs in a few tokens, which  *)
(* are the constants here (Trig).                                          *)
(*                                                                         *)
(* Once p.err is set Tok answers "eof", so that every operator falls       *)
(* through to its error: the early returns of the code.                    *)
(***************************************************************************)
EXTENDS RDFTerms

CONSTANTS TrailingEnds,   \* tokens that may follow a ';' that ends a list
          ReifierEnds,    \* tokens that show a '~' names no reifier
          MaxDepth,       \* WithMaxParseDepth
          BadPieces       \* pieces no IRIREF can hold

enter(p) == IF p.depth >= MaxDepth THEN Fail(p, "deep") ELSE [p EXCEPT !.depth = @ + 1]
leave(p) == [p EXCEPT !.depth = @ - 1]
-----------------------------------------------------------------------------
readIRI(p) ==
    IF Is(p, "iriref") /\ Range(Tok(p)[2]) \cap BadPieces = {}
    THEN Give(Skip(p), IRI(resolveIRI(p, Tok(p)[2])))
    ELSE Fail(p, "syntax")

\* A name is <<"pname", prefix, local>>, local a sequence of no or one piece.
readPrefixedName(p) ==
    IF ~Is(p, "pname") THEN Fail(p, "syntax")
    ELSE IF Tok(p)[2] \notin DOMAIN p.prefixes THEN Fail(p, "prefix")
    ELSE Give(Skip(p), IRI(p.prefixes[Tok(p)[2]] \o Tok(p)[3]))

IRIOrName(p) == IF Is(p, "pname") THEN readPrefixedName(p) ELSE readIRI(p)

readPredicate(p) == IRIOrName(p)

readVerb(p) == IF Is(p, "a") THEN Give(Skip(p), Type) ELSE readPredicate(p)

readBlankNodeLabel(p) == Label(Skip(p), Tok(p)[2])

\* A language tag comes with its base direction, "" when it has none.
readLangTag(p, lex) ==
    LET t == Tok(p)
    IN IF t[2] # "" /\ t[3] \in {"", "ltr", "rtl"}
       THEN Give(Skip(p), Literal(lex, <<"lang", t[2], t[3]>>))
       ELSE Fail(p, "syntax")

Typed(q, lex) ==
    IF q.err # "" THEN q
    ELSE IF q.val \in {RDF("langString"), RDF("dirLangString")} THEN Fail(q, "syntax")
    ELSE Give(q, Literal(lex, q.val))

readDatatypeIRI(p, lex) == Typed(IRIOrName(p), lex)

readLiteral(p) ==
    LET lex == Tok(p)[2]
        q == Skip(p)
    IN CASE Is(q, "@lang") -> readLangTag(q, lex)
         [] Is(q, "^^") -> readDatatypeIRI(Skip(q), lex)
         [] OTHER -> Give(q, Literal(lex, XSD("string")))

\* An unquoted number or boolean <<kind, lex, datatype>>.
tryNumeric(p) == Give(Skip(p), Literal(Tok(p)[2], Tok(p)[3]))

\* The forms every position of an object shares.
readScalar(p) == CASE Is(p, "label") -> readBlankNodeLabel(p)
                   [] Is(p, "string") -> readLiteral(p)
                   [] Is(p, "numeric") -> tryNumeric(p)
                   [] OTHER -> IRIOrName(p)

readReifierID(p) == IF Is(p, "label") THEN readBlankNodeLabel(p) ELSE IRIOrName(p)

\* Inside << >> and <<( )>> only the empty [] stands for a blank node.
readEmptyBNodeOnly(p) == NewBNode(Expect(Skip(p), "]"))
readTripleTermANON(p) == NewBNode(Expect(Skip(p), "]"))
-----------------------------------------------------------------------------
\* The productions that nest call each other through Rule: its name, the parser
\* and the other arguments.
RECURSIVE Rule(_, _, _)
RECURSIVE objectList(_, _, _)
RECURSIVE predicateObjectList(_, _)
RECURSIVE morePredicates(_, _)
RECURSIVE items(_, _)
RECURSIVE afterItem(_, _)
RECURSIVE listTriples(_, _, _)
RECURSIVE SkipAll(_, _)

SkipAll(p, kind) == IF Is(p, kind) THEN SkipAll(Skip(p), kind) ELSE p

afterVerb(v, s) == morePredicates(objectList(v, s, v.val), s)
predicateObjectList(p, s) == afterVerb(readVerb(p), s)

morePredicates(p, s) ==
    IF ~Is(p, ";") THEN p
    ELSE LET q == SkipAll(p, ";")
         IN IF Tok(q)[1] \in TrailingEnds THEN q ELSE predicateObjectList(q, s)

afterAnnotations(q, s, pred) == IF Is(q, ",") THEN objectList(Skip(q), s, pred) ELSE q
afterObject(o, s, pred) ==
    IF o.err # "" THEN o
    ELSE afterAnnotations(Rule("readAnnotationsAndReifiers", emit(o, s, pred, o.val),
                               <<s, pred, o.val>>), s, pred)
objectList(p, s, pred) == afterObject(Rule("readObject", p, <<>>), s, pred)

\* The node of [ ... ] is made before its contents are read.
readBlankNodePropertyList(p) ==
    LET b == NewBNode(Skip(enter(p)))
        q == Rule("predicateObjectList", b, <<b.val>>)
    IN IF Is(b, "]") THEN leave(Skip(b))
       ELSE IF q.err # "" THEN q
       ELSE Give(leave(Expect(q, "]")), b.val)

\* The items are all read before the triples of the list are emitted.
items(p, read) ==
    CASE Is(p, "eof") -> Fail(p, "syntax")
      [] Is(p, ")") -> Give(Skip(p), read)
      [] OTHER -> afterItem(Rule("readObject", p, <<>>), read)
afterItem(o, read) == items(o, Append(read, o.val))

listTriples(p, cell, rest) ==
    LET q == emit(p, cell, First, Head(rest))
        next == NewBNode(q)
    IN IF Len(rest) = 1 THEN emit(q, cell, Rest, Nil)
       ELSE listTriples(emit(next, cell, Rest, next.val), next.val, Tail(rest))

afterItems(r) ==
    LET head == NewBNode(r)
    IN IF r.err # "" THEN r
       ELSE IF r.val = <<>> THEN leave(Give(r, Nil))
       ELSE leave(Give(listTriples(head, head.val, r.val), head.val))
readCollection(p) == afterItems(items(Skip(enter(p)), <<>>))

readSubject(p) ==
    CASE Tok(p)[1] \in {"<<", "<<("} -> Rule("readReifiedTriple", p, <<>>)
      [] Is(p, "label") -> readBlankNodeLabel(p)
      [] Is(p, "[") -> Rule("readBlankNodePropertyList", p, <<>>)
      [] Is(p, "(") -> Rule("readCollection", p, <<>>)
      [] OTHER -> IRIOrName(p)

readObject(p) ==
    CASE Tok(p)[1] \in {"<<", "<<("} -> Rule("readTripleTermOrReified", p, <<>>)
      [] Is(p, "[") -> Rule("readBlankNodePropertyList", p, <<>>)
      [] Is(p, "(") -> Rule("readCollection", p, <<>>)
      [] OTHER -> Rule("readScalar", p, <<>>)
-----------------------------------------------------------------------------
\* {| ... |} describes the reifier; an empty block is an error.
readAnnotationBlock(p, reifier) ==
    LET q == Skip(enter(p))
    IN IF Is(q, "|}") THEN Fail(q, "syntax")
       ELSE leave(Expect(Rule("predicateObjectList", q, <<reifier>>), "|}"))

readAnnotationsAndReifiers(p, s, pred, o) ==
    LET tt == TripleTerm(s, pred, o)
        named == Is(p, "~")
        q == IF named THEN Skip(p) ELSE p
        r == IF named /\ Tok(q)[1] \notin ReifierEnds THEN readReifierID(q) ELSE NewBNode(q)
        e == emit(r, r.val, Reifies, tt)
    IN IF Tok(p)[1] \notin {"~", "{|"} THEN p
       ELSE Rule("readAnnotationsAndReifiers",
                 IF Is(e, "{|") THEN readAnnotationBlock(e, r.val) ELSE e, <<s, pred, o>>)

readTripleTermSubject(p) ==
    CASE Is(p, "label") -> readBlankNodeLabel(p)
      [] Is(p, "[") -> readTripleTermANON(p)
      [] OTHER -> IRIOrName(p)

readTripleTermObject(p) ==
    CASE Is(p, "<<(") -> Rule("readTripleTermOrReified", p, <<>>)
      [] Is(p, "[") -> readTripleTermANON(p)
      [] OTHER -> Rule("readScalar", p, <<>>)

EndTerm(q) == Give(Expect(q, ")>>"), TripleRead(q))
readTripleTermInner(p) ==
    EndTerm(ReadThree(p, readTripleTermSubject, readPredicate, readTripleTermObject))

readReifiedInnerSubject(p) ==
    CASE Tok(p)[1] \in {"<<", "<<("} -> Rule("readReifiedTriple", p, <<>>)
      [] Is(p, "label") -> readBlankNodeLabel(p)
      [] Is(p, "[") -> readEmptyBNodeOnly(p)
      [] OTHER -> IRIOrName(p)

readReifiedInnerObject(p) ==
    CASE Tok(p)[1] \in {"<<", "<<("} -> Rule("readTripleTermOrReified", p, <<>>)
      [] Is(p, "[") -> readEmptyBNodeOnly(p)
      [] OTHER -> Rule("readScalar", p, <<>>)

\* << s p o ~ id >> stands for its reifier, a new node when it names none.
Reifier(o) == LET q == IF Is(o, "~") THEN Skip(o) ELSE o
              IN IF Is(o, "~") /\ ~Is(q, ">>") THEN readReifierID(q) ELSE NewBNode(q)

Reified(r, tt) == Give(emit(Expect(r, ">>"), r.val, Reifies, tt), r.val)

EndReified(q) == Reified(Reifier(q), TripleRead(q))
readReifiedTripleInner(p) ==
    EndReified(ReadThree(p, readReifiedInnerSubject, readPredicate, readReifiedInnerObject))

readReifiedTriple(p) ==
    IF Is(p, "<<(") THEN Fail(p, "syntax")
    ELSE leave(Rule("readReifiedTripleInner", Skip(enter(p)), <<>>))

readTripleTermOrReified(p) ==
    IF Is(p, "<<(") THEN leave(readTripleTermInner(Skip(enter(p))))
    ELSE leave(Rule("readReifiedTripleInner", Skip(enter(p)), <<>>))

Rule(name, p, x) ==
    CASE name = "predicateObjectList" -> predicateObjectList(p, x[1])
      [] name = "readAnnotationsAndReifiers" -> readAnnotationsAndReifiers(p, x[1], x[2], x[3])
      [] name = "readBlankNodePropertyList" -> readBlankNodePropertyList(p)
      [] name = "readCollection" -> readCollection(p)
      [] name = "readObject" -> readObject(p)
      [] name = "readReifiedTripleInner" -> readReifiedTripleInner(p)
      [] name = "readScalar" -> readScalar(p)
      [] name = "readSubject" -> readSubject(p)
      [] name = "readReifiedTriple" -> readReifiedTriple(p)
      [] name = "readTripleTermOrReified" -> readTripleTermOrReified(p)

\* The same, for a parser built on this one.
Production(name, p, x) == Rule(name, p, x)
-----------------------------------------------------------------------------
readVersionString(p) == Expect(p, "string")

\* @prefix p: <ns> and @base <iri>; the IRI is resolved against the base so far.
BindPrefix(p) ==
    IF Is(p, "pname") /\ Tok(p)[3] = <<>>
    THEN LET q == readIRI(Skip(p))
         IN IF q.err # "" THEN q
            ELSE [q EXCEPT !.prefixes = [x \in DOMAIN @ \cup {Tok(p)[2]} |->
                                            IF x = Tok(p)[2] THEN q.val[2] ELSE @[x]]]
    ELSE Fail(p, "syntax")

SetBase(p) == LET q == readIRI(p)
              IN IF q.err # "" THEN q ELSE [q EXCEPT !.base = q.val[2]]

directive(p) ==
    CASE Is(p, "@prefix") -> Expect(BindPrefix(Skip(p)), ".")
      [] Is(p, "@version") -> Expect(readVersionString(Skip(p)), ".")
      [] Is(p, "@base") -> Expect(SetBase(Skip(p)), ".")

sparqlPrefix(p) == BindPrefix(Skip(p))
sparqlBase(p) == SetBase(Skip(p))
sparqlVersion(p) == readVersionString(Skip(p))

Directives == {"@prefix", "@version", "@base"}

\* The predicates may be left out when the subject is a blank node.
afterSubject(s) == IF Is(s, ".") /\ IsBNode(s.val) THEN Skip(s)
                   ELSE Expect(Rule("predicateObjectList", s, <<s.val>>), ".")

tripleStatement(p) == afterSubject(Rule("readSubject", p, <<>>))

statement(p) ==
    CASE Tok(p)[1] \in Directives -> directive(p)
      [] Is(p, "PREFIX") -> sparqlPrefix(p)
      [] Is(p, "BASE") -> sparqlBase(p)
      [] Is(p, "VERSION") -> sparqlVersion(p)
      [] OTHER -> tripleStatement(p)

\* Statement after statement, until the end, an error, or a handler that fails.
\* The handler's error is the one reported when both happen.
RECURSIVE parse(_)
afterStatement(q) == IF q.stop THEN [q EXCEPT !.err = "handler"]
                     ELSE IF q.err # "" THEN q
                     ELSE parse(q)

parse(p) == IF Is(p, "eof") THEN p ELSE afterStatement(statement(p))
=============================================================================
