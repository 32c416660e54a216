----------------------------- MODULE LineSyntax -----------------------------
(***************************************************************************)
(* N-Triples and N-Quads (nt/, nq/, internal/ntsyntax): one statement to a *)
(* line, every IRI absolute and in full. A line is a sequence of tokens;   *)
(* escapes are left out. The parsers share the terms and differ in the     *)
(* graph label, the constant Quads.                                        *)
(***************************************************************************)
EXTENDS RDFTerms

CONSTANTS Quads,       \* N-Quads (TRUE) or N-Triples
          BadPieces    \* pieces no IRIREF can hold

WellFormed(u) == Range(u) \cap BadPieces = {} /\ Absolute(u)

ReadIRI(p) == IF ~Is(p, "iriref") THEN Fail(p, "syntax")
              ELSE IF ~WellFormed(Tok(p)[2]) THEN Fail(p, "iri")
              ELSE Give(Skip(p), IRI(Tok(p)[2]))

ReadBNode(p) == Label(Skip(p), Tok(p)[2])

Typed(dt, q, lex) ==
    IF dt.err # "" THEN dt
    ELSE IF dt.val \in {RDF("langString"), RDF("dirLangString")} THEN Fail(q, "syntax")
    ELSE Give(dt, Literal(lex, dt.val))

ReadLiteral(p) ==
    LET lex == Tok(p)[2]
        q == Skip(p)
    IN CASE Is(q, "@lang") ->
                IF Tok(q)[2] # "" /\ Tok(q)[3] \in {"", "ltr", "rtl"}
                THEN Give(Skip(q), Literal(lex, <<"lang", Tok(q)[2], Tok(q)[3]>>))
                ELSE Fail(q, "syntax")
         [] Is(q, "^^") -> Typed(ReadIRI(Skip(q)), q, lex)
         [] OTHER -> Give(q, Literal(lex, XSD("string")))

ReadSubject(p) == IF Is(p, "label") THEN ReadBNode(p) ELSE ReadIRI(p)
ReadPredicate(p) == ReadIRI(p)

RECURSIVE ReadObject(_)
EndTerm(q) == Give(Expect(q, ")>>"), TripleRead(q))
ReadTripleTerm(p) == EndTerm(ReadThree(Skip(p), ReadSubject, ReadPredicate, ReadObject))

ReadObject(p) ==
    CASE Is(p, "<<(") -> ReadTripleTerm(p)
      [] Is(p, "string") -> ReadLiteral(p)
      [] OTHER -> ReadSubject(p)

\* No label is the default graph, Nil.
ReadGraphLabel(p) ==
    IF ~Quads \/ Tok(p)[1] \in {"eof", "."} THEN Give(p, Nil) ELSE ReadSubject(p)

\* What follows the '.' on a line is not looked at.
EndLine(q) == [emitRead([Expect(q, ".") EXCEPT !.graph = q.val[4]]) EXCEPT !.graph = Nil]
parseLine(p) ==
    EndLine(Also(ReadThree(p, ReadSubject, ReadPredicate, ReadObject), ReadGraphLabel))

\* onError answers a malformed line: <<"none">>, there is no error handler;
\* <<"skip">> and <<"skipIRI">>, which drop any line and one with an ill-formed
\* IRI; or <<"retry", line>>, the line to try in its place, once. An error of the
\* triple handler ends the parse and is never offered to the error handler. A
\* label read on a malformed line stays known.
Skips(onError, err) == onError = <<"skip">> \/ (onError = <<"skipIRI">> /\ err = "iri")

Retried(p, q, onError) ==
    IF onError[1] = "retry"
    THEN parseLine([p EXCEPT !.in = onError[2], !.pos = 1, !.labels = q.labels, !.fresh = q.fresh])
    ELSE q

\* q is the parser after a line, r after the line that replaced it, if any.
RECURSIVE parseLines(_, _, _)
afterRetry(p, q, r, rest, onError) ==
    IF r.stop THEN [r EXCEPT !.err = "handler"]
    ELSE IF r.err = "" THEN parseLines(r, rest, onError)
    ELSE IF Skips(onError, q.err)
         THEN parseLines([p EXCEPT !.labels = q.labels, !.fresh = q.fresh], rest, onError)
    ELSE r

afterLine(p, q, rest, onError) ==
    afterRetry(p, q, IF q.err = "" THEN q ELSE Retried(p, q, onError), rest, onError)

parseLines(p, lines, onError) ==
    IF lines = <<>> THEN p
    ELSE afterLine(p, parseLine([p EXCEPT !.in = Head(lines), !.pos = 1]), Tail(lines), onError)
-----------------------------------------------------------------------------
\* A term N-Triples cannot express is an error; nothing is written then.
RECURSIVE Expressible(_)
Expressible(t) == CASE IsIRI(t) -> WellFormed(t[2])
                    [] IsBNode(t) -> TRUE
                    [] IsLiteral(t) -> IsIRI(t[3]) => WellFormed(t[3][2])
                    [] IsTripleTerm(t) -> \A i \in 2..4 : Expressible(t[i])

LiteralToks(l) ==
    CASE ~IsIRI(l[3]) -> <<<<"string", l[2]>>, <<"@lang", l[3][2], l[3][3]>>>>
      [] l[3] = XSD("string") -> <<<<"string", l[2]>>>>
      [] OTHER -> <<<<"string", l[2]>>, <<"^^">>, <<"iriref", l[3][2]>>>>

RECURSIVE Term(_)
TripleTermStr(tt) == <<<<"<<(">>>> \o Term(tt[2]) \o Term(tt[3]) \o Term(tt[4]) \o <<<<")>>">>>>
Term(t) == CASE IsIRI(t) -> <<<<"iriref", t[2]>>>>
             [] IsBNode(t) -> <<<<"label", t[2]>>>>
             [] IsLiteral(t) -> LiteralToks(t)
             [] IsTripleTerm(t) -> TripleTermStr(t)

\* One quad as a line; the default graph has no label.
formatLine(q) ==
    Term(q[1]) \o Term(q[2]) \o Term(q[3])
      \o (IF Quads /\ q[4] # Nil THEN Term(q[4]) ELSE <<>>) \o <<<<".">>>>

\* All lines, sorted, or none at all.
Serialize(quads) ==
    IF \A q \in quads : \A i \in (1..3) \cup (IF Quads THEN {4} ELSE {}) : Expressible(q[i])
    THEN [err |-> FALSE, out |-> LET order == Listing(quads)
                                 IN [i \in DOMAIN order |-> formatLine(order[i])]]
    ELSE [err |-> TRUE, out |-> <<>>]

\* nq.Writer: a statement that cannot be written is refused alone, an error of
\* the writer beneath stays. w = [lines, err, room].
Write(w, q) ==
    IF w.err THEN w
    ELSE IF ~\A i \in 1..4 : Expressible(q[i]) THEN w
    ELSE IF Len(w.lines) = w.room THEN [w EXCEPT !.err = TRUE]
    ELSE [w EXCEPT !.lines = Append(@, formatLine(q))]
=============================================================================
