----------------------------- MODULE JSONLDNodes -----------------------------
(***************************************************************************)
(* Newline-delimited JSON-LD (jsonld/nodes.go, jsonld/nodes_ndjson.go):    *)
(* ParseNodes reads a line at a time, expands it, holds it in a batch, and *)
(* converts and delivers the batch when it is full. A node is the line it  *)
(* stands on; converting and delivering it is one triple.                  *)
(***************************************************************************)
EXTENDS Naturals, Sequences, FiniteSets, SequencesExt

\* Kinds of line: "good"; "blank"; "bad", a node that does not expand; "long", a
\* line over the limit; "inconvertible", a node that expands but makes its batch
\* fail to convert: a JSON literal json-gold cannot write, an ill-formed IRI
\* under WithStrictIRIs.
CONSTANTS Kinds,          \* the kinds of line the input is made of
          MaxLines,       \* how many lines at most
          nodeBatchSize,  \* how many nodes are converted together
          MaxRoom         \* how many triples the store takes before it fails

VARIABLES input,     \* the kinds of the lines
          line,      \* the lines read so far
          batch,     \* the nodes held, by their line
          stored,    \* the nodes whose triple the store has, in order
          room,      \* what the store still takes
          onError,   \* the NodeErrorHandler: "none", or what it returns
          reported,  \* the lines it was called for
          done,      \* the context has ended
          running,   \* ParseNodes has not returned
          errs       \* the errors it returned, joined
vars == <<input, line, batch, stored, room, onError, reported, done, running, errs>>

Init == /\ input \in UNION {[1..n -> Kinds] : n \in 0..MaxLines}
        /\ line = 0 /\ batch = <<>> /\ stored = <<>> /\ room \in 0..MaxRoom
        /\ onError \in {"none", "nil", "error"} /\ reported = {}
        /\ done = FALSE /\ running = TRUE /\ errs = {}

\* Flush: the batch is emptied before it is converted, converted as a whole,
\* and delivered up to the triple the store refuses; not at all once the context
\* has ended. Answers with [batch, stored, err].
Flush(held, ended) ==
    LET fits == SubSeq(held, 1, IF Len(held) <= room THEN Len(held) ELSE room)
    IN CASE ended -> [batch |-> held, stored |-> stored, err |-> "context"]
         [] ~ended /\ \E n \in Range(held) : input[n] = "inconvertible" ->
                [batch |-> <<>>, stored |-> stored, err |-> "node"]
         [] OTHER -> [batch |-> <<>>, stored |-> stored \o fits,
                      err |-> IF Len(fits) < Len(held) THEN "store" ELSE ""]

\* Mutant: a node that does not expand takes the nodes held with it.
parseNodeResets(n, ended) ==
    LET held == Append(batch, n)
    IN CASE done -> [batch |-> batch, stored |-> stored, err |-> "context"]
         [] ~done /\ input[n] = "bad" -> [batch |-> <<>>, stored |-> stored, err |-> "node"]
         [] OTHER -> IF Len(held) >= nodeBatchSize THEN Flush(held, ended)
                     ELSE [batch |-> held, stored |-> stored, err |-> ""]

\* parseNode: a node is expanded and merged into the batch; a full batch is
\* flushed. The context is looked at before the node and again by Flush.
parseNode(n, ended) ==
    LET held == Append(batch, n)
    IN CASE done -> [batch |-> batch, stored |-> stored, err |-> "context"]
         [] ~done /\ input[n] = "bad" -> [batch |-> batch, stored |-> stored, err |-> "node"]
         [] OTHER -> IF Len(held) >= nodeBatchSize THEN Flush(held, ended)
                     ELSE [batch |-> held, stored |-> stored, err |-> ""]

Deliver(f) == /\ batch' = f.batch /\ stored' = f.stored
              /\ room' = room - (Len(f.stored) - Len(stored))

Return(es) == running' = FALSE /\ errs' = es \ {""}

\* Mutant: an error returns at once.
flushOnStopSkipped(held, err, ended) ==
    IF err = "" THEN LET f == Flush(held, ended) IN Deliver(f) /\ Return({f.err})
    ELSE batch' = held /\ UNCHANGED <<stored, room>> /\ Return({err})

\* flushOnStop, of what is held after an error or at the end; it may add its own.
flushOnStop(held, err, ended) ==
    LET f == Flush(held, ended) IN Deliver(f) /\ Return({err, f.err})

Next_line == line + 1
More == line < Len(input)

\* One line of ParseNodesStream's loop, from the scanner to the next.
Blank == /\ running /\ More /\ input[Next_line] = "blank"
         /\ line' = Next_line
         /\ UNCHANGED <<input, batch, stored, room, onError, reported, done, running, errs>>

Node == /\ running /\ More /\ input[Next_line] \notin {"blank", "long"}
        /\ line' = Next_line
        /\ done' \in {done, TRUE}
        /\ LET f == parseNode(Next_line, done')
           IN \/ /\ f.err = ""
                 /\ Deliver(f) /\ UNCHANGED <<reported, running, errs>>
              \/ /\ f.err \in {"store", "context"}
                 /\ Deliver(f) /\ Return({f.err}) /\ UNCHANGED reported
              \/ /\ f.err = "node" /\ onError = "nil"
                 /\ Deliver(f) /\ reported' = reported \cup {Next_line}
                 /\ UNCHANGED <<running, errs>>
              \/ /\ f.err = "node" /\ onError # "nil"
                 /\ reported' = IF onError = "none" THEN reported ELSE reported \cup {Next_line}
                 /\ flushOnStop(f.batch, "node", done')
        /\ UNCHANGED <<input, onError>>

\* The scanner gives up: what is held is not delivered.
TooLong == /\ running /\ More /\ input[Next_line] = "long"
           /\ Return({"long"})
           /\ UNCHANGED <<input, line, batch, stored, room, onError, reported, done>>

EndOfInput == /\ running /\ ~More
              /\ flushOnStop(batch, "", done)
              /\ UNCHANGED <<input, line, onError, reported, done>>

ContextEnds == /\ running /\ ~done /\ done' = TRUE
               /\ UNCHANGED <<input, line, batch, stored, room, onError, reported, running, errs>>

Next == Blank \/ Node \/ TooLong \/ EndOfInput \/ ContextEnds
Spec == Init /\ [][Next]_vars
-----------------------------------------------------------------------------
Expands(n) == input[n] \in {"good", "inconvertible"}

\* The nodes among the first n lines that expand, in order.
Expanding(n) == SelectSeq([i \in 1..n |-> i], Expands)

\* Which batch of nodeBatchSize nodes the node of line n is converted in.
BatchOf(n) == (Len(Expanding(n)) - 1) \div nodeBatchSize

\* No line read so far that is converted with the node of line n spoils it.
Convertible(n) ==
    \A m \in ToSet(Expanding(line)) : BatchOf(m) = BatchOf(n) => input[m] = "good"

\* ParseNodes: until the store fails or the context ends, a node handed to the
\* store and one still held are together the nodes read, each once and in order,
\* whatever bad lines the error handler let pass between them; what is missing is
\* exactly the whole batch of a node that expanded and could not be converted
\* (Flush, nodes.go:193-194, has emptied the batch by then), and of such a batch
\* nothing is stored.
NodesKept ==
    errs \cap {"store", "context"} = {} =>
        /\ Len(batch) < nodeBatchSize
        /\ stored \o batch =
              SelectSeq(Expanding(line), LAMBDA n : Convertible(n) \/ n \in ToSet(batch))

\* "A bad line without a WithNodeErrorHandler stops ParseNodes after the good lines
\* before it have been added": when ParseNodes returns for a line or at the end of
\* the input, and neither the store nor the context ended it, the store has every
\* node read that its batch could be converted with, and nothing is held back.
StopDelivers ==
    ~running /\ errs \subseteq {"node"} =>
        batch = <<>> /\ stored = SelectSeq(Expanding(line), Convertible)

\* "Errors from the store or the context are never passed to it": the handler is
\* called for the lines that do not expand, and for one that fills a batch which
\* does not convert, no others.
OnlyBadReported ==
    \A n \in reported : \/ input[n] = "bad"
                        \/ ~Convertible(n) /\ Len(Expanding(n)) % nodeBatchSize = 0

\* nodes.go:173-174, "An error that names the node leaves the batch as it was", and
\* nodes_ndjson.go:111-112, "the good nodes before it are delivered, as a
\* line-by-line parser would have delivered them": a good line that was read is
\* stored or still held, unless the store or the context ended the call.
GoodLinesKept ==
    errs \cap {"store", "context"} = {} =>
        \A n \in 1..line : input[n] = "good" => n \in ToSet(stored \o batch)
=============================================================================
