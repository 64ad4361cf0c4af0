----------------------------- MODULE Completion -----------------------------
(***************************************************************************)
(* The completion path of src/symbol/type.go (552-741): CreateLocation     *)
(* builds the request of the Clang.Completion rpc (part_000), Marshal      *)
(* converts clang's completion results into a CodeCompleteResults buffer,  *)
(* and a client reads it back with NewCodeCompleteResults, Results() and   *)
(* the CompleteItem accessors.                                             *)
(*                                                                         *)
(* A completion string is a sequence of chunks [kind, text]; a text is a  *)
(* model value and a Go string built by += is the sequence of the texts    *)
(* appended to it.  A CompleteItem is a record of its in-memory fields     *)
(* plus `view`, the offset of its *symbol.CompleteItem (0 = nil).  A       *)
(* builder is [buf, finished].                                             *)
(***************************************************************************)
EXTENDS SymbolEncoding

CONSTANTS
  Texts,        \* chunk texts
  FileNames,    \* file names of a request
  Lines, Cols,  \* uint32 line and column of a request
  Nil,          \* Go nil
  MaxChunks,    \* chunks per completion string
  MaxResults    \* completion results per request

VARIABLES
  request,      \* the builder CreateLocation returned, Nil before
  asked,        \* the arguments CreateLocation was given
  candidates,   \* the *clang.CodeCompleteResults handed to Marshal
  response,     \* the builder Marshal returned (Nil for a nil input)
  bytes,        \* what the rpc codec sent: response's FinishedBytes()
  items,        \* the []CompleteItem Results() returned
  status        \* "live" or the call that panicked

vars == <<request, asked, candidates, response, bytes, items, status>>

\* clang.CompletionChunk_TypedText, _ResultType, and one kind standing for
\* every other kind: Marshal's switch treats them all alike.
Kinds == {"TypedText", "ResultType", "Other"}

Chunks == [kind : Kinds, text : Texts]

CompletionStrings == UNION {[1..n -> Chunks] : n \in 0..MaxChunks}

\* The non-nil inputs of CodeCompleteResults.Marshal.
ResultLists == UNION {[1..n -> CompletionStrings] : n \in 0..MaxResults}

Live == status = "live"

-----------------------------------------------------------------------------
(* CreateLocation (554-571): FileName, Line and Col, then Finish.          *)

\* Mutant: the symbol.LocationAddCol call left out.
CreateLocationNoCol(filename, line, col) ==
  LET b1 == CreateString(<<>>, filename)
      bt == EndObject(b1, [FileName |-> Offset(b1)], [Line |-> line])
  IN [buf |-> Finish(bt, Offset(bt)), finished |-> TRUE]

CreateLocation(filename, line, col) ==
  LET b1 == CreateString(<<>>, filename)
      bt == EndObject(b1, [FileName |-> Offset(b1)], [Line |-> line, Col |-> col])
  IN [buf |-> Finish(bt, Offset(bt)), finished |-> TRUE]

-----------------------------------------------------------------------------
(* CompleteItem.Marshal (637-669).                                         *)

\* Mutant: a ResultType chunk also appended to the placeholder.
ChunkStepTypInPlaceholder(acc, ch) ==
  CASE ch.kind = "TypedText"  -> [acc EXCEPT !.word = Append(@, ch.text),
                                             !.placeholder = Append(@, ch.text)]
    [] ch.kind = "ResultType" -> [acc EXCEPT !.typ = Append(@, ch.text),
                                             !.placeholder = Append(@, ch.text)]
    [] OTHER                  -> [acc EXCEPT !.placeholder = Append(@, ch.text)]

\* One iteration of the chunk loop (641-651).
ChunkStep(acc, ch) ==
  CASE ch.kind = "TypedText"  -> [acc EXCEPT !.word = Append(@, ch.text),
                                             !.placeholder = Append(@, ch.text)]
    [] ch.kind = "ResultType" -> [acc EXCEPT !.typ = Append(@, ch.text)]
    [] OTHER                  -> [acc EXCEPT !.placeholder = Append(@, ch.text)]

ConvertChunks(cs) ==
  FoldLeft(ChunkStep, [word |-> <<>>, typ |-> <<>>, placeholder |-> <<>>], cs)

\* The five strings, then the table with Icase and Dup set to byte(1).
MarshalItem(b, cs) ==
  LET s  == ConvertChunks(cs)
      b1 == CreateString(b, s.word)
      b2 == CreateString(b1, s.placeholder)
      b3 == CreateString(b2, <<>>)
      b4 == CreateString(b3, s.placeholder)
      b5 == CreateString(b4, s.typ)
  IN EndObject(b5, [Word |-> Offset(b1), Abbr |-> Offset(b2), Menu |-> Offset(b3),
                    Info |-> Offset(b4), Kind |-> Offset(b5)],
                   [Icase |-> 1, Dup |-> 1])

-----------------------------------------------------------------------------
(* CodeCompleteResults.Marshal (714-741), Results() (691-711) and the      *)
(* CompleteItem accessors (602-634).                                       *)

MarshalResults(v) ==
  IF Len(v) = 0 THEN [buf |-> <<>>, finished |-> FALSE]
  ELSE LET r  == SerializeVector(<<>>, v, MarshalItem)
           bt == EndObject(r[1], [Results |-> r[2]], <<>>)
       IN [buf |-> Finish(bt, Offset(bt)), finished |-> TRUE]

\* A string field as the sequence of texts it holds (string(nil) = "").
TextField(b, t, f) == IF RefField(b, t, f) = 0 THEN <<>> ELSE At(b, RefField(b, t, f)).str

ItemFields == <<"Word", "Abbr", "Menu", "Info", "Kind">>

\* Results(): the fields copied out of each table, Icase and Dup set to
\* true, and completeItems left nil.
ResultsOf(b) ==
  LET root == RootOf(b)
  IN [k \in 1..VectorLength(b, root, "Results") |->
        LET t == VectorElem(b, root, "Results", k - 1)
        IN [word |-> TextField(b, t, "Word"), abbr |-> TextField(b, t, "Abbr"),
            menu |-> TextField(b, t, "Menu"), info |-> TextField(b, t, "Info"),
            kind |-> TextField(b, t, "Kind"), icase |-> TRUE, dup |-> TRUE,
            view |-> 0]]

-----------------------------------------------------------------------------

Init ==
  /\ request = Nil
  /\ asked = Nil
  /\ candidates = Nil
  /\ response = Nil
  /\ bytes = Nil
  /\ items = Nil
  /\ status = "live"

\* The client encodes the cursor position of its request.
CreateLocationCall(fn, ln, col) ==
  /\ Live
  /\ request = Nil
  /\ request' = CreateLocation(fn, ln, col)
  /\ asked' = [fileName |-> fn, line |-> ln, col |-> col]
  /\ UNCHANGED <<candidates, response, bytes, items, status>>

\* The server converts clang's results; a nil input returns a nil builder.
Marshal(v) ==
  /\ Live
  /\ request # Nil
  /\ candidates = Nil
  /\ candidates' = v
  /\ response' = IF v = Nil THEN Nil ELSE MarshalResults(v)
  /\ UNCHANGED <<request, asked, bytes, items, status>>

\* The rpc codec takes response.FinishedBytes(), which panics on a builder
\* that was never finished.
Send ==
  /\ Live
  /\ response # Nil
  /\ bytes = Nil
  /\ \/ response.finished /\ bytes' = response.buf /\ UNCHANGED status
     \/ ~response.finished /\ status' = "FinishedBytes" /\ UNCHANGED bytes
  /\ UNCHANGED <<request, asked, candidates, response, items>>

\* NewCodeCompleteResults(GetRootAsCodeCompleteResults(bytes, 0)).Results()
Results ==
  /\ Live
  /\ bytes # Nil
  /\ items = Nil
  /\ items' = ResultsOf(bytes)
  /\ UNCHANGED <<request, asked, candidates, response, bytes, status>>

\* Word(), Abbr(), ... read c.completeItems; a nil one panics.
\* Nothing sets completeItems, so every item of Results() takes the nil branch.
Accessor(k, f) ==
  /\ Live
  /\ items # Nil
  /\ k \in DOMAIN items
  /\ items[k].view = 0
  /\ status' = f
  /\ UNCHANGED <<request, asked, candidates, response, bytes, items>>

Next ==
  \/ \E fn \in FileNames, ln \in Lines, col \in Cols : CreateLocationCall(fn, ln, col)
  \/ \E v \in ResultLists \cup {Nil} : Marshal(v)
  \/ Send
  \/ Results
  \/ \E k \in 1..MaxResults, f \in Range(ItemFields) : Accessor(k, f)

Spec == Init /\ [][Next]_vars

-----------------------------------------------------------------------------
(* Properties                                                              *)

\* spec.md 4.5: the texts of the chunks of the given kinds, in order.
TextsOf(cs, K) ==
  LET sel == SelectSeq(cs, LAMBDA c : c.kind \in K) IN [k \in DOMAIN sel |-> sel[k].text]

\* spec.md 4.5, the reference conversion of one completion string.
SpecItem(cs) ==
  [word |-> TextsOf(cs, {"TypedText"}), abbr |-> TextsOf(cs, Kinds \ {"ResultType"}),
   menu |-> <<>>, info |-> TextsOf(cs, Kinds \ {"ResultType"}),
   kind |-> TextsOf(cs, {"ResultType"}), icase |-> TRUE, dup |-> TRUE]

\* The generated symbol.CompleteItem accessors on table t.
DecodeItem(b, t) ==
  [word |-> TextField(b, t, "Word"), abbr |-> TextField(b, t, "Abbr"),
   menu |-> TextField(b, t, "Menu"), info |-> TextField(b, t, "Info"),
   kind |-> TextField(b, t, "Kind"), icase |-> ScalarField(b, t, "Icase") # 0,
   dup |-> ScalarField(b, t, "Dup") # 0]

DecodeResults(b) ==
  [k \in 1..VectorLength(b, RootOf(b), "Results") |->
     DecodeItem(b, VectorElem(b, RootOf(b), "Results", k - 1))]

ItemData(c) == [f \in {"word", "abbr", "menu", "info", "kind", "icase", "dup"} |-> c[f]]

\* What the client receives is what spec.md 4.5 says the server's candidates
\* convert to, one item per candidate in the candidates' order: both the
\* bytes Marshal finished (the chunk loop, the five strings, the reversed
\* offsets of the Results vector) and the fields Results() copies out.
ConversionMatchesSpec ==
  LET expected == [k \in DOMAIN candidates |-> SpecItem(candidates[k])]
  IN /\ bytes # Nil => DecodeResults(bytes) = expected
     /\ items # Nil => [k \in DOMAIN items |-> ItemData(items[k])] = expected

\* The request CreateLocation builds, read through a view Location's
\* FileName(), Line() and Col(), is the position it was given.
LocationRequestRoundTrip ==
  request # Nil =>
    LET b == request.buf
        l == ViewLocation(RootOf(b))
    IN [fileName |-> FileNameOf(b, l), line |-> LineOf(b, l),
        col |-> ScalarField(b, l.view, "Col")] = asked

\* spec.md 4.5 and 8: a CodeCompleteResults with zero candidates encodes to
\* a buffer that decodes to no results, so the codec can always send what
\* Marshal returned (FinishedBytes does not panic).
EmptyResultsSent == status # "FinishedBytes"

\* The items Results() returns can be read: Word(), Abbr(), Menu(), Info()
\* and Kind() return the fields of the received table instead of
\* dereferencing a nil completeItems.
ResultsReadable == status \notin Range(ItemFields)

=============================================================================
