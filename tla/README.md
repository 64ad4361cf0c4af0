# TLA+ models of the clang-database symbol store

These modules model `src/symbol/type.go` of clang-database, with the
flatbuffers schema it encodes (`src/unnamed/part_000`) and the earlier
draft of the same file (`src/unnamed/part_001`). Together they form
the symbol database an indexer fills while walking one source file's AST.
Each definition is translated from the Go source. `PROJECT.json` maps every
definition to the lines it models.

## The system

* **Identity** (`ToID`, `ToFileID`, outside `src/`). These are blake2b hashes
  of a USR or of a cleaned path. `ID.String()` returns the digest bytes.
* **Entities**: `Location`, `Caller`, `Header` and `Info` (type.go 286-551).
  - Each is *dual-mode*. A build-mode value holds in-memory fields. A view
    holds a pointer to a flatbuffers table and decodes on every access.
  - Accessors are inconsistent about the fallback. Only `FileName()` and
    `USR()` check whether the value is a view. `Line()`, `ID()`, `Decls()`
    and `FileID()` always read the buffer.
  - Each entity has a `serialize` method that writes its *in-memory* fields.
* **File** (type.go 28-280) is the per-source-file container.
  - `NewFile` makes a build-mode File with empty maps and a builder.
    `GetRootAsFile` opens persisted bytes and leaves every map nil.
  - `AddDecl`, `AddDefinition`, `AddCaller`, `AddHeader` and
    `AddTranslationUnit` mutate it.
  - `Unmarshal` copies a view into the in-memory fields. `Serialize` writes
    the in-memory fields bottom-up into `f.builder`.
* **Completion** (type.go 552-741). `CreateLocation` encodes the request
  of the `Clang.Completion` rpc. `CodeCompleteResults.Marshal` converts
  clang's completion strings chunk by chunk (`CompleteItem.Marshal`) into
  a response buffer. A client reads it with `Results()` and the
  `CompleteItem` accessors.
* **Draft** (part_001). An earlier File with a value-receiver `isExist`,
  no flags and no `Unmarshal`, whose `Serialize` writes the headers before
  the symbols.
* **Encoding engine**. This is the flatbuffers Go library and the generated
  `internal/symbol` package, neither of which is under `src/`. The buffer
  grows at the front, and an object's offset is its distance from the end.
  References are stored relative to their slot, and fields at their default
  are omitted.

The components interact in one loop:

1. An indexer builds a File through the `Add*` calls and `Serialize`s it.
2. The bytes are persisted.
3. Later, the indexer opens them with `GetRootAsFile`, optionally
   `Unmarshal`s them, and may continue indexing and serialize again
   (spec.md 4.1).

All calls on a File come from one goroutine (spec.md 5). There is no
concurrency to interleave. The hard part is the *sequences* of calls across
the build, persist and reopen modes.

## Modules

| module | models | state / operations |
|---|---|---|
| `FlatBuffers` | the Builder and the generated readers (spec.md 4.4; library not in `src/`) | operators only: `CreateString`, `PrependUOffsetT`, `EndVector`, `EndObject`, `Finish`; `RootOf`, `RefField`, `ScalarField`, `StringField`, `VectorElem` |
| `SymbolEncoding` | the entities of type.go 286-551, the schema tables of part_000 | see the note below the table |
| `SymbolFile` | File, type.go 28-280 | see the note below the table |
| `SymbolIndex` | the index spec.md 4.3 promises | `index` (USR → decls, def, callers), `hdrs`, `unit`; one action per mutation call |
| `MCSymbolFile` | the indexer driving a File (spec.md 2) and the refinement mapping `IndexOfFile` onto `SymbolIndex` | `MCNext`, `MCBuildNext` |
| `SymbolFileDraft` | the File of part_001 | same variables as `SymbolFile` without `flags`; one action per call; the read accessors as operators on the opened File |
| `MCSymbolFileDraft` | the same indexer on the draft File, and its mapping onto `SymbolIndex` | `MCNext`, `DraftIndex` |
| `Completion` | type.go 552-741 as one request/response exchange | see the note below the table |

**SymbolEncoding.** A value is a record of its in-memory fields plus `view`,
its table offset, where 0 is the nil pointer. Each of the following is an
operator:

- every accessor (`FileNameOf`, `LineOf`, `InfoID`, `InfoDecls`, …);
- every `serialize` method;
- `isExist`, modelled with Go dynamic types;
- the raw schema decoders (`Decode*`), which define what the bytes mean.

**SymbolFile.** The variables are the File struct's fields, Go `nil` being
`Nil`, plus four more:

- `status`: `"live"`, or the name of the call that panicked;
- `stored`: the last persisted bytes;
- `written`: what that Serialize was handed;
- `saves`: how many Serialize calls have persisted bytes.

Each call is an action. Its guards and its panic disjuncts come from the
nil dereferences and nil-map writes in the code. `Serialize` picks the map
iteration order nondeterministically.

A Go panic is modelled as a step that records the panicking call in
`status`. The File is then abandoned, and no further call on it is enabled.
`addSymbol`'s panic keeps the in-place update of an existing `*Info` that
happens before the `f.locations` write.

**SymbolFileDraft.** It reuses SymbolEncoding's entities, which are the
same code in both files. Its `addSymbol` uses the value-receiver `isExist`.
A File opened by `GetRootAsFile` has a nil builder, so its `Serialize`
panics. The refinement mapping reads an opened File as the index its bytes
decode to. Because `EncodingLossless` is checked in the same run, it takes
that index from `written` instead of decoding the buffer in every step.

**Completion.** A chunk text is a model value, and a Go string built with
`+=` is the sequence of the texts appended to it. The chunk loop is a fold
of `ChunkStep`, and `MarshalItem` writes the five strings and the table.
The variables follow one exchange:

1. the client's `request` and the arguments it was built from (`asked`);
2. the `candidates` handed to `Marshal` and the builder it returned
   (`response`);
3. the `bytes` the rpc codec took with `FinishedBytes()`, which panics on
   an unfinished builder (library behaviour, not in `src/`);
4. the `items` `Results()` returned;
5. `status`, set to the accessor or call that panicked.

## Runs

| run | cfg | expect | checks |
|---|---|---|---|
| build_encoding | `MCSymbolFile.cfg` | pass | `EncodingLossless`: all bytes persisted by `Serialize` decode to exactly what it was handed. This holds for fresh and reused builders, for every map order, and for vectors and scalars left out at their default. |
| reopen_accessors | `MCSymbolFileReopen.cfg` | pass | `ReopenedContentMatches`: a reopened File reports, through its accessors, the persisted name and flags, each symbol's decls, def and callers (before and after `Unmarshal`), and the header mtimes (before `Unmarshal` and any `AddHeader`; after `Unmarshal` they are `UnmarshalKeepsHeaders`' subject). |
| index_refinement | `MCSymbolFileIndex.cfg` | violation | `IndexRefinement`: the build-mode File implements `SymbolIndex!ISpec` under `IndexOfFile`. |
| reopen_mutation_panics | `MCSymbolFileMutate.cfg` | violation | `MutationsNeverPanic` (spec.md 7) |
| reopen_ids | `MCSymbolFileIDs.cfg` | violation | `ReopenedIDsMatch`: `Info.ID()` and `Header.FileID()` of a reopened File return the persisted IDs. |
| unmarshal_headers | `MCSymbolFileHeaders.cfg` | violation | `UnmarshalKeepsHeaders`: after any number of `Unmarshal` calls, the headers not added by `AddHeader` are exactly the persisted ones, each once, in order. The driver `MCRepeatSpec` may unmarshal again. |
| reserialize_content | `MCSymbolFileReserialize.cfg` | violation | `ReserializePersistsContent` (action property): serializing a reopened File persists what it reports. |
| serialize_without_tu | `MCSymbolFileNoTU.cfg` | violation | `BuiltFilesRoundTrip` (action property, spec.md 8 round-trip): a Serialize of a built File returns, and it persists exactly the Infos `Symbols()` reports, none nil. |
| draft_refinement | `MCSymbolFileDraft.cfg` | pass | `EncodingLossless`, `DraftIndexRefinement`: the draft File persists losslessly and implements `SymbolIndex!ISpec`, built and reopened. `ReopenedDraftReports`: a reopened draft File's `Name()`, `TranslationUnit()`, `Symbols()` and `Header()`, followed by the Info, Location, Caller and Header accessors, return the persisted content, IDs aside (the draft's `ID()` and `FileID()` re-hash too), one non-nil element per entry, in order. The reopened half of `DraftIndexRefinement` reads `written`, so it rests on `EncodingLossless`; `ReopenedDraftReports` reads the bytes. |
| completion_conversion | `Completion.cfg` | pass | `ConversionMatchesSpec`: both the response bytes and the fields `Results()` copies out equal spec.md 4.5's conversion of each candidate, in order. `LocationRequestRoundTrip`: the request reads back as the position asked. |
| completion_empty_results | `CompletionEmpty.cfg` | violation | `EmptyResultsSent` (spec.md 4.5, 8: empty results) |
| completion_results_readable | `CompletionItems.cfg` | violation | `ResultsReadable`: the accessors of a received item return its fields. |

What the violations show (details in `PROJECT.json` "findings"):

* **`isExist` is always true** (type.go 550). Its receiver is a pointer
  compared with a `Location{}` value. As a result, `AddDecl` after
  `AddDefinition` resets the definition to the zero Location.
* **A reopened File cannot be mutated.** Its maps are nil, so `AddDecl`,
  `AddDefinition` and `AddCaller` panic (type.go 154, 202).
* **IDs are re-hashed on read** (type.go 348, 409). A reopened symbol is
  never found under its original ID.
* **`Unmarshal` pads the headers with nils** (`make` plus `append`, type.go
  220). The next `Serialize` panics, and each repeated `Unmarshal` doubles
  the slice. A scratch copy with line 220 fixed (capacity instead of
  length) still violates the property. `Unmarshal` reads the headers
  through `Headers()`, so an `AddHeader` before it hides every persisted
  header. Reading them from the buffer, as the symbols are read, makes the
  property hold.
* **Serializing a reopened File loses its content.** It writes only the
  in-memory fields: no flags, no headers, and zero decls, defs and callers.
* **`Serialize` panics without a translation unit** on a File made by
  `NewFile`. A second bug hides behind it. A scratch copy with the
  `TranslationUnit()` fallback fixed still violates `BuiltFilesRoundTrip`:
  `Symbols()` on a File being built (type.go 96) returns `len(f.symbols)`
  nils before the Infos, because it calls `make` with a length and then
  `append`. With that fixed as well, the property holds.
* **Empty completion results are never finished** (type.go 721). The
  codec's `FinishedBytes()` panics.
* **The items of `Results()` cannot be read** (type.go 698). They keep
  `completeItems` nil, which every accessor dereferences.

The draft passes where type.go fails. Its value-receiver `isExist` makes
`AddDecl` keep the definition, so the same mapping that `IndexRefinement`
breaks for type.go holds for part_001.

### Bounds

All constants are model values, plus `Lines` and `Times`, which are small
sets of numbers.

| cfg | USRs | Lines | MaxDecls | MaxCallers | MaxHeaders | MaxFlags | MaxSaves |
|---|---|---|---|---|---|---|---|
| `MCSymbolFile.cfg` (build_encoding) | 2 | {1} | 2 | 1 | 2 | 1 | 2 |
| `MCSymbolFileReopen.cfg` (reopen_accessors) | 1 | {1, 2} | 2 | 1 | 2 | 1 | 1 |
| the violation cfgs | 1 | {1} | 1 | 1 | 1 | 1 | 1 (2 for reserialize) |
| `MCSymbolFileDraft.cfg` (draft_refinement) | 1 | {1, 2} | 2 | 1 | 2 | — | 2 |

`Completion.cfg` has two texts, up to 2 chunks per completion string,
up to 2 results, and lines and columns {0, 1}.

- Two texts and two chunks give every ordered pair of kinds, so a chunk
  routed to the wrong accumulator, or appended out of order, changes a
  field.
- Two results make the reversed offset loop observable.
- 0 and 1 cover a scalar left out at its default and one that is written.

Why these bounds reach the interesting cases:

* **build_encoding.** Two USRs give two symbols, so the symbol vector has
  two elements in either map order. Two headers (a real one and a synthetic
  one) give a two-element vector of distinct elements. With two saves, the
  second Serialize reuses the finished builder. Decls, def and callers can
  each be empty or not, so every "vector left out when empty" branch
  occurs.
* **reopen_accessors.** Two lines make two decls of one symbol distinct, so
  the order of a nested vector read through `Info.Decls()` is checked.
* **What grows the state space.** It is the reopen chain: every reopen
  re-hashes the IDs. `MaxSaves` therefore bounds the persisted generations.

The bound on one passing run is smaller than the other's because decoding a
buffer dominates TLC's time. Every passing run finishes in under a minute. The draft run keeps one USR
because its refinement property evaluates the mapping in every step.

`USRs` is a symmetry set in build_encoding. Nothing but equality and the
injective hash ever touches a USR.

### Driver and fairness

`MCNext` drives the File the way spec.md 2 describes:

- it builds one File;
- after a `Serialize`, the only call on that File is another `Serialize`;
- `GetRootAsFile` reopens the persisted bytes;
- a reopened File is unmarshalled at most once, except under
  `MCRepeatSpec` (unmarshal_headers), which may unmarshal it again.

The completion exchange runs once: one request, one `Marshal`, one send
and one `Results()`.

`CHECK_DEADLOCK FALSE` holds in every run, for two reasons:

- The indexing run really ends after the File is persisted.
- A panicked File takes no further calls.

No liveness is claimed. Nothing in this code waits or retries, and a single
caller drives every step, so there is no fairness to assume.

### Mutants

Each property of a passing run is checked against a plausible bug in the
code it is about:

| property | mutant |
|---|---|
| `EncodingLossless` | `PrependOffsetsForward`: offsets prepended first to last |
| `ReopenedContentMatches` | `InfoDeclsReversed`: `Decls()` read back to front |
| `DraftIndexRefinement` | `isExistPointer`: type.go's pointer receiver in the draft |
| `ReopenedDraftReports` | `SymbolsAppended`: type.go's `Symbols()`, a slice made with length n and then appended to |
| `ConversionMatchesSpec` | `ChunkStepTypInPlaceholder`: a ResultType chunk also appended to the placeholder |
| `LocationRequestRoundTrip` | `CreateLocationNoCol`: `LocationAddCol` left out |

## Not modelled

* **Sentinel header identity** (type.go 178). Every nameless header gets
  the FileID of `"IDoNotReallyExist-."`. The code hashes
  `headerFile.Name()`, which is empty here, where spec.md 8 derives the
  sentinel from the include path. `AddHeader` never reads `includePath`,
  so the model drops it. `Clean` and `Base` are modelled as Go defines
  them on `""`: both return `"."`. Dropping either call therefore gives
  the same sentinel.
* **Type invariants.** No run checks one. The values are records built
  only by the modelled operators, and no plausible mistake in this code
  changes a value's shape without breaking a property that is checked.
* **Empty names and translation units.** `Names` and `TUs` hold only
  non-empty values. An empty name or translation unit would take the
  same nil-`f.file` fallback that serialize_without_tu already shows.
* **An empty `Word`** (type.go 653). A candidate with no TypedText chunk
  converts to an empty word. spec.md 4.5's conversion, which
  `ConversionMatchesSpec` checks, gives the same result. Only spec.md 3
  says the word is non-empty, and whether libclang produces such a
  candidate is outside `src/`.
* **Larger reopen instances.** Two USRs in reopen_accessors would let
  `Unmarshal` key two symbols apart. TLC did not finish that instance in
  10 minutes, even with one decl and one header per symbol, because every
  reopen re-hashes the IDs.
* **`Unmarshal` on a File made by `NewFile`** (type.go 207) panics. This
  is its panic disjunct. spec.md 4.1 defines `Unmarshal` only for a view,
  so no property states another outcome.
* **Builder growth across saves** (type.go 228). `Serialize` never resets
  a reused builder, so each save's bytes also hold every earlier version.
  `EncodingLossless` shows that the encoding stays correct. The size is
  not bounded by any property.
* **Out of scope:**
  - the server side of the `Clang.Completion` rpc, which has no
    implementation here;
  - the hash internals, which are modelled as injective;
  - `Col` and `Offset` of a symbol's Location, which are written and read
    exactly like `Line` (the completion request's `Col` is modelled);
  - time values beyond their Unix seconds.
