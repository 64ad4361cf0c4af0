----------------------------- MODULE SymbolFile -----------------------------
(***************************************************************************)
(* The File of src/symbol/type.go driven by one indexer (spec.md 2, 5):    *)
(* a File is created empty (NewFile) or opened from the persisted buffer   *)
(* (GetRootAsFile), mutated by the Add* calls, materialised by Unmarshal   *)
(* and persisted by Serialize.  Calls run one at a time (single writer).   *)
(*                                                                         *)
(* The variables are the fields of the one live File struct, plus the      *)
(* bytes last persisted.  A nil map or nil pointer is Nil.  A call that    *)
(* dereferences nil or writes a nil map panics: the File is then abandoned *)
(* (status records which call panicked) and only a new File can be made.  *)
(***************************************************************************)
EXTENDS SymbolEncoding, FiniteSets, TLC

CONSTANTS
  USRs,         \* Location.usr values the indexer reports
  FileNames,    \* Location.fileName values
  Lines,        \* Location line/col/offset values (never the zero 0)
  Names,        \* File names passed to NewFile
  FlagValues,   \* compiler flags
  TUs,          \* non-empty translation-unit snapshots
  HeaderNames,  \* clean paths of real header files (Base(p) = p)
  Times,        \* header mtimes and wall-clock readings, in Unix seconds
  Nil,
  MaxDecls,     \* bound: Decls per Info
  MaxCallers,   \* bound: Callers per Info
  MaxHeaders,   \* bound: Headers per File
  MaxFlags,     \* bound: length of the flags passed to NewFile
  MaxSaves      \* bound: Serialize calls that persist bytes

ASSUME NoString \notin USRs \cup FileNames \cup Names \cup TUs \cup HeaderNames
ASSUME 0 \notin Lines

VARIABLES
  name, flags, translationUnit, locations, symbols, headers, builder, file,
  status,   \* "none" before any File, "live", or the call that panicked
  stored,   \* the bytes the last successful Serialize produced (Nil: none)
  written,  \* history: what that Serialize was handed to write
  saves     \* history: how many Serialize calls have persisted bytes

fileVars == <<name, flags, translationUnit, locations, symbols, headers, builder, file>>
persistVars == <<stored, written, saves>>
vars == <<fileVars, status, persistVars>>

Locations == {MakeLocation(fn, ln, u) : fn \in FileNames, ln \in Lines, u \in USRs}

\* The clang.File handles AddHeader can be given: a real header, or one
\* whose Name() is empty.
HeaderFiles == [name : HeaderNames, time : Times] \cup {[name |-> NoString, time |-> 0]}

FlagLists == UNION {[1..n -> FlagValues] : n \in 0..MaxFlags}

\* Reading a nil map is reading an empty map.
Table(m) == IF m = Nil THEN <<>> ELSE m

Live == status = "live"

Buf == file.buf
Root == file.root

-----------------------------------------------------------------------------
(* Accessors: the in-memory field when it is non-empty, else the buffer.   *)
(* The fallback dereferences f.file, which panics when it is nil.          *)

NameOf == IF name # NoString THEN name ELSE StringField(Buf, Root, "Name")
NamePanics == name = NoString /\ file = Nil

TranslationUnitOf ==
  IF translationUnit # NoString THEN translationUnit
  ELSE StringField(Buf, Root, "TranslationUnit")
TranslationUnitPanics == translationUnit = NoString /\ file = Nil

FlagsOf ==
  IF Len(flags) > 0 THEN flags
  ELSE [k \in 1..VectorLength(Buf, Root, "Flags") |->
          StringAt(Buf, VectorElem(Buf, Root, "Flags", k - 1))]

\* The buffer branch of Symbols() and Headers().
BufferInfos == [k \in 1..VectorLength(Buf, Root, "Symbols") |->
                  ViewInfo(VectorElem(Buf, Root, "Symbols", k - 1))]

\* Symbols() with a non-empty table: a slice made with length len(f.symbols)
\* and the Infos appended after it, in map order (one order stands for all:
\* only the elements are read).
SymbolsOf ==
  IF DOMAIN Table(symbols) # {}
  THEN [k \in 1..Cardinality(DOMAIN symbols) |-> Nil] \o SetToSeq(Range(symbols))
  ELSE BufferInfos

HeadersOf ==
  IF Len(headers) > 0 THEN headers
  ELSE [k \in 1..VectorLength(Buf, Root, "Headers") |->
          ViewHeader(VectorElem(Buf, Root, "Headers", k - 1))]

-----------------------------------------------------------------------------
(* Creating a File                                                         *)

NewFile(n, fl) ==
  /\ name' = n
  /\ flags' = fl
  /\ translationUnit' = NoString
  /\ locations' = <<>>
  /\ symbols' = <<>>
  /\ headers' = <<>>
  /\ builder' = <<>>
  /\ file' = Nil
  /\ status' = "live"
  /\ UNCHANGED persistVars

GetRootAsFile ==
  /\ stored # Nil
  /\ file' = [buf |-> stored, root |-> RootOf(stored)]
  /\ name' = NoString
  /\ flags' = <<>>
  /\ translationUnit' = NoString
  /\ locations' = Nil
  /\ symbols' = Nil
  /\ headers' = <<>>
  /\ builder' = Nil
  /\ status' = "live"
  /\ UNCHANGED persistVars

-----------------------------------------------------------------------------
(* Mutations                                                               *)

AddTranslationUnit(t) ==
  /\ Live
  /\ translationUnit' = t
  /\ UNCHANGED <<name, flags, locations, symbols, headers, builder, file,
                 status, persistVars>>

\* addSymbol(loc, def): fetch or create the Info, append the decl, overwrite
\* the def when def.isExist(), then record loc in f.locations and store the
\* Info.  sym is a pointer: when it was already in the table, the decl and
\* def are applied in place before the f.locations write can panic.
addSymbol(loc, def, op) ==
  LET id   == ToID(loc.usr)
      old  == id \in DOMAIN Table(symbols)
      sym0 == IF old THEN symbols[id] ELSE NewInfo(id)
      sym  == [sym0 EXCEPT !.decls = Append(@, loc),
                           !.def   = IF isExist(def) THEN def ELSE @]
  IN /\ Live
     /\ Len(sym0.decls) < MaxDecls
     /\ \/ /\ locations # Nil
           /\ locations' = (loc :> id) @@ locations
           /\ symbols' = (id :> sym) @@ symbols
           /\ UNCHANGED status
        \/ /\ locations = Nil
           /\ symbols' = IF old THEN [symbols EXCEPT ![id] = sym] ELSE symbols
           /\ status' = op
           /\ UNCHANGED locations
     /\ UNCHANGED <<name, flags, translationUnit, headers, builder, file,
                    persistVars>>

AddDecl(loc) == addSymbol(loc, ZeroLocation, "AddDecl")

AddDefinition(loc, def) == addSymbol(loc, def, "AddDefinition")

\* filepath.Clean("") and filepath.Base("") are "."; the header names are
\* already clean base names.
Clean(p) == IF p = NoString THEN "." ELSE p
Base(p) == IF p = NoString THEN "." ELSE p

notExistHeaderName(headPath) == <<"IDoNotReallyExist-", Base(headPath)>>

\* AddHeader(includePath, headerFile): includePath is not used; now is the
\* time.Now() reading taken for a header without a name.
AddHeader(h, now) ==
  LET hdr == IF h.name = NoString
             THEN [fileid |-> ToFileID(notExistHeaderName(Clean(h.name))),
                   mtime |-> now, view |-> 0]
             ELSE [fileid |-> ToFileID(Clean(h.name)), mtime |-> h.time, view |-> 0]
  IN /\ Live
     /\ Len(headers) < MaxHeaders
     /\ headers' = Append(headers, hdr)
     /\ UNCHANGED <<name, flags, translationUnit, locations, symbols, builder,
                    file, status, persistVars>>

\* AddCaller(sym, def, funcCall): def is not used.  The Info is only stored
\* back by the final map write, which panics on a nil map.
AddCaller(sym, funcCall) ==
  LET id   == ToID(sym.usr)
      syms == IF id \in DOMAIN Table(symbols) THEN symbols[id] ELSE NewInfo(id)
      new  == [syms EXCEPT !.callers = Append(@, [location |-> sym,
                                                  funcCall |-> funcCall,
                                                  view |-> 0])]
  IN /\ Live
     /\ Len(syms.callers) < MaxCallers
     /\ \/ /\ symbols # Nil
           /\ symbols' = (id :> new) @@ symbols
           /\ UNCHANGED status
        \/ /\ symbols = Nil
           /\ status' = "AddCaller"
           /\ UNCHANGED symbols
     /\ UNCHANGED <<name, flags, translationUnit, locations, headers, builder,
                    file, persistVars>>

-----------------------------------------------------------------------------
(* Materialising and persisting                                            *)

\* Unmarshal: f.file.Name() panics on a build-mode File.  Otherwise the
\* symbol table is rebuilt from the buffer -- Symbols() reads the buffer
\* because f.symbols was just made empty -- keyed by Info.ID(), a later
\* entry with the same key replacing an earlier one; the headers become
\* len(Headers()) nil entries followed by Headers().  Flags and locations
\* are left as they are.
Unmarshal ==
  /\ Live
  /\ \/ /\ file = Nil
        /\ status' = "Unmarshal"
        /\ UNCHANGED <<fileVars, persistVars>>
     \/ /\ file # Nil
        /\ LET infos == BufferInfos
               keyOf(k) == InfoID(Buf, infos[k])
               keys == {keyOf(k) : k \in DOMAIN infos}
               last(id) == infos[Max({k \in DOMAIN infos : keyOf(k) = id})]
               hs == HeadersOf
           IN /\ name' = StringField(Buf, Root, "Name")
              /\ translationUnit' = StringField(Buf, Root, "TranslationUnit")
              /\ symbols' = [id \in keys |->
                               [id |-> id,
                                decls |-> InfoDecls(Buf, last(id)),
                                def |-> InfoDef(Buf, last(id)),
                                callers |-> InfoCallers(Buf, last(id)),
                                view |-> last(id).view]]
              /\ headers' = [k \in 1..Len(hs) |-> Nil] \o hs
        /\ UNCHANGED <<flags, locations, builder, file, status, persistVars>>

\* Serialize: Name() and TranslationUnit() fall back to f.file, and a nil
\* header is dereferenced by hdr.serialize; each panics.  Otherwise name,
\* translation unit, f.flags, f.symbols (in map iteration order, which Go
\* leaves unspecified) and f.headers are written bottom-up into f.builder
\* (made when nil, reused otherwise) and the File table is finished.  The
\* finished bytes are what the indexer persists.
Serialize ==
  LET b0 == IF builder = Nil THEN <<>> ELSE builder
      b1 == CreateString(b0, NameOf)
      b2 == CreateString(b1, TranslationUnitOf)
      fv == SerializeVector(b2, flags, CreateString)
  IN /\ Live
     /\ \/ /\ NamePanics \/ TranslationUnitPanics \/ Nil \in Range(headers)
           /\ status' = "Serialize"
           /\ builder' = b0
           /\ UNCHANGED <<name, flags, translationUnit, locations, symbols,
                          headers, file, persistVars>>
        \/ /\ ~NamePanics /\ ~TranslationUnitPanics /\ Nil \notin Range(headers)
           /\ saves < MaxSaves
           /\ \E order \in SetToSeqs(DOMAIN Table(symbols)) :
                LET infos == [k \in DOMAIN order |-> symbols[order[k]]]
                    sv == SerializeVector(fv[1], infos, SerializeInfo)
                    hv == SerializeVector(sv[1], headers, SerializeHeader)
                    bt == EndObject(hv[1], [Name |-> Offset(b1),
                                            Flags |-> fv[2],
                                            TranslationUnit |-> Offset(b2),
                                            Symbols |-> sv[2],
                                            Headers |-> hv[2]], <<>>)
                    fin == Finish(bt, Offset(bt))
                IN /\ builder' = fin
                   /\ stored' = fin
                   /\ saves' = saves + 1
                   /\ written' = [name |-> NameOf, flags |-> flags,
                                  tu |-> TranslationUnitOf,
                                  symbols |-> [k \in DOMAIN infos |-> InfoData(infos[k])],
                                  headers |-> [k \in DOMAIN headers |-> HeaderData(headers[k])]]
           /\ UNCHANGED <<name, flags, translationUnit, locations, symbols,
                          headers, file, status>>

-----------------------------------------------------------------------------

Init ==
  /\ name = NoString
  /\ flags = <<>>
  /\ translationUnit = NoString
  /\ locations = Nil
  /\ symbols = Nil
  /\ headers = <<>>
  /\ builder = Nil
  /\ file = Nil
  /\ status = "none"
  /\ stored = Nil
  /\ written = Nil
  /\ saves = 0

Next ==
  \/ \E n \in Names, fl \in FlagLists : NewFile(n, fl)
  \/ GetRootAsFile
  \/ \E t \in TUs : AddTranslationUnit(t)
  \/ \E l \in Locations : AddDecl(l)
  \/ \E l, d \in Locations : d.usr = l.usr /\ AddDefinition(l, d)
  \/ \E h \in HeaderFiles, now \in Times : AddHeader(h, now)
  \/ \E l \in Locations, fc \in BOOLEAN : AddCaller(l, fc)
  \/ Unmarshal
  \/ Serialize

Spec == Init /\ [][Next]_vars

-----------------------------------------------------------------------------
(* Properties                                                              *)

\* The encoding engine is lossless: the bytes persisted by the last
\* Serialize decode, field by field and in every vector's order, to exactly
\* what that Serialize was handed -- across nested vectors, vectors left out
\* when empty, scalars left out at their default, and a builder reused from
\* an earlier Serialize of the same File (type.go 227-280, 304-546).
EncodingLossless == stored # Nil => DecodeFile(stored) = written


\* What an Info of the table reports: in-memory values for what the
\* indexer added, the buffer for the views Unmarshal put there.
LocationReported(l) == IF l.view = 0 THEN LocationData(l) ELSE LocationSeen(Buf, l)

CallerReported(c) == IF c.view = 0 THEN CallerData(c) ELSE CallerSeen(Buf, c)

InfoReported(i) ==
  [decls   |-> [k \in DOMAIN i.decls |-> LocationReported(i.decls[k])],
   def     |-> LocationReported(i.def),
   callers |-> [k \in DOMAIN i.callers |-> CallerReported(i.callers[k])]]

WrittenSymbols ==
  {[decls |-> w.decls, def |-> w.def, callers |-> w.callers] : w \in Range(written.symbols)}

\* Reopening is faithful, IDs aside: a File opened by GetRootAsFile from the
\* persisted bytes reports, through Name(), Flags(), Headers()[k].Mtime()
\* (until AddHeader gives it headers of its own) and every Info's Decls()/Def()/Callers(), exactly
\* what the Serialize that produced them was handed; after Unmarshal its
\* symbol table holds the same decls, def and callers (type.go 55-133,
\* 205-224, 346-530).
ReopenedContentMatches ==
  (Live /\ file # Nil /\ file.buf = stored) =>
    /\ NameOf = written.name
    /\ FlagsOf = written.flags
    /\ headers = <<>> =>
         [k \in DOMAIN HeadersOf |-> HeaderMtime(Buf, HeadersOf[k])]
           = [k \in DOMAIN written.headers |-> written.headers[k].mtime]
    /\ symbols = Nil =>
         {InfoSeen(Buf, i) : i \in Range(BufferInfos)} = WrittenSymbols
    /\ symbols # Nil =>
         {InfoReported(symbols[id]) : id \in {x \in DOMAIN symbols : symbols[x].view # 0}}
           = WrittenSymbols


\* Mutation calls never fail (spec.md 7): AddDecl, AddDefinition and
\* AddCaller (type.go 141-203) return normally on every File, including one
\* opened from the persisted bytes to continue indexing (spec.md 4.1).
MutationsNeverPanic == status \notin {"AddDecl", "AddDefinition", "AddCaller"}

\* Identities survive persistence: on a File opened from the persisted
\* bytes, every Info's ID() and every Header's FileID() (type.go 347-349,
\* 408-410) is an ID that the Serialize producing the bytes wrote.
ReopenedIDsMatch ==
  (Live /\ file # Nil /\ file.buf = stored /\ symbols = Nil /\ headers = <<>>) =>
    /\ {InfoID(Buf, i) : i \in Range(BufferInfos)}
         = {w.id : w \in Range(written.symbols)}
    /\ [k \in DOMAIN HeadersOf |-> HeaderFileID(Buf, HeadersOf[k])]
         = [k \in DOMAIN written.headers |-> written.headers[k].fileid]

\* Unmarshal materialises the headers (spec.md 4.1): afterwards the File's
\* headers, leaving aside those AddHeader added since, are exactly the
\* persisted ones, each once, in order, and a Header whose Mtime() is the
\* persisted one -- after a first Unmarshal and after any further one
\* (type.go 219-223, which sizes the slice to len(Headers()) before
\* appending, and reads Headers() from f.headers once it is non-empty).
UnmarshalKeepsHeaders ==
  (Live /\ file # Nil /\ symbols # Nil /\ file.buf = stored) =>
    LET kept == SelectSeq(headers, LAMBDA h : h = Nil \/ h.view # 0)
    IN [k \in DOMAIN kept |-> IF kept[k] = Nil THEN Nil ELSE HeaderMtime(Buf, kept[k])]
         = [k \in DOMAIN written.headers |-> written.headers[k].mtime]

\* What the File reports through Flags(), Symbols() and Headers(); a
\* Header AddHeader made reports its in-memory mtime.
HeaderReported(h) == IF h.view = 0 THEN h.mtime ELSE HeaderMtime(Buf, h)

ReportedSymbols ==
  IF symbols = Nil THEN {InfoSeen(Buf, i) : i \in Range(BufferInfos)}
  ELSE {InfoReported(symbols[id]) : id \in DOMAIN symbols}

\* Serializing a reopened File persists what it reports (spec.md 4.1: an
\* opened File keeps accepting calls and is written back): a Serialize of
\* a File opened by GetRootAsFile, unmarshalled or not (type.go 227-280),
\* writes the flags, the decls/def/callers of every symbol and the header
\* mtimes the File's accessors return.
ReserializePersistsContent ==
  [][(file # Nil /\ saves' = saves + 1) =>
       /\ written'.flags = FlagsOf
       /\ {[decls |-> w.decls, def |-> w.def, callers |-> w.callers] :
             w \in Range(written'.symbols)} = ReportedSymbols
       /\ [k \in DOMAIN written'.headers |-> written'.headers[k].mtime]
            = [k \in DOMAIN HeadersOf |-> HeaderReported(HeadersOf[k])]]_vars

\* Round trip (spec.md 8): a Serialize of a File built purely by the Add*
\* calls returns rather than panicking in TranslationUnit() (type.go 233),
\* and the symbols it persists are exactly the Infos the File's Symbols()
\* reports (type.go 94-101), one per symbol and none nil.
BuiltFilesRoundTrip ==
  [][(file = Nil /\ Live /\ (saves' = saves + 1 \/ status' = "Serialize")) =>
       /\ status' = "live"
       /\ DOMAIN symbols # {} =>
            /\ Nil \notin Range(SymbolsOf)
            /\ {InfoData(s) : s \in Range(SymbolsOf)} = Range(written'.symbols)]_vars

=============================================================================
