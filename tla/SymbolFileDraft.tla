--------------------------- MODULE SymbolFileDraft ---------------------------
(***************************************************************************)
(* The earlier File of src/unnamed/part_001: no flags and no Unmarshal,    *)
(* Name() and TranslationUnit() read only the buffer, Serialize writes the *)
(* headers before the symbols and returns FinishedBytes(), and isExist has *)
(* a VALUE receiver.  The entities (Location, Caller, Header, Info and      *)
(* their serialize methods) are the same code as type.go's and are taken   *)
(* from SymbolEncoding.  Variables as in SymbolFile: the File's fields,    *)
(* the call that panicked, and the persisted bytes with their history.     *)
(***************************************************************************)
EXTENDS SymbolEncoding, FiniteSets

CONSTANTS USRs, FileNames, Lines, Names, TUs, HeaderNames, Times, Nil,
          MaxDecls, MaxCallers, MaxHeaders, MaxSaves

ASSUME NoString \notin USRs \cup FileNames \cup Names \cup TUs \cup HeaderNames
ASSUME 0 \notin Lines

VARIABLES name, translationUnit, locations, symbols, headers, builder, file,
          status, stored, written, saves

draftFileVars == <<name, translationUnit, locations, symbols, headers, builder, file>>
draftPersistVars == <<stored, written, saves>>
draftVars == <<draftFileVars, status, draftPersistVars>>

Locations == {MakeLocation(fn, ln, u) : fn \in FileNames, ln \in Lines, u \in USRs}

HeaderFiles == [name : HeaderNames, time : Times] \cup {[name |-> NoString, time |-> 0]}

Table(m) == IF m = Nil THEN <<>> ELSE m

Live == status = "live"

\* Mutant: the receiver of type.go, a *Location compared with Location{}.
isExistPointer(l) == ~DeepEqual(l, "*Location", ZeroLocation, "Location")

\* func (l Location) isExist() bool: both operands are Location values.
isExistValue(l) == ~DeepEqual(l, "Location", ZeroLocation, "Location")

-----------------------------------------------------------------------------

NewFile(n) ==
  /\ name' = n
  /\ translationUnit' = NoString
  /\ locations' = <<>>
  /\ symbols' = <<>>
  /\ headers' = <<>>
  /\ builder' = <<>>
  /\ file' = Nil
  /\ status' = "live"
  /\ UNCHANGED draftPersistVars

GetRootAsFile ==
  /\ stored # Nil
  /\ file' = [buf |-> stored, root |-> RootOf(stored)]
  /\ name' = NoString
  /\ translationUnit' = NoString
  /\ locations' = Nil
  /\ symbols' = Nil
  /\ headers' = <<>>
  /\ builder' = Nil
  /\ status' = "live"
  /\ UNCHANGED draftPersistVars

\* The read accessors of an opened File (part_001 55-89) read only f.file.
Name == StringField(file.buf, file.root, "Name")

TranslationUnit == StringField(file.buf, file.root, "TranslationUnit")

\* Mutant: type.go's Symbols(), a slice made with length n and appended to.
SymbolsAppended ==
  LET n == VectorLength(file.buf, file.root, "Symbols")
  IN [k \in 1..n |-> Nil]
       \o [k \in 1..n |-> ViewInfo(VectorElem(file.buf, file.root, "Symbols", k - 1))]

\* Symbols() and Header(): element i of the vector at index i of a slice of
\* its length; f.file.Symbols(obj, i) is true for every i < n.
Symbols ==
  [k \in 1..VectorLength(file.buf, file.root, "Symbols") |->
     ViewInfo(VectorElem(file.buf, file.root, "Symbols", k - 1))]

Header ==
  [k \in 1..VectorLength(file.buf, file.root, "Headers") |->
     ViewHeader(VectorElem(file.buf, file.root, "Headers", k - 1))]

AddTranslationUnit(t) ==
  /\ Live
  /\ translationUnit' = t
  /\ UNCHANGED <<name, locations, symbols, headers, builder, file, status,
                 draftPersistVars>>

\* As type.go's addSymbol, with the value-receiver isExist; the in-place
\* update of an existing *Info precedes the f.locations write.
addSymbol(loc, def, op) ==
  LET id   == ToID(loc.usr)
      old  == id \in DOMAIN Table(symbols)
      sym0 == IF old THEN symbols[id] ELSE NewInfo(id)
      sym  == [sym0 EXCEPT !.decls = Append(@, loc),
                           !.def   = IF isExistValue(def) THEN def ELSE @]
  IN /\ Live
     /\ Len(sym0.decls) < MaxDecls
     /\ \/ /\ locations # Nil
           /\ locations' = (loc :> id) @@ locations
           /\ symbols' = (id :> sym) @@ symbols
           /\ UNCHANGED status
        \/ /\ locations = Nil
           /\ symbols' = IF old THEN [symbols EXCEPT ![id] = sym] ELSE symbols
           /\ status' = op
           /\ UNCHANGED locations
     /\ UNCHANGED <<name, translationUnit, headers, builder, file, draftPersistVars>>

AddDecl(loc) == addSymbol(loc, ZeroLocation, "AddDecl")

AddDefinition(loc, def) == addSymbol(loc, def, "AddDefinition")

\* filepath.Clean("") and filepath.Base("") are ".".
Clean(p) == IF p = NoString THEN "." ELSE p
Base(p) == IF p = NoString THEN "." ELSE p

notExistHeaderName(headPath) == <<"IDoNotReallyExist-", Base(headPath)>>

AddHeader(h, now) ==
  LET hdr == IF h.name = NoString
             THEN [fileid |-> ToFileID(notExistHeaderName(Clean(h.name))),
                   mtime |-> now, view |-> 0]
             ELSE [fileid |-> ToFileID(Clean(h.name)), mtime |-> h.time, view |-> 0]
  IN /\ Live
     /\ Len(headers) < MaxHeaders
     /\ headers' = Append(headers, hdr)
     /\ UNCHANGED <<name, translationUnit, locations, symbols, builder, file,
                    status, draftPersistVars>>

AddCaller(sym, funcCall) ==
  LET id   == ToID(sym.usr)
      syms == IF id \in DOMAIN Table(symbols) THEN symbols[id] ELSE NewInfo(id)
      new  == [syms EXCEPT !.callers = Append(@, [location |-> sym,
                                                  funcCall |-> funcCall,
                                                  view |-> 0])]
  IN /\ Live
     /\ Len(syms.callers) < MaxCallers
     /\ \/ /\ symbols # Nil
           /\ symbols' = (id :> new) @@ symbols
           /\ UNCHANGED status
        \/ /\ symbols = Nil
           /\ status' = "AddCaller"
           /\ UNCHANGED symbols
     /\ UNCHANGED <<name, translationUnit, locations, headers, builder, file,
                    draftPersistVars>>

\* Serialize: the raw fields name and translationUnit, then the headers
\* vector, then the symbols in map order, into f.builder, which is nil
\* (a panic) on an opened File.  The finished bytes are returned.
Serialize ==
  /\ Live
  /\ \/ /\ builder = Nil
        /\ status' = "Serialize"
        /\ UNCHANGED <<draftFileVars, draftPersistVars>>
     \/ /\ builder # Nil
        /\ saves < MaxSaves
        /\ \E order \in SetToSeqs(DOMAIN symbols) :
             LET b1 == CreateString(builder, name)
                 b2 == CreateString(b1, translationUnit)
                 hv == SerializeVector(b2, headers, SerializeHeader)
                 infos == [k \in DOMAIN order |-> symbols[order[k]]]
                 sv == SerializeVector(hv[1], infos, SerializeInfo)
                 bt == EndObject(sv[1], [Name |-> Offset(b1),
                                         TranslationUnit |-> Offset(b2),
                                         Symbols |-> sv[2],
                                         Headers |-> hv[2]], <<>>)
                 fin == Finish(bt, Offset(bt))
             IN /\ builder' = fin
                /\ stored' = fin
                /\ saves' = saves + 1
                /\ written' = [name |-> name, flags |-> <<>>, tu |-> translationUnit,
                               symbols |-> [k \in DOMAIN infos |-> InfoData(infos[k])],
                               headers |-> [k \in DOMAIN headers |-> HeaderData(headers[k])]]
        /\ UNCHANGED <<name, translationUnit, locations, symbols, headers, file,
                       status>>

-----------------------------------------------------------------------------

Init ==
  /\ name = NoString
  /\ translationUnit = NoString
  /\ locations = Nil
  /\ symbols = Nil
  /\ headers = <<>>
  /\ builder = Nil
  /\ file = Nil
  /\ status = "none"
  /\ stored = Nil
  /\ written = Nil
  /\ saves = 0

Next ==
  \/ \E n \in Names : NewFile(n)
  \/ GetRootAsFile
  \/ \E t \in TUs : AddTranslationUnit(t)
  \/ \E l \in Locations : AddDecl(l)
  \/ \E l, d \in Locations : d.usr = l.usr /\ AddDefinition(l, d)
  \/ \E h \in HeaderFiles, now \in Times : AddHeader(h, now)
  \/ \E l \in Locations, fc \in BOOLEAN : AddCaller(l, fc)
  \/ Serialize

Spec == Init /\ [][Next]_draftVars

-----------------------------------------------------------------------------
(* Properties                                                              *)

HeaderIDs == {ToFileID(p) : p \in HeaderNames \cup {notExistHeaderName(".")}}

\* The draft's encoding is lossless: the bytes returned by the last
\* Serialize decode to exactly what it was handed, with the headers vector
\* written before the symbols and a builder reused by a second Serialize
\* (part_001 160-196, 216-257, 321-330, 358-371, 421-434).
EncodingLossless == stored # Nil => DecodeFile(stored) = written

\* A File opened from the bytes the last Serialize returned reports,
\* through Name(), TranslationUnit(), Symbols() and Header() and then each
\* Info's Decls()/Def()/Callers() (their Locations' and Callers' accessors)
\* and each Header's Mtime(), what that Serialize was handed, IDs aside
\* (ID() and FileID() re-hash, part_001 260, 314): one non-nil element per
\* persisted symbol and header, in the order written (part_001 55-89, the
\* view branches of the entity accessors; type.go's Symbols() and
\* Unmarshal put nil entries before them).
ReopenedDraftReports ==
  (file # Nil /\ file.buf = stored) =>
    /\ Name = written.name
    /\ TranslationUnit = written.tu
    /\ [k \in DOMAIN Symbols |->
          IF Symbols[k] = Nil THEN Nil ELSE InfoSeen(file.buf, Symbols[k])]
         = [k \in DOMAIN written.symbols |->
              [f \in {"decls", "def", "callers"} |-> written.symbols[k][f]]]
    /\ [k \in DOMAIN Header |->
          IF Header[k] = Nil THEN Nil ELSE HeaderMtime(file.buf, Header[k])]
         = [k \in DOMAIN written.headers |-> written.headers[k].mtime]

=============================================================================
